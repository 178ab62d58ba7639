-------------------------- MODULE PoolMemoryProofs --------------------------
(***************************************************************************)
(* The kernel's memory is handed out soundly for every map of the machine, *)
(* every page size, every number of threads and of pools: the theorems at  *)
(* the end state the invariants that the run of PoolMemory.tla checks, and *)
(* that PoolMemory.tla implements Allocator.tla.                           *)
(*                                                                         *)
(* First come the operators: the search for a run, the heap as the headers *)
(* describe it, the lists of the pools, and what boot leaves.  Each is a   *)
(* function by recursion, about which the lemmas are proved by induction   *)
(* (NumberFacts.tla).  Then come the steps, one lemma for each.            *)
(***************************************************************************)
EXTENDS PoolMemory, NumberFacts, FiniteSetTheorems

(* The heap: a run is the frames behind the header of a large block, and a *)
(* small block lies inside a run if it lies behind the header of it.       *)
Headers == [type : {"small", "large"}, size : Nat, next : Nat \union {NoBlock}]

Blocks(hdr, type) == {a \in DOMAIN hdr : hdr[a].type = type}
RunIn(hdr, a) ==
  (a \div PageSize)..(a \div PageSize + hdr[a].size \div PageSize - 1)
RunEnd(hdr, a) == (a \div PageSize + hdr[a].size \div PageSize) * PageSize
Inside(hdr, a, l) == /\ l + Header <= a
                     /\ a + Header + hdr[a].size <= RunEnd(hdr, l)

HeadersTyped(hdr) == /\ DOMAIN hdr \subseteq Nat
                     /\ hdr \in [DOMAIN hdr -> Headers]
RunsInFrames(fr, hdr) ==
  \A a \in Blocks(hdr, "large") :
    /\ a = LargeBlock(a \div PageSize)
    /\ hdr[a].size \div PageSize > 0
    /\ \A i \in RunIn(hdr, a) : i \in DOMAIN fr /\ fr[i] = "mapped"
RunsApart(hdr) ==
  \A a, b \in Blocks(hdr, "large") :
    a # b => RunIn(hdr, a) \intersect RunIn(hdr, b) = {}
SmallInRuns(hdr) ==
  \A a \in Blocks(hdr, "small") :
    /\ \E p \in Pools : hdr[a].size = BlockSizes[p]
    /\ \E l \in Blocks(hdr, "large") : Inside(hdr, a, l)
SmallApart(hdr) ==
  \A a, b \in Blocks(hdr, "small") : a < b => a + Header + hdr[a].size <= b

HeapOK(fr, hdr) == /\ HeadersTyped(hdr)
                   /\ RunsInFrames(fr, hdr)
                   /\ RunsApart(hdr)
                   /\ SmallInRuns(hdr)
                   /\ SmallApart(hdr)

(* The blocks of S, each of them once, are the list that begins at first.  *)
NextOf(s, i) == IF i < Len(s) THEN s[i + 1] ELSE NoBlock
IsList(hdr, first, s, S) ==
  /\ first = NextOf(s, 0)
  /\ \A i \in 1..Len(s) : s[i] \in S /\ hdr[s[i]].next = NextOf(s, i)
  /\ \A a \in S : \E i \in 1..Len(s) : s[i] = a
  /\ \A i, j \in 1..Len(s) : s[i] = s[j] => i = j

HasList(hdr, first, S) == \E s \in Seq(Nat) : IsList(hdr, first, s, S)

-----------------------------------------------------------------------------
(* The inductive invariant.                                                *)
Labels == {"idle", "poolLock", "poolTest", "poolTake", "pageLock", "search",
           "mark", "header", "fill", "freeLock", "freeLink", "freeHead",
           "bugcheck"}
InPages == {"pageLock", "search", "mark", "header", "fill"}
InFree == {"freeLock", "freeLink", "freeHead"}

NumFrames == FrameCount(TranslateMemoryMap(map))

TypesOK ==
  /\ map \in Maps
  /\ frames \in [0..(NumFrames - 1) -> Attributes]
  /\ head \in [Pools -> Nat \union {NoBlock}]
  /\ poolLock \in [Pools -> Threads \union {NoThread}]
  /\ pageLock \in Threads \union {NoThread}
  /\ pc \in [Threads -> Labels]
  /\ want \in [Threads -> Nat]
  /\ pool \in [Threads -> Pools]
  /\ block \in [Threads -> Nat \union {NoBlock}]
  /\ run \in [Threads -> Nat \union {NoRun}]
  /\ held \in [Threads -> SUBSET [mem : Nat, bytes : Nat \ {0}]]

(* Who is in a critical section has its lock; the lock of a pool stays     *)
(* held while its refill goes to the database.                             *)
Refilling(t) == pc[t] \in InPages /\ Filling(t)
HasPool(t) == \/ pc[t] \in {"poolTest", "poolTake", "freeLink", "freeHead"}
              \/ Refilling(t)
Asking(t) == \/ pc[t] \in {"poolLock", "poolTest", "poolTake"}
             \/ Refilling(t)

LocksOf(t) == /\ HasPool(t) => poolLock[pool[t]] = t
              /\ pc[t] \in {"search", "mark"} => pageLock = t
LocksOK == \A t \in Threads : LocksOf(t)

(* What a thread has read is still so: the list that it refills is empty,  *)
(* the block that it takes is the first, and the one that it pushes is     *)
(* linked to the first.                                                    *)
RegistersOf(t) ==
  /\ Asking(t) => want[t] <= BlockSizes[pool[t]]
  /\ Asking(t) \/ pc[t] \in InPages => want[t] > 0
  /\ pc[t] = "fill" => Filling(t)
  /\ pc[t] \in {"mark", "header", "fill"} => run[t] # NoRun
  /\ Refilling(t) => head[pool[t]] = NoBlock
  /\ pc[t] = "poolTake" => /\ head[pool[t]] # NoBlock
                           /\ block[t] = head[pool[t]]
  /\ pc[t] = "freeHead" => header[block[t]].next = head[pool[t]]
RegistersOK == \A t \in Threads : RegistersOf(t)

(* The frames that a thread has found are free until it marks them; then   *)
(* they are its own, though no header says so yet, and no block is cut     *)
(* from its run before it cuts them.                                       *)
Claim(t) == run[t]..(run[t] + PagesOf(t) - 1)
Claims(t) == pc[t] \in {"header", "fill"}
ClaimOf(t) ==
  /\ pc[t] = "mark" =>
       \A i \in Claim(t) : i \in DOMAIN frames /\ frames[i] = "free"
  /\ Claims(t) =>
       \A i \in Claim(t) : i \in DOMAIN frames /\ frames[i] = "mapped"
  /\ pc[t] = "header" =>
       \A a \in Blocks(header, "large") : RunIn(header, a) \intersect Claim(t) = {}
  /\ pc[t] = "fill" =>
       /\ LargeBlock(run[t]) \in Blocks(header, "large")
       /\ header[LargeBlock(run[t])].size = PagesOf(t) * PageSize
       /\ \A a \in Blocks(header, "small") :
            ~ Inside(header, a, LargeBlock(run[t]))
ClaimsOK ==
  /\ \A t \in Threads : ClaimOf(t)
  /\ \A t, u \in Threads :
       t # u /\ Claims(t) /\ Claims(u) => Claim(t) \intersect Claim(u) = {}

(* What a client holds is a block that is large enough, or a run that no   *)
(* pool has, and nobody else holds it.                                     *)
Served(it) ==
  LET a == it.mem - Header
  IN  /\ a \in DOMAIN header
      /\ header[a].type = "small" => it.bytes <= header[a].size
      /\ header[a].type = "large" =>
           /\ (it.mem + it.bytes - 1) \div PageSize \in RunIn(header, a)
           /\ \A b \in Blocks(header, "small") : ~ Inside(header, b, a)
           /\ \A t \in Threads : pc[t] = "fill" => a # LargeBlock(run[t])
HeldOK ==
  /\ \A t \in Threads : \A it \in held[t] : Served(it)
  /\ \A t, u \in Threads : \A it \in held[t], jt \in held[u] :
       it.mem = jt.mem => t = u /\ it = jt

(* A block on its way back is nobody else's, and of the size of the pool   *)
(* that it goes to.                                                        *)
Frees(t) == pc[t] \in InFree
FreeOne(t) == Frees(t) => /\ block[t] \in Blocks(header, "small")
                          /\ header[block[t]].size = BlockSizes[pool[t]]
                          /\ block[t] \notin HeldBlocks
FreeingOK ==
  /\ \A t \in Threads : FreeOne(t)
  /\ \A t, u \in Threads : Frees(t) /\ Frees(u) /\ block[t] = block[u] => t = u

(* The blocks that are neither held nor on their way back are on the list  *)
(* of their pool.                                                          *)
SizedBlocks(hdr, p) == {a \in Blocks(hdr, "small") : hdr[a].size = BlockSizes[p]}
FreeOf(p) == SizedBlocks(header, p) \ (HeldBlocks \union BeingFreed)
ListsOK == \A p \in Pools : HasList(header, head[p], FreeOf(p))

(* The frames that must not be taken are not free, and nobody has one.     *)
Kept(fr, hdr, untouchable) ==
  /\ \A i \in DOMAIN fr : i \in untouchable => fr[i] # "free"
  /\ \A a \in Blocks(hdr, "large") : RunIn(hdr, a) \intersect untouchable = {}
Untouchable == KernelFrames \union TableFrames
                 \union ReservedFrames \union UnofferedFrames
UntouchedOK ==
  /\ Kept(frames, header, Untouchable)
  /\ \A t \in Threads : pc[t] = "header" => Claim(t) \intersect Untouchable = {}

IInv == /\ TypesOK /\ HeapOK(frames, header)
        /\ LocksOK /\ RegistersOK /\ ClaimsOK
        /\ HeldOK /\ FreeingOK /\ ListsOK /\ UntouchedOK

-----------------------------------------------------------------------------
(* The search of PfnDatabaseAllocatePages.                                 *)

(* What the assumptions say of the sizes.                                  *)
LEMMA Constants ==
  /\ PageSize \in Nat \ {0} /\ Header \in Nat \ {0} /\ Header <= PageSize
  /\ PoolPages \in Nat \ {0} /\ PoolSize \in Nat \ {0}
BY PoolAssumption, BootAssumption

(* What the loop knows after n looks at the frames of fr: the frames of the*)
(* run that it has begun are free, the run could not have begun earlier,   *)
(* and among the frames before no run is long enough.                      *)
Search(fr, pages, n, r) ==
  /\ r \in [start : DOMAIN fr \union {NoRun}, count : Nat]
  /\ r.start = NoRun => r.count = 0
  /\ r.start = NoRun /\ n > 0 => fr[n - 1] # "free"
  /\ r.start # NoRun =>
       /\ r.count > 0 /\ r.count <= pages /\ r.start + r.count <= n
       /\ \A i \in r.start..(r.start + r.count - 1) : fr[i] = "free"
       /\ r.count < pages => /\ r.start + r.count = n
                             /\ r.start > 0 => fr[r.start - 1] # "free"
  /\ r.count < pages =>
       \A first \in 0..n : first + pages <= n =>
         \E i \in first..(first + pages - 1) : fr[i] # "free"

(* One look of PfnDatabaseAllocatePages at a frame keeps what the search   *)
(* knows.                                                                  *)
LEMMA LookAtSearches ==
  ASSUME NEW N \in Nat \ {0}, NEW fr \in [0..(N - 1) -> Attributes],
         NEW pages \in Nat \ {0}, NEW n \in 0..(N - 1),
         NEW r, Search(fr, pages, n, r)
  PROVE  Search(fr, pages, n + 1, LookAt(fr, pages, n)[r])
<1> DEFINE q == LookAt(fr, pages, n)[r]
           D == [start : DOMAIN fr \union {NoRun}, count : Nat]
<1>  SUFFICES Search(fr, pages, n + 1, q)
  OBVIOUS
<1>0. DOMAIN fr = 0..(N - 1) /\ NoRun = -1 /\ r \in D
  BY DEF Search, NoRun
<1>1. /\ r.start # NoRun /\ r.count >= pages => q = r
      /\ ~ (r.start # NoRun /\ r.count >= pages) =>
           /\ fr[n] # "free" => q = [start |-> NoRun, count |-> 0]
           /\ fr[n] = "free" /\ r.start = NoRun => q = [start |-> n, count |-> 1]
           /\ fr[n] = "free" /\ r.start # NoRun =>
                q = [r EXCEPT !.count = @ + 1]
  <2>1. q = IF r.start # NoRun /\ r.count >= pages THEN r
            ELSE IF fr[n] # "free" THEN [start |-> NoRun, count |-> 0]
            ELSE IF r.start = NoRun THEN [start |-> n, count |-> 1]
            ELSE [r EXCEPT !.count = @ + 1]
    BY <1>0 DEF LookAt
  <2> HIDE DEF q
  <2>2. CASE r.start # NoRun /\ r.count >= pages
    BY <2>1, <2>2
  <2>3. CASE ~ (r.start # NoRun /\ r.count >= pages) /\ fr[n] # "free"
    BY <2>1, <2>3
  <2>4. CASE ~ (r.start # NoRun /\ r.count >= pages) /\ fr[n] = "free"
    BY <2>1, <2>4
  <2> QED BY <2>2, <2>3, <2>4
<1>6. /\ r.start \in 0..(N - 1) \union {NoRun} /\ r.count \in Nat
      /\ r.start = NoRun => r.count = 0
      /\ r.start = NoRun /\ n > 0 => fr[n - 1] # "free"
      /\ n \in Nat /\ (n + 1) - 1 = n /\ n \in DOMAIN fr
  BY <1>0 DEF Search
<1>7. r.start # NoRun =>
        /\ r.count > 0 /\ r.count <= pages /\ r.start + r.count <= n
        /\ \A i \in r.start..(r.start + r.count - 1) : fr[i] = "free"
        /\ r.count < pages => /\ r.start + r.count = n
                              /\ r.start > 0 => fr[r.start - 1] # "free"
  BY DEF Search
<1>8. ASSUME r.count < pages, NEW first \in 0..(n + 1), first + pages <= n
      PROVE  \E i \in first..(first + pages - 1) : fr[i] # "free"
  <2>1. first \in 0..n
    BY <1>6, <1>8
  <2> QED BY <2>1, <1>8 DEF Search
<1>2. CASE r.start # NoRun /\ r.count >= pages
  <2>1. q = r
    BY <1>1, <1>2
  <2>2. Search(fr, pages, n + 1, r)
    BY <1>0, <1>2, <1>6, <1>7 DEF Search
  <2> QED BY <2>1, <2>2
<1>3. CASE ~ (r.start # NoRun /\ r.count >= pages) /\ fr[n] # "free"
  <2>1. q = [start |-> NoRun, count |-> 0]
    BY <1>1, <1>3
  <2>2. r.count < pages
    BY <1>3, <1>6
  <2>3. \A first \in 0..(n + 1) : first + pages <= n + 1 =>
          \E i \in first..(first + pages - 1) : fr[i] # "free"
    <3>1. SUFFICES ASSUME NEW first \in 0..(n + 1), first + pages <= n + 1
                   PROVE  \E i \in first..(first + pages - 1) : fr[i] # "free"
      OBVIOUS
    <3>2. CASE first + pages = n + 1
      <4>1. n \in first..(first + pages - 1)
        BY <3>2
      <4> QED BY <4>1, <1>3
    <3>3. CASE first + pages <= n
      BY <3>1, <3>3, <2>2, <1>8
    <3>4. first + pages <= n \/ first + pages = n + 1
      BY <3>1, <1>6
    <3> QED BY <3>2, <3>3, <3>4
  <2>4. q \in D /\ q.start = NoRun /\ q.count = 0
    BY <2>1, <1>0
  <2> HIDE DEF q
  <2> QED BY <2>4, <2>3, <1>3, <1>6 DEF Search
<1>4. CASE fr[n] = "free" /\ r.start = NoRun
  <2>1. q = [start |-> n, count |-> 1]
    BY <1>1, <1>4, <1>0
  <2>2. r.count < pages
    BY <1>4, <1>6
  <2>3. \A first \in 0..(n + 1) : 1 < pages /\ first + pages <= n + 1 =>
          \E i \in first..(first + pages - 1) : fr[i] # "free"
    <3>1. SUFFICES ASSUME NEW first \in 0..(n + 1), first + pages <= n + 1,
                          1 < pages
                   PROVE  \E i \in first..(first + pages - 1) : fr[i] # "free"
      OBVIOUS
    <3>2. CASE first + pages = n + 1
      <4>1. n - 1 \in first..(first + pages - 1) /\ n > 0
        BY <3>1, <3>2
      <4>2. fr[n - 1] # "free"
        BY <4>1, <1>4 DEF Search
      <4> QED BY <4>1, <4>2
    <3>3. CASE first + pages <= n
      BY <3>1, <3>3, <2>2, <1>8
    <3>4. first + pages <= n \/ first + pages = n + 1
      BY <3>1, <1>6
    <3> QED BY <3>2, <3>3, <3>4
  <2>4. n > 0 => fr[n - 1] # "free"
    BY <1>4 DEF Search
  <2>5. q \in D /\ q.start = n /\ q.count = 1
    BY <2>1, <1>0
  <2> HIDE DEF q
  <2>6. \A i \in n..(n + 1 - 1) : fr[i] = "free"
    BY <1>4
  <2>7. /\ q.count > 0 /\ q.count <= pages /\ q.start + q.count <= n + 1
        /\ q.start + q.count = n + 1
    BY <2>5, <1>6
  <2>8. \A i \in q.start..(q.start + q.count - 1) : fr[i] = "free"
    BY <2>5, <2>6
  <2>9. q.start > 0 => fr[q.start - 1] # "free"
    BY <2>4, <2>5
  <2>10. q.count < pages =>
           \A first \in 0..(n + 1) : first + pages <= n + 1 =>
             \E i \in first..(first + pages - 1) : fr[i] # "free"
    BY <2>3, <2>5
  <2>11. q.start # NoRun
    BY <2>5, <1>0, <1>6
  <2> QED BY <2>5, <2>7, <2>8, <2>9, <2>10, <2>11 DEF Search
<1>5. CASE /\ ~ (r.start # NoRun /\ r.count >= pages)
           /\ fr[n] = "free" /\ r.start # NoRun
  <2>1. q = [r EXCEPT !.count = @ + 1]
    BY <1>1, <1>5
  <2>2. q.start = r.start /\ q.count = r.count + 1 /\ q \in D
    BY <2>1, <1>0
  <2>3. r.count < pages /\ r.start + r.count = n /\ r.start \in 0..(N - 1)
        /\ r.count \in Nat \ {0}
    BY <1>0, <1>5 DEF Search
  <2>4. \A i \in r.start..(r.start + r.count) : fr[i] = "free"
    <3>1. \A i \in r.start..(r.start + r.count - 1) : fr[i] = "free"
      BY <1>5 DEF Search
    <3> QED BY <3>1, <2>3, <1>5
  <2>5. r.start > 0 => fr[r.start - 1] # "free"
    BY <1>5, <2>3 DEF Search
  <2>6. \A first \in 0..(n + 1) :
          r.count + 1 < pages /\ first + pages <= n + 1 =>
            \E i \in first..(first + pages - 1) : fr[i] # "free"
    <3>1. SUFFICES ASSUME NEW first \in 0..(n + 1), first + pages <= n + 1,
                          r.count + 1 < pages
                   PROVE  \E i \in first..(first + pages - 1) : fr[i] # "free"
      OBVIOUS
    <3>2. CASE first + pages = n + 1
      <4> DEFINE st == r.start
                 ct == r.count
      <4>1. /\ st \in Int /\ ct \in Int /\ first \in Nat
            /\ st + ct = n /\ ct + 1 < pages /\ ct > 0 /\ first + pages = n + 1
        BY <3>1, <3>2, <2>3
      <4> HIDE DEF st, ct
      <4>2. st - 1 \in first..(first + pages - 1) /\ st > 0
        BY <4>1, <1>6
      <4> QED BY <4>2, <2>5 DEF st
    <3>3. CASE first + pages <= n
      BY <3>1, <3>3, <2>3, <1>8
    <3>4. first + pages <= n \/ first + pages = n + 1
      BY <3>1, <1>6
    <3> QED BY <3>2, <3>3, <3>4
  <2> HIDE DEF q
  <2>7. /\ q.count > 0 /\ q.count <= pages /\ q.start + q.count <= n + 1
        /\ q.start + q.count = n + 1
    BY <2>2, <2>3, <1>6
  <2>8. \A i \in q.start..(q.start + q.count - 1) : fr[i] = "free"
    BY <2>2, <2>3, <2>4
  <2>9. q.start > 0 => fr[q.start - 1] # "free"
    BY <2>2, <2>5
  <2>10. q.count < pages =>
           \A first \in 0..(n + 1) : first + pages <= n + 1 =>
             \E i \in first..(first + pages - 1) : fr[i] # "free"
    BY <2>2, <2>6
  <2>11. q.start # NoRun
    BY <2>2, <1>5
  <2> QED BY <2>2, <2>7, <2>8, <2>9, <2>10, <2>11 DEF Search
<1>9. ~ (r.start # NoRun /\ r.count >= pages) \/ (r.start # NoRun /\ r.count >= pages)
  OBVIOUS
<1> QED BY <1>2, <1>3, <1>4, <1>5, <1>9

(* The loop of PfnDatabaseAllocatePages: what the search knows after its   *)
(* last look, by induction on the looks.                                   *)
LEMMA FindRunSearches ==
  ASSUME NEW N \in Nat \ {0}, NEW fr \in [0..(N - 1) -> Attributes],
         NEW pages \in Nat \ {0}
  PROVE  \E r : /\ Search(fr, pages, N - 1, r)
                /\ FindRun(fr, pages) = IF r.count >= pages THEN r.start
                                        ELSE NoRun
<1> DEFINE D == [start : DOMAIN fr \union {NoRun}, count : Nat]
           c == [start |-> NoRun, count |-> 0]
           looks == Cardinality(DOMAIN fr) - 1
           Recurs(f) == f = [n \in 0..looks |->
                               IF n = 0 THEN c
                               ELSE LookAt(fr, pages, n - 1)[f[n - 1]]]
           after == CHOOSE f : Recurs(f)
           step == [n \in 1..looks |-> [r \in D |-> LookAt(fr, pages, n - 1)[r]]]
<1>1. looks = N - 1 /\ DOMAIN fr = 0..(N - 1)
  BY FS_Interval
<1>2. \E f : Recurs(f)
  <2>1. step \in [1..looks -> [D -> D]]
    <3>1. ASSUME NEW n \in 1..looks, NEW r \in D
          PROVE  LookAt(fr, pages, n - 1)[r] \in D
      <4>1. n - 1 \in 0..(N - 1) /\ n - 1 \in DOMAIN fr
        BY <1>1
      <4> QED BY <4>1 DEF LookAt
    <3> HIDE DEF D
    <3> QED BY <3>1
  <2>2. c \in D /\ looks \in Nat
    BY <1>1
  <2> HIDE DEF step, D, c, looks
  <2>3. PICK f : Recursive(f, looks, D, c, step)
    BY <2>1, <2>2, RecursionExists
  <2>6. /\ f \in [0..looks -> D]
        /\ f[0] = c /\ \A n \in 1..looks : f[n] = step[n][f[n - 1]]
    BY <2>3 DEF Recursive
  <2>4. ASSUME NEW n \in 0..looks
        PROVE  f[n] = IF n = 0 THEN c
                      ELSE LookAt(fr, pages, n - 1)[f[n - 1]]
    <3>1. CASE n = 0
      BY <3>1, <2>6
    <3>2. CASE n # 0
      <4>1. n \in 1..looks /\ n - 1 \in 0..looks
        BY <2>2, <3>2
      <4>2. f[n - 1] \in D /\ f[n] = step[n][f[n - 1]]
        BY <2>6, <4>1
      <4>3. step[n][f[n - 1]] = LookAt(fr, pages, n - 1)[f[n - 1]]
        BY <4>1, <4>2 DEF step
      <4> QED BY <4>2, <4>3, <3>2
    <3> QED BY <3>1, <3>2
  <2>5. Recurs(f)
    BY <2>4, <2>6
  <2> QED BY <2>5
<1>3. Recurs(after)
  BY <1>2
<1> HIDE DEF after
<1> DEFINE T == {n \in 0..looks : Search(fr, pages, n, after[n])}
<1>4. 0 \in T
  <2>1. after[0] = c /\ 0 \in 0..looks
    BY <1>1, <1>3
  <2>2. Search(fr, pages, 0, c)
    BY <1>1 DEF Search, NoRun
  <2> QED BY <2>1, <2>2
<1>5. ASSUME NEW n \in 0..(looks - 1), n \in T
      PROVE  n + 1 \in T
  <2>1. n + 1 \in 0..looks /\ (n + 1) - 1 = n /\ n + 1 # 0 /\ n \in 0..(N - 1)
    BY <1>1
  <2>2. after[n + 1] = LookAt(fr, pages, n)[after[n]]
    BY <2>1, <1>3
  <2>3. Search(fr, pages, n + 1, LookAt(fr, pages, n)[after[n]])
    BY <1>5, <2>1, LookAtSearches
  <2> QED BY <2>1, <2>2, <2>3
<1>6. N - 1 \in T
  <2>1. looks \in Nat
    BY <1>1
  <2> HIDE DEF T, looks
  <2>2. 0..looks \subseteq T
    BY <1>4, <1>5, <2>1, UpTo
  <2> QED BY <2>1, <2>2, <1>1
<1>7. FindRun(fr, pages) = IF after[looks].count >= pages
                             THEN after[looks].start ELSE NoRun
  BY DEF FindRun, after
<1> QED BY <1>6, <1>7, <1>1

(* The frames of a run that is found are in the table, free, and end before*)
(* the last frame.                                                         *)
LEMMA FoundIsFree ==
  ASSUME NEW N \in Nat \ {0}, NEW fr \in [0..(N - 1) -> Attributes],
         NEW pages \in Nat \ {0}, FindRun(fr, pages) # NoRun
  PROVE  /\ FindRun(fr, pages) \in 0..(N - 1)
         /\ FindRun(fr, pages) + pages <= N - 1
         /\ \A i \in FindRun(fr, pages)..(FindRun(fr, pages) + pages - 1) :
              fr[i] = "free"
<1>1. PICK r : /\ Search(fr, pages, N - 1, r)
               /\ FindRun(fr, pages) = IF r.count >= pages THEN r.start
                                       ELSE NoRun
  BY FindRunSearches
<1>2. r.count >= pages /\ FindRun(fr, pages) = r.start
  BY <1>1
<1>3. r.start # NoRun /\ r.count = pages /\ r.start \in 0..(N - 1)
  BY <1>1, <1>2 DEF Search
<1> QED BY <1>1, <1>2, <1>3 DEF Search

(* The frames that the search looks for.                                   *)
AllFree(fr, N, first, pages) ==
  \A i \in first..(first + pages - 1) : i \in 0..(N - 1) /\ fr[i] = "free"

(* If no run is found, a run of free frames that is long enough can only be*)
(* the one that ends at the last frame.                                    *)
LEMMA NotFoundIsNearlyNone ==
  ASSUME NEW N \in Nat \ {0}, NEW fr \in [0..(N - 1) -> Attributes],
         NEW pages \in Nat \ {0}, FindRun(fr, pages) = NoRun,
         NEW first \in 0..(N - 1), AllFree(fr, N, first, pages)
  PROVE  first + pages = N
<1> USE DEF AllFree
<1>1. PICK r : /\ Search(fr, pages, N - 1, r)
               /\ FindRun(fr, pages) = IF r.count >= pages THEN r.start
                                       ELSE NoRun
  BY FindRunSearches
<1>2. r.count < pages
  BY <1>1 DEF Search
<1>3. first + pages <= N
  <2>1. first + pages - 1 \in first..(first + pages - 1)
    OBVIOUS
  <2> QED BY <2>1
<1>4. ~ (first + pages <= N - 1)
  <2>1. SUFFICES ASSUME first + pages <= N - 1
                 PROVE  FALSE
    OBVIOUS
  <2>2. first \in 0..(N - 1)
    OBVIOUS
  <2>3. \E i \in first..(first + pages - 1) : fr[i] # "free"
    BY <1>1, <1>2, <2>1, <2>2 DEF Search
  <2> QED BY <2>3
<1> QED BY <1>3, <1>4

-----------------------------------------------------------------------------
(* Runs and blocks of a heap.                                              *)

(* The header of a run lies at the end of its first page.                  *)
LEMMA LargeAddress ==
  ASSUME NEW start \in Nat
  PROVE  /\ LargeBlock(start) \in Nat
         /\ LargeBlock(start) \div PageSize = start
         /\ LargeBlock(start) + Header = (start + 1) * PageSize
<1> USE Constants
<1>1. /\ (start + 1) * PageSize = start * PageSize + PageSize
      /\ start * PageSize \in Nat
  OBVIOUS
<1>2. /\ LargeBlock(start) \in Nat
      /\ start * PageSize <= LargeBlock(start)
      /\ LargeBlock(start) < start * PageSize + PageSize
  BY <1>1 DEF LargeBlock
<1>3. LargeBlock(start) \div PageSize = start
  BY <1>2, DivUnique
<1> QED BY <1>1, <1>2, <1>3 DEF LargeBlock

(* What the heap's invariant says of one run.                              *)
LEMMA LargeIsTyped ==
  ASSUME NEW fr, NEW hdr, HeapOK(fr, hdr), NEW a \in Blocks(hdr, "large")
  PROVE  /\ a \in Nat /\ a \in DOMAIN hdr /\ hdr[a].size \in Nat
         /\ a \div PageSize \in Nat
         /\ hdr[a].size \div PageSize \in Nat \ {0}
         /\ a + Header = (a \div PageSize + 1) * PageSize
         /\ \A i \in RunIn(hdr, a) : i \in DOMAIN fr /\ fr[i] = "mapped"
<1>1. a \in Nat /\ hdr[a] \in Headers
  BY DEF HeapOK, HeadersTyped, Blocks
<1>2. hdr[a].size \in Nat
  BY <1>1 DEF Headers
<1>3. a \div PageSize \in Nat /\ hdr[a].size \div PageSize \in Nat
  BY <1>1, <1>2, Constants
<1>4. /\ a = LargeBlock(a \div PageSize) /\ hdr[a].size \div PageSize > 0
      /\ \A i \in RunIn(hdr, a) : i \in DOMAIN fr /\ fr[i] = "mapped"
  BY DEF HeapOK, RunsInFrames
<1>5. LargeBlock(a \div PageSize) + Header = (a \div PageSize + 1) * PageSize
  BY <1>3, LargeAddress
<1> QED BY <1>1, <1>2, <1>3, <1>4, <1>5 DEF Blocks

(* What the heap's invariant says of one small block.                      *)
LEMMA SmallIsTyped ==
  ASSUME NEW fr, NEW hdr, HeapOK(fr, hdr), NEW a \in Blocks(hdr, "small")
  PROVE  /\ a \in Nat /\ a \in DOMAIN hdr /\ hdr[a].size \in Nat \ {0}
         /\ \E p \in Pools : hdr[a].size = BlockSizes[p]
         /\ \E l \in Blocks(hdr, "large") : Inside(hdr, a, l)
<1>1. a \in Nat /\ a \in DOMAIN hdr
  BY DEF HeapOK, HeadersTyped, Blocks
<1>2. /\ \E p \in Pools : hdr[a].size = BlockSizes[p]
      /\ \E l \in Blocks(hdr, "large") : Inside(hdr, a, l)
  BY DEF HeapOK, SmallInRuns
<1>3. hdr[a].size \in Nat \ {0}
  BY <1>2, PoolAssumption
<1> QED BY <1>1, <1>2, <1>3

(* Two runs share no byte.                                                 *)
LEMMA RunsApartInBytes ==
  ASSUME NEW fr, NEW hdr, HeapOK(fr, hdr),
         NEW a \in Blocks(hdr, "large"), NEW b \in Blocks(hdr, "large"), a # b
  PROVE  \/ RunEnd(hdr, a) <= (b \div PageSize) * PageSize
         \/ RunEnd(hdr, b) <= (a \div PageSize) * PageSize
<1> DEFINE s == a \div PageSize
           m == hdr[a].size \div PageSize
           t == b \div PageSize
           n == hdr[b].size \div PageSize
<1>1. /\ s \in Nat /\ m \in Nat \ {0} /\ t \in Nat /\ n \in Nat \ {0}
  BY LargeIsTyped
<1>2. (s..(s + m - 1)) \intersect (t..(t + n - 1)) = {}
  BY DEF HeapOK, RunsApart, RunIn
<1>6. PageSize \in Nat
  BY Constants
<1> HIDE DEF s, m, t, n
<1>3. s + m <= t \/ t + n <= s
  <2>1. SUFFICES ASSUME s + m > t, t + n > s
                 PROVE  FALSE
    BY <1>1
  <2>2. CASE s <= t
    <3>1. t \in (s..(s + m - 1)) \intersect (t..(t + n - 1))
      BY <1>1, <2>1, <2>2
    <3> QED BY <3>1, <1>2
  <2>3. CASE t <= s
    <3>1. s \in (s..(s + m - 1)) \intersect (t..(t + n - 1))
      BY <1>1, <2>1, <2>3
    <3> QED BY <3>1, <1>2
  <2> QED BY <1>1, <2>2, <2>3
<1>4. s + m <= t => (s + m) * PageSize <= t * PageSize
  BY <1>1, <1>6, TimesMonotone
<1>5. t + n <= s => (t + n) * PageSize <= s * PageSize
  BY <1>1, <1>6, TimesMonotone
<1> QED BY <1>3, <1>4, <1>5 DEF RunEnd, s, m, t, n

(* What lies inside one run is apart from what lies inside another.        *)
LEMMA InsidesApart ==
  ASSUME NEW fr, NEW hdr, HeapOK(fr, hdr),
         NEW a \in Blocks(hdr, "large"), NEW b \in Blocks(hdr, "large"), a # b,
         NEW x \in Nat, NEW y \in Nat, NEW c \in Nat, NEW d \in Nat,
         a + Header <= x, x + c <= RunEnd(hdr, a),
         b + Header <= y, y + d <= RunEnd(hdr, b)
  PROVE  x + c <= y \/ y + d <= x
<1>1. /\ a + Header = (a \div PageSize + 1) * PageSize
      /\ b + Header = (b \div PageSize + 1) * PageSize
      /\ a \div PageSize \in Nat /\ b \div PageSize \in Nat
      /\ hdr[a].size \div PageSize \in Nat
      /\ hdr[b].size \div PageSize \in Nat
  BY LargeIsTyped
<1>2. /\ (a \div PageSize) * PageSize <= x
      /\ (b \div PageSize) * PageSize <= y
  <2>1. PageSize \in Nat
    BY Constants
  <2>2. /\ (a \div PageSize) * PageSize <= (a \div PageSize + 1) * PageSize
        /\ (b \div PageSize) * PageSize <= (b \div PageSize + 1) * PageSize
    BY <1>1, <2>1, TimesMonotone
  <2>3. /\ (a \div PageSize) * PageSize \in Nat
        /\ (b \div PageSize) * PageSize \in Nat
        /\ (a \div PageSize + 1) * PageSize \in Nat
        /\ (b \div PageSize + 1) * PageSize \in Nat
    BY <1>1, <2>1
  <2> QED BY <1>1, <2>2, <2>3
<1>3. /\ RunEnd(hdr, a) \in Nat /\ RunEnd(hdr, b) \in Nat
      /\ (a \div PageSize) * PageSize \in Nat
      /\ (b \div PageSize) * PageSize \in Nat
  BY <1>1, Constants DEF RunEnd
<1>4. \/ RunEnd(hdr, a) <= (b \div PageSize) * PageSize
      \/ RunEnd(hdr, b) <= (a \div PageSize) * PageSize
  BY RunsApartInBytes
<1> QED BY <1>2, <1>3, <1>4

(* To mark more frames takes none from a run.                              *)
LEMMA MarkingKeepsHeap ==
  ASSUME NEW fr, NEW hdr, HeapOK(fr, hdr), NEW s, NEW n
  PROVE  HeapOK(MarkPages(fr, s, n, "mapped"), hdr)
BY DEF HeapOK, MarkPages, RunsInFrames

-----------------------------------------------------------------------------
(* A run is added to the heap by MemoryHeapAllocBig: its frames are marked,*)
(* and no other run has one of them.                                       *)

(* What lies behind the header of a run and before its end lies on a frame *)
(* of it, though not on the first.                                         *)
LEMMA InsideIsInRun ==
  ASSUME NEW fr, NEW hdr, HeapOK(fr, hdr), NEW l \in Blocks(hdr, "large"),
         NEW a \in Nat, l + Header <= a, a < RunEnd(hdr, l)
  PROVE  a \div PageSize \in RunIn(hdr, l) /\ a \div PageSize > l \div PageSize
<1> DEFINE s == l \div PageSize
           n == hdr[l].size \div PageSize
           q == a \div PageSize
<1>1. /\ s \in Nat /\ n \in Nat \ {0} /\ l + Header = (s + 1) * PageSize
  BY LargeIsTyped
<1>2. /\ q \in Int /\ q * PageSize <= a /\ a < q * PageSize + PageSize
  BY DivBounds, Constants
<1>3. PageSize \in Nat \ {0}
  BY Constants
<1> HIDE DEF s, n, q
<1>4. (s + 1) * PageSize <= a /\ a < (s + n) * PageSize
  BY <1>1 DEF RunEnd, s, n
<1>5. (q + 1) * PageSize = q * PageSize + PageSize
  BY <1>2, <1>3
<1>6. s + 1 <= q
  <2>1. SUFFICES ASSUME q + 1 <= s + 1
                 PROVE  FALSE
    BY <1>1, <1>2
  <2>2. (q + 1) * PageSize <= (s + 1) * PageSize
    BY <1>1, <1>2, <1>3, <2>1, TimesMonotone
  <2>3. /\ (q + 1) * PageSize \in Int /\ (s + 1) * PageSize \in Int
    BY <1>1, <1>2, <1>3
  <2>4. q * PageSize \in Int
    BY <1>2, <1>3
  <2> QED BY <2>2, <2>3, <2>4, <1>2, <1>4, <1>5
<1>7. q < s + n
  <2>1. SUFFICES ASSUME s + n <= q
                 PROVE  FALSE
    BY <1>1, <1>2
  <2>2. (s + n) * PageSize <= q * PageSize
    BY <1>1, <1>2, <1>3, <2>1, TimesMonotone
  <2>3. /\ (s + n) * PageSize \in Int /\ q * PageSize \in Int
    BY <1>1, <1>2, <1>3
  <2> QED BY <2>2, <2>3, <1>2, <1>4
<1>8. q \in s..(s + n - 1) /\ q > s
  BY <1>1, <1>2, <1>6, <1>7
<1> QED BY <1>8 DEF RunIn, s, n, q

(* The frame that a header of the heap lies in is not free.                *)
LEMMA HeaderInRun ==
  ASSUME NEW fr, NEW hdr, HeapOK(fr, hdr), NEW a \in DOMAIN hdr
  PROVE  \E l \in Blocks(hdr, "large") : a \div PageSize \in RunIn(hdr, l)
<1>1. a \in Blocks(hdr, "large") \/ a \in Blocks(hdr, "small")
  <2>1. hdr[a] \in Headers
    BY DEF HeapOK, HeadersTyped
  <2> QED BY <2>1 DEF Headers, Blocks
<1>2. CASE a \in Blocks(hdr, "large")
  <2>1. a \div PageSize \in Nat /\ hdr[a].size \div PageSize \in Nat \ {0}
    BY <1>2, LargeIsTyped
  <2>2. a \div PageSize \in RunIn(hdr, a)
    BY <2>1 DEF RunIn
  <2> QED BY <1>2, <2>2
<1>3. CASE a \in Blocks(hdr, "small")
  <2>1. a \in Nat /\ hdr[a].size \in Nat \ {0}
    BY <1>3, SmallIsTyped
  <2>2. PICK l \in Blocks(hdr, "large") : Inside(hdr, a, l)
    BY <1>3, SmallIsTyped
  <2>3. l + Header <= a /\ a < RunEnd(hdr, l)
    <3>1. RunEnd(hdr, l) \in Nat
      BY LargeIsTyped, Constants DEF RunEnd
    <3> QED BY <2>1, <2>2, <3>1, Constants DEF Inside
  <2>4. a \div PageSize \in RunIn(hdr, l)
    BY <2>1, <2>3, InsideIsInRun
  <2> QED BY <2>4
<1> QED BY <1>1, <1>2, <1>3

(* The frames of a run that a thread has marked.                           *)
RunMapped(fr, start, pages) ==
  \A i \in start..(start + pages - 1) : i \in DOMAIN fr /\ fr[i] = "mapped"
(* No header names a frame of the run.                                     *)
RunFresh(hdr, start, pages) ==
  \A a \in Blocks(hdr, "large") :
    RunIn(hdr, a) \intersect (start..(start + pages - 1)) = {}

(* A run that shares no frame with another has its header at an address of *)
(* its own.                                                                *)
LEMMA NewRunIsNew ==
  ASSUME NEW fr, NEW hdr, HeapOK(fr, hdr),
         NEW start \in Nat, NEW pages \in Nat \ {0}, RunFresh(hdr, start, pages)
  PROVE  LargeBlock(start) \notin DOMAIN hdr
<1>1. SUFFICES ASSUME LargeBlock(start) \in DOMAIN hdr
               PROVE  FALSE
  OBVIOUS
<1>2. LargeBlock(start) \div PageSize = start
  BY LargeAddress
<1>3. PICK l \in Blocks(hdr, "large") : start \in RunIn(hdr, l)
  BY <1>1, <1>2, HeaderInRun
<1>4. start \in start..(start + pages - 1)
  OBVIOUS
<1> QED BY <1>3, <1>4 DEF RunFresh

(* The heap new is hdr with one run more.                                  *)
Added(new, hdr, start, pages) ==
  /\ Blocks(new, "small") = Blocks(hdr, "small")
  /\ Blocks(new, "large") = Blocks(hdr, "large") \union {LargeBlock(start)}
  /\ LargeBlock(start) \notin DOMAIN hdr
  /\ DOMAIN new = DOMAIN hdr \union {LargeBlock(start)}
  /\ new[LargeBlock(start)] = LargeHeader(pages)
  /\ \A a \in DOMAIN hdr : new[a] = hdr[a]
  /\ RunIn(new, LargeBlock(start)) = start..(start + pages - 1)
  /\ \A a \in Blocks(hdr, "small") : ~ Inside(new, a, LargeBlock(start))

(* MemoryHeapAllocBig adds a run that is marked and shares no frame with   *)
(* another.                                                                *)
LEMMA AddingARunKeepsHeap ==
  ASSUME NEW fr, NEW hdr, HeapOK(fr, hdr),
         NEW start \in Nat, NEW pages \in Nat \ {0},
         RunMapped(fr, start, pages), RunFresh(hdr, start, pages),
         NEW new, new = WithHeader(hdr, LargeBlock(start), LargeHeader(pages))
  PROVE  HeapOK(fr, new) /\ Added(new, hdr, start, pages)
<1> USE DEF RunMapped, RunFresh
<1> DEFINE b == LargeBlock(start)
<1>1. /\ b \in Nat /\ b \div PageSize = start
      /\ b + Header = (start + 1) * PageSize
  BY LargeAddress
<1>2. b \notin DOMAIN hdr
  BY NewRunIsNew
<1>3. /\ DOMAIN new = DOMAIN hdr \union {b}
      /\ new[b] = LargeHeader(pages)
      /\ \A a \in DOMAIN hdr : new[a] = hdr[a]
  BY <1>2 DEF WithHeader
<1>4. /\ LargeHeader(pages) \in Headers
      /\ LargeHeader(pages).type = "large"
      /\ LargeHeader(pages).size \div PageSize = pages
  <2>1. pages * PageSize \in Nat
    BY Constants
  <2>2. (pages * PageSize) \div PageSize = pages
    BY <2>1, Constants, DivUnique
  <2> QED BY <2>1, <2>2 DEF LargeHeader, Headers
<1> HIDE DEF b
<1>5. HeadersTyped(new)
  <2>1. HeadersTyped(hdr)
    BY DEF HeapOK
  <2>2. \A a \in DOMAIN new : a \in Nat /\ new[a] \in Headers
    BY <1>1, <1>3, <1>4, <2>1 DEF HeadersTyped
  <2>3. new = [a \in DOMAIN new |-> new[a]]
    BY DEF WithHeader
  <2> QED BY <2>2, <2>3 DEF HeadersTyped
<1>6. /\ Blocks(new, "small") = Blocks(hdr, "small")
      /\ Blocks(new, "large") = Blocks(hdr, "large") \union {b}
  BY <1>3, <1>4 DEF Blocks
<1>7. /\ RunIn(new, b) = start..(start + pages - 1)
      /\ \A a \in DOMAIN hdr : RunIn(new, a) = RunIn(hdr, a)
  BY <1>1, <1>3, <1>4 DEF RunIn
<1>8. RunsInFrames(fr, new)
  <2>1. ASSUME NEW a \in Blocks(new, "large")
        PROVE  /\ a = LargeBlock(a \div PageSize)
               /\ new[a].size \div PageSize > 0
               /\ \A i \in RunIn(new, a) : i \in DOMAIN fr /\ fr[i] = "mapped"
    <3>1. CASE a = b
      BY <3>1, <1>1, <1>3, <1>4, <1>7 DEF b
    <3>2. CASE a # b
      <4>1. a \in Blocks(hdr, "large") /\ a \in DOMAIN hdr
        BY <3>2, <1>6 DEF Blocks
      <4> QED BY <4>1, <1>3, <1>7 DEF HeapOK, RunsInFrames
    <3> QED BY <3>1, <3>2
  <2> QED BY <2>1 DEF RunsInFrames
<1>9. RunsApart(new)
  <2>1. ASSUME NEW a \in Blocks(new, "large"), NEW c \in Blocks(new, "large"),
               a # c
        PROVE  RunIn(new, a) \intersect RunIn(new, c) = {}
    <3>1. \A x \in Blocks(hdr, "large") :
            RunIn(new, x) \intersect RunIn(new, b) = {}
      BY <1>7 DEF Blocks
    <3>2. \A x, y \in Blocks(hdr, "large") :
            x # y => RunIn(new, x) \intersect RunIn(new, y) = {}
      BY <1>7 DEF Blocks, HeapOK, RunsApart
    <3> QED BY <2>1, <3>1, <3>2, <1>6
  <2> QED BY <2>1 DEF RunsApart
<1>10. ASSUME NEW a \in Blocks(hdr, "small"), NEW l \in Blocks(hdr, "large")
       PROVE  Inside(new, a, l) <=> Inside(hdr, a, l)
  <2>1. a \in DOMAIN hdr /\ l \in DOMAIN hdr
    BY DEF Blocks
  <2> QED BY <2>1, <1>3 DEF Inside, RunEnd
<1>11. SmallInRuns(new)
  <2>1. ASSUME NEW a \in Blocks(new, "small")
        PROVE  /\ \E p \in Pools : new[a].size = BlockSizes[p]
               /\ \E l \in Blocks(new, "large") : Inside(new, a, l)
    <3>1. a \in Blocks(hdr, "small") /\ new[a] = hdr[a]
      BY <1>3, <1>6 DEF Blocks
    <3>2. /\ \E p \in Pools : hdr[a].size = BlockSizes[p]
          /\ \E l \in Blocks(hdr, "large") : Inside(hdr, a, l)
      BY <3>1 DEF HeapOK, SmallInRuns
    <3> QED BY <3>1, <3>2, <1>6, <1>10
  <2> QED BY <2>1 DEF SmallInRuns
<1>12. SmallApart(new)
  BY <1>3, <1>6 DEF HeapOK, SmallApart, Blocks
<1>13. HeapOK(fr, new)
  BY <1>5, <1>8, <1>9, <1>11, <1>12 DEF HeapOK
<1>14. ASSUME NEW a \in Blocks(hdr, "small"), Inside(new, a, b)
       PROVE  FALSE
  <2>1. a \in Nat /\ a \in DOMAIN hdr /\ hdr[a].size \in Nat \ {0}
    BY SmallIsTyped
  <2>2. PICK l \in Blocks(hdr, "large") : Inside(hdr, a, l)
    BY SmallIsTyped
  <2>3. l \in Blocks(new, "large") /\ b \in Blocks(new, "large") /\ l # b
    BY <1>2, <1>6 DEF Blocks
  <2>4. Inside(new, a, l) /\ new[a] = hdr[a]
    BY <1>3, <1>10, <2>1, <2>2
  <2> DEFINE z == Header + hdr[a].size
  <2>5. a + Header + hdr[a].size = a + z /\ z \in Nat \ {0}
    BY <2>1, Constants
  <2> HIDE DEF z
  <2>6. /\ l + Header <= a /\ a + z <= RunEnd(new, l)
        /\ b + Header <= a /\ a + z <= RunEnd(new, b)
    BY <1>14, <2>4, <2>5 DEF Inside
  <2>7. a + z <= a \/ a + z <= a
    BY <1>13, <2>1, <2>3, <2>5, <2>6, InsidesApart
  <2> QED BY <2>1, <2>5, <2>7
<1> QED BY <1>2, <1>3, <1>6, <1>7, <1>13, <1>14 DEF b, Added

-----------------------------------------------------------------------------
(* A run is cut into blocks by MemoryPoolFillBuffer.                       *)

(* The sizes of the pools differ, and the last is the largest.             *)
LEMMA SizesAscend ==
  /\ Pools = 1..Len(BlockSizes) /\ Len(BlockSizes) \in Nat \ {0}
  /\ Len(BlockSizes) \in Pools /\ MaxSmallSize \in Nat \ {0}
  /\ \A p \in Pools : BlockSizes[p] \in Nat \ {0} /\ BlockSizes[p] <= MaxSmallSize
  /\ \A p, q \in Pools : BlockSizes[p] = BlockSizes[q] => p = q
<1>1. Pools = 1..Len(BlockSizes)
  BY DEF Pools
<1>2. Len(BlockSizes) \in Nat \ {0}
  BY PoolAssumption
<1>3. Len(BlockSizes) \in Pools
  BY <1>1, <1>2
<1>4. \A p \in Pools : BlockSizes[p] \in Nat \ {0}
  BY PoolAssumption
<1>5. \A p, q \in Pools : p < q => BlockSizes[p] < BlockSizes[q]
  BY PoolAssumption
<1>6. \A p \in Pools : p \in Nat /\ p <= Len(BlockSizes)
  BY <1>1, <1>2
<1>7. \A p \in Pools : BlockSizes[p] <= MaxSmallSize
  BY <1>2, <1>3, <1>4, <1>5, <1>6 DEF MaxSmallSize
<1>8. \A p, q \in Pools : BlockSizes[p] = BlockSizes[q] => p = q
  BY <1>4, <1>5, <1>6
<1> QED BY <1>1, <1>2, <1>3, <1>4, <1>7, <1>8 DEF MaxSmallSize

(* How many blocks a refill gives to a pool.                               *)
CutCount(p) == (PoolPages * PageSize) \div BlockLengthOf(p)

(* The blocks that MemoryPoolFillBuffer cuts lie one behind the other,     *)
(* behind the header of the run and within its pages.                      *)
LEMMA CutAddresses ==
  ASSUME NEW p \in Pools, NEW start \in Nat
  PROVE  /\ CutCount(p) \in Nat \ {0} /\ BlockLengthOf(p) \in Nat \ {0}
         /\ CutBlocks(p, start) \in [1..CutCount(p) -> Nat]
         /\ Len(CutBlocks(p, start)) = CutCount(p)
         /\ \A k \in 1..CutCount(p) :
              /\ LargeBlock(start) + Header <= CutBlocks(p, start)[k]
              /\ CutBlocks(p, start)[k] + BlockLengthOf(p)
                   <= (start + PoolPages + 2) * PageSize
         /\ \A k, j \in 1..CutCount(p) : k < j =>
              CutBlocks(p, start)[k] + BlockLengthOf(p) <= CutBlocks(p, start)[j]
<1> DEFINE L == BlockLengthOf(p)
           M == PoolPages * PageSize
           K == CutCount(p)
           A == (start + 1) * PageSize
           cut == CutBlocks(p, start)
<1>1. /\ L \in Nat \ {0} /\ M \in Nat /\ L <= M /\ A \in Nat
  <2>1. BlockSizes[p] \in Nat \ {0} /\ BlockSizes[p] <= MaxSmallSize
        /\ MaxSmallSize \in Nat
    BY SizesAscend
  <2>2. M \in Nat /\ A \in Nat
    BY Constants
  <2>3. MaxSmallSize + Header <= M
    BY PoolAssumption
  <2> HIDE DEF M, A
  <2> QED BY <2>1, <2>2, <2>3, Constants DEF BlockLengthOf
<1>2. /\ LargeBlock(start) + Header = A
      /\ (start + PoolPages + 2) * PageSize = A + M + PageSize
  <2>1. LargeBlock(start) + Header = A
    BY LargeAddress
  <2>2. (start + PoolPages + 2) * PageSize = A + M + PageSize
    BY Constants
  <2> QED BY <2>1, <2>2
<1>3. cut = [k \in 1..K |-> A + (k - 1) * L]
  BY DEF CutBlocks, CutCount
<1>4. K \in Int /\ K * L <= M /\ M < K * L + L
  <2>1. K = M \div L
    BY DEF CutCount
  <2> HIDE DEF K, L, M
  <2> QED BY <1>1, <2>1, DivBounds
<1> HIDE DEF L, M, K, A, cut
<1>5. K \in Nat \ {0}
  <2>1. SUFFICES ASSUME K <= 0
                 PROVE  FALSE
    BY <1>4
  <2>2. K * L <= 0 * L
    BY <1>1, <1>4, <2>1, TimesMonotone
  <2>3. 0 * L = 0 /\ K * L \in Int
    BY <1>1, <1>4
  <2> QED BY <1>1, <1>4, <2>2, <2>3
<1>6. ASSUME NEW k \in 1..K
      PROVE  /\ cut[k] \in Nat /\ A <= cut[k]
             /\ cut[k] + L = A + k * L
             /\ k * L \in Nat /\ k * L <= K * L
  <2>1. cut[k] = A + (k - 1) * L
    BY <1>3
  <2>2. k - 1 \in Nat /\ k \in Nat /\ k <= K
    BY <1>5
  <2>3. (k - 1) * L \in Nat /\ k * L \in Nat /\ (k - 1) * L + L = k * L
    BY <1>1, <2>2
  <2>4. k * L <= K * L
    BY <1>1, <1>5, <2>2, TimesMonotone
  <2> QED BY <1>1, <2>1, <2>3, <2>4
<1>7. cut \in [1..K -> Nat]
  BY <1>3, <1>6
<1>8. Len(cut) = K
  BY <1>3, <1>5
<1>9. ASSUME NEW k \in 1..K, NEW j \in 1..K, k < j
      PROVE  cut[k] + L <= cut[j]
  <2>1. cut[j] = A + (j - 1) * L /\ cut[k] + L = A + k * L
    BY <1>3, <1>6
  <2>2. k \in Int /\ j - 1 \in Int /\ k <= j - 1
    BY <1>5, <1>9
  <2>3. k * L <= (j - 1) * L
    BY <1>1, <2>2, TimesMonotone
  <2>4. k * L \in Int /\ (j - 1) * L \in Int
    BY <1>1, <2>2
  <2> QED BY <1>1, <2>1, <2>3, <2>4
<1>10. \A k \in 1..K : cut[k] + L <= A + M + PageSize
  <2>1. K * L \in Int
    BY <1>1, <1>5
  <2> QED BY <1>1, <1>4, <1>6, <2>1, Constants
<1> QED BY <1>1, <1>2, <1>5, <1>6, <1>7, <1>8, <1>9, <1>10 DEF L, K, cut

(* The addresses of the blocks that are cut from a run.                    *)
CutSet(p, start) == {CutBlocks(p, start)[k] : k \in 1..CutCount(p)}

(* The headers after a refill.                                             *)
IsFilled(new, hdr, p, start, first) ==
  /\ DOMAIN new = DOMAIN hdr \union CutSet(p, start)
  /\ new = [a \in DOMAIN new |-> new[a]]
  /\ \A k \in 1..CutCount(p) :
       new[CutBlocks(p, start)[k]] =
         [type |-> "small", size |-> BlockSizes[p],
          next |-> IF k = 1 THEN first ELSE CutBlocks(p, start)[k - 1]]
  /\ \A a \in DOMAIN hdr \ CutSet(p, start) : new[a] = hdr[a]

(* What Filled makes of the headers, without its CHOOSE.                   *)
LEMMA FilledHeaders ==
  ASSUME NEW p \in Pools, NEW start \in Nat, NEW hdr, NEW first
  PROVE  IsFilled(Filled(hdr, p, start, first), hdr, p, start, first)
<1> DEFINE cut == CutBlocks(p, start)
           K == CutCount(p)
           at(a) == CHOOSE k \in 1..K : cut[k] = a
           new == Filled(hdr, p, start, first)
           small(k) == [type |-> "small", size |-> BlockSizes[p],
                        next |-> IF k = 1 THEN first ELSE cut[k - 1]]
<1>1. /\ cut \in [1..K -> Nat] /\ K \in Nat \ {0}
      /\ \A k, j \in 1..K : k < j => cut[k] + BlockLengthOf(p) <= cut[j]
      /\ BlockLengthOf(p) \in Nat \ {0}
  BY CutAddresses
<1> HIDE DEF K, cut
<1>2. ASSUME NEW k \in 1..K, NEW j \in 1..K, cut[k] = cut[j]
      PROVE  k = j
  <2>1. cut[k] \in Nat /\ cut[j] \in Nat /\ k \in Nat /\ j \in Nat
    BY <1>1
  <2>2. ~ (k < j)
    BY <1>1, <1>2, <2>1
  <2>3. ~ (j < k)
    BY <1>1, <1>2, <2>1
  <2> QED BY <2>1, <2>2, <2>3
<1>3. \A k \in 1..K : at(cut[k]) = k
  BY <1>2
<1>4. new = [a \in DOMAIN hdr \union CutSet(p, start) |->
               IF a \in CutSet(p, start) THEN small(at(a)) ELSE hdr[a]]
  <2>1. DOMAIN cut = 1..K
    BY <1>1
  <2> QED BY <2>1 DEF Filled, CutSet, cut, K
<1>5. \A k \in 1..K : cut[k] \in CutSet(p, start)
  BY DEF CutSet, cut, K
<1> HIDE DEF at
<1>6. \A k \in 1..K : new[cut[k]] = small(k)
  BY <1>3, <1>4, <1>5
<1> HIDE DEF new
<1>7. IsFilled(new, hdr, p, start, first)
  BY <1>4, <1>6 DEF cut, K, IsFilled
<1> QED BY <1>7 DEF new

(* A run for a pool of which nothing has been cut.                         *)
EmptyPoolRun(hdr, start) ==
  /\ LargeBlock(start) \in Blocks(hdr, "large")
  /\ hdr[LargeBlock(start)].size = (PoolPages + 2) * PageSize
  /\ \A a \in Blocks(hdr, "small") : ~ Inside(hdr, a, LargeBlock(start))
(* What the heap new has more than hdr when the run has been cut.          *)
WereCut(new, hdr, p, start) ==
  /\ Blocks(new, "small") = Blocks(hdr, "small") \union CutSet(p, start)
  /\ Blocks(new, "large") = Blocks(hdr, "large")
  /\ CutSet(p, start) \intersect DOMAIN hdr = {}
  /\ DOMAIN new = DOMAIN hdr \union CutSet(p, start)
  /\ \A a \in DOMAIN hdr : new[a] = hdr[a]
  /\ \A a \in CutSet(p, start) : /\ new[a].size = BlockSizes[p]
                                 /\ Inside(new, a, LargeBlock(start))

(* MemoryPoolFillBuffer cuts a run in which there are no blocks yet.       *)
LEMMA FillingKeepsHeap ==
  ASSUME NEW fr, NEW hdr, HeapOK(fr, hdr), NEW p \in Pools, NEW start \in Nat,
         NEW first \in Nat \union {NoBlock}, EmptyPoolRun(hdr, start),
         NEW new, IsFilled(new, hdr, p, start, first)
  PROVE  HeapOK(fr, new) /\ WereCut(new, hdr, p, start)
<1> USE DEF EmptyPoolRun
<1> DEFINE b == LargeBlock(start)
           C == CutSet(p, start)
           cut == CutBlocks(p, start)
           K == CutCount(p)
           L == BlockLengthOf(p)
<1>1. /\ b \in Nat /\ b \div PageSize = start
      /\ b + Header = (start + 1) * PageSize
  BY LargeAddress
<1>2. /\ b \in DOMAIN hdr /\ hdr[b].size \div PageSize = PoolPages + 2
      /\ RunEnd(hdr, b) = (start + PoolPages + 2) * PageSize
      /\ RunEnd(hdr, b) \in Nat
  <2>1. ((PoolPages + 2) * PageSize) \div PageSize = PoolPages + 2
    <3>1. (PoolPages + 2) * PageSize \in Int /\ PoolPages + 2 \in Int
      BY Constants
    <3> QED BY <3>1, Constants, DivUnique
  <2>2. b \in DOMAIN hdr /\ hdr[b].size \div PageSize = PoolPages + 2
    BY <2>1 DEF Blocks
  <2>3. start + (PoolPages + 2) = start + PoolPages + 2
        /\ (start + PoolPages + 2) * PageSize \in Nat
    BY Constants
  <2> QED BY <1>1, <2>2, <2>3 DEF RunEnd
<1>3. /\ K \in Nat \ {0} /\ L \in Nat \ {0} /\ cut \in [1..K -> Nat]
      /\ \A k \in 1..K : /\ b + Header <= cut[k]
                         /\ cut[k] + L <= (start + PoolPages + 2) * PageSize
      /\ \A k, j \in 1..K : k < j => cut[k] + L <= cut[j]
  BY CutAddresses
<1>4. L = Header + BlockSizes[p] /\ BlockSizes[p] \in Nat \ {0}
  BY SizesAscend DEF BlockLengthOf
<1>5. /\ DOMAIN new = DOMAIN hdr \union C
      /\ new = [a \in DOMAIN new |-> new[a]]
      /\ \A k \in 1..K :
           new[cut[k]] = [type |-> "small", size |-> BlockSizes[p],
                          next |-> IF k = 1 THEN first ELSE cut[k - 1]]
      /\ \A a \in DOMAIN hdr \ C : new[a] = hdr[a]
  BY DEF IsFilled
<1> HIDE DEF b, cut, K, L
<1>6. \A c \in C : \E k \in 1..K : c = cut[k]
  BY DEF CutSet, cut, K
<1>7. ASSUME NEW c \in C
      PROVE  /\ c \in Nat /\ b + Header <= c /\ c + L <= RunEnd(hdr, b)
             /\ c < RunEnd(hdr, b)
  <2>1. PICK k \in 1..K : c = cut[k]
    BY <1>6
  <2> QED BY <2>1, <1>2, <1>3
<1>8. ASSUME NEW c \in C, c \in DOMAIN hdr
      PROVE  FALSE
  <2>1. c \in Blocks(hdr, "large") \/ c \in Blocks(hdr, "small")
    <3>1. hdr[c] \in Headers
      BY <1>8 DEF HeapOK, HeadersTyped
    <3> QED BY <3>1, <1>8 DEF Headers, Blocks
  <2>2. b \in Blocks(hdr, "large")
    BY DEF b
  <2>3. CASE c \in Blocks(hdr, "large")
    <3>1. c \div PageSize \in RunIn(hdr, b) /\ c \div PageSize > b \div PageSize
      BY <1>7, <2>2, InsideIsInRun
    <3>2. c # b
      BY <3>1, <1>1
    <3>3. c \div PageSize \in RunIn(hdr, c)
      <4>1. /\ c \div PageSize \in Nat /\ hdr[c].size \div PageSize \in Nat \ {0}
        BY <2>3, LargeIsTyped
      <4> QED BY <4>1 DEF RunIn
    <3> QED BY <2>2, <2>3, <3>1, <3>2, <3>3 DEF HeapOK, RunsApart
  <2>4. CASE c \in Blocks(hdr, "small")
    <3>1. /\ c \in Nat /\ hdr[c].size \in Nat \ {0}
          /\ \E l \in Blocks(hdr, "large") : Inside(hdr, c, l)
      BY <2>4, SmallIsTyped
    <3>2. PICK l \in Blocks(hdr, "large") : Inside(hdr, c, l)
      BY <3>1
    <3>3. l # b
      BY <2>4, <3>2 DEF b
    <3> DEFINE z == Header + hdr[c].size
    <3>4. z \in Nat \ {0} /\ c + Header + hdr[c].size = c + z
      BY <3>1, Constants
    <3> HIDE DEF z
    <3>5. /\ l + Header <= c /\ c + z <= RunEnd(hdr, l)
      BY <3>2, <3>4 DEF Inside
    <3>6. c + z <= c \/ c + L <= c
      BY <1>3, <1>7, <2>2, <3>1, <3>3, <3>4, <3>5, InsidesApart
    <3> QED BY <1>3, <3>1, <3>4, <3>6
  <2> QED BY <2>1, <2>3, <2>4
<1>9. /\ \A a \in DOMAIN hdr : new[a] = hdr[a]
      /\ C \intersect DOMAIN hdr = {}
  BY <1>5, <1>8
<1>10. ASSUME NEW c \in C
       PROVE  /\ c \in DOMAIN new /\ new[c].type = "small"
              /\ new[c].size = BlockSizes[p] /\ new[c] \in Headers
  <2>1. PICK k \in 1..K : c = cut[k]
    BY <1>6
  <2>2. (IF k = 1 THEN first ELSE cut[k - 1]) \in Nat \union {NoBlock}
    <3>1. k # 1 => k - 1 \in 1..K
      BY <1>3
    <3> QED BY <3>1, <1>3
  <2>3. new[c] = [type |-> "small", size |-> BlockSizes[p],
                  next |-> IF k = 1 THEN first ELSE cut[k - 1]]
    BY <2>1, <1>5
  <2> QED BY <2>2, <2>3, <1>4, <1>5 DEF Headers
<1>11. /\ Blocks(new, "small") = Blocks(hdr, "small") \union C
       /\ Blocks(new, "large") = Blocks(hdr, "large")
  BY <1>5, <1>9, <1>10 DEF Blocks
<1>12. HeadersTyped(new)
  <2>1. HeadersTyped(hdr)
    BY DEF HeapOK
  <2>2. \A a \in DOMAIN new : a \in Nat /\ new[a] \in Headers
    BY <1>5, <1>7, <1>9, <1>10, <2>1 DEF HeadersTyped
  <2> QED BY <1>5, <2>2 DEF HeadersTyped
<1>13. \A a \in Blocks(hdr, "large") : /\ RunIn(new, a) = RunIn(hdr, a)
                                      /\ RunEnd(new, a) = RunEnd(hdr, a)
  BY <1>9 DEF Blocks, RunIn, RunEnd
<1>14. RunsInFrames(fr, new) /\ RunsApart(new)
  <2>1. RunsInFrames(fr, new)
    BY <1>9, <1>11, <1>13 DEF HeapOK, RunsInFrames, Blocks
  <2>2. RunsApart(new)
    BY <1>11, <1>13 DEF HeapOK, RunsApart
  <2> QED BY <2>1, <2>2
<1>15. \A c \in C : Inside(new, c, b)
  <2>1. b \in Blocks(hdr, "large")
    BY DEF b
  <2>2. ASSUME NEW c \in C
        PROVE  c + Header + new[c].size = c + L
    BY <1>4, <1>7, <1>10, Constants
  <2> QED BY <2>1, <2>2, <1>7, <1>13 DEF Inside
<1>16. SmallInRuns(new)
  <2>1. ASSUME NEW a \in Blocks(new, "small")
        PROVE  /\ \E q \in Pools : new[a].size = BlockSizes[q]
               /\ \E l \in Blocks(new, "large") : Inside(new, a, l)
    <3>1. CASE a \in C
      BY <3>1, <1>10, <1>11, <1>15 DEF b
    <3>2. CASE a \in Blocks(hdr, "small")
      <4>1. new[a] = hdr[a]
        BY <3>2, <1>9 DEF Blocks
      <4>2. /\ \E q \in Pools : hdr[a].size = BlockSizes[q]
            /\ \E l \in Blocks(hdr, "large") : Inside(hdr, a, l)
        BY <3>2 DEF HeapOK, SmallInRuns
      <4> QED BY <4>1, <4>2, <1>11, <1>13 DEF Inside
    <3> QED BY <3>1, <3>2, <1>11
  <2> QED BY <2>1 DEF SmallInRuns
<1>17. SmallApart(new)
  <2>1. ASSUME NEW a \in Blocks(new, "small"), NEW d \in Blocks(new, "small"),
               a < d
        PROVE  a + Header + new[a].size <= d
    <3>1. CASE a \in C /\ d \in C
      <4>1. PICK k \in 1..K : a = cut[k]
        BY <1>6, <3>1
      <4>2. PICK j \in 1..K : d = cut[j]
        BY <1>6, <3>1
      <4>3. k < j
        <5>1. SUFFICES ASSUME j <= k
                       PROVE  FALSE
          BY <1>3
        <5>2. a \in Nat /\ d \in Nat
          BY <1>3, <4>1, <4>2
        <5>3. CASE j = k
          BY <5>2, <5>3, <4>1, <4>2, <2>1
        <5>4. CASE j < k
          <6>1. d + L <= a
            BY <5>4, <4>1, <4>2, <1>3
          <6> QED BY <6>1, <5>2, <1>3, <2>1
        <5> QED BY <5>1, <5>3, <5>4
      <4>4. a + Header + new[a].size = a + L
        BY <1>4, <1>7, <1>10, <3>1, Constants
      <4> QED BY <4>1, <4>2, <4>3, <4>4, <1>3
    <3>2. CASE a \notin C /\ d \notin C
      <4>1. a \in Blocks(hdr, "small") /\ d \in Blocks(hdr, "small")
            /\ new[a] = hdr[a]
        BY <3>2, <1>9, <1>11 DEF Blocks
      <4> QED BY <4>1, <2>1 DEF HeapOK, SmallApart
    <3>3. CASE (a \in C /\ d \notin C) \/ (a \notin C /\ d \in C)
      <4>1. PICK x \in {a, d} : x \in C
        BY <3>3
      <4>2. PICK y \in {a, d} : y \in Blocks(hdr, "small") /\ {x, y} = {a, d}
        BY <3>3, <4>1, <1>11
      <4>3. /\ y \in Nat /\ hdr[y].size \in Nat \ {0} /\ y \in DOMAIN hdr
            /\ \E l \in Blocks(hdr, "large") : Inside(hdr, y, l)
        BY <4>2, SmallIsTyped
      <4>4. PICK l \in Blocks(hdr, "large") : Inside(hdr, y, l)
        BY <4>3
      <4>5. l # b
        BY <4>2, <4>4 DEF b
      <4> DEFINE z == Header + hdr[y].size
      <4>6. z \in Nat \ {0} /\ y + Header + hdr[y].size = y + z
        BY <4>3, Constants
      <4> HIDE DEF z
      <4>7. l + Header <= y /\ y + z <= RunEnd(hdr, l)
        BY <4>4, <4>6 DEF Inside
      <4>8. /\ x \in Nat /\ L \in Nat /\ y \in Nat /\ z \in Nat
            /\ b + Header <= x /\ x + L <= RunEnd(hdr, b)
            /\ b \in Blocks(hdr, "large")
        BY <1>3, <1>7, <4>1, <4>3, <4>6 DEF b
      <4>9. x + L <= y \/ y + z <= x
        BY <4>5, <4>7, <4>8, InsidesApart
      <4>10. /\ x + Header + new[x].size = x + L
             /\ y + Header + new[y].size = y + z
        BY <1>4, <1>9, <1>10, <4>1, <4>3, <4>6, <4>8, Constants
      <4>11. (x = a /\ y = d) \/ (x = d /\ y = a)
        BY <4>1, <4>2
      <4>12. CASE x = a /\ y = d
        <5>1. ~ (y + z <= x)
          BY <2>1, <4>6, <4>8, <4>12
        <5> QED BY <5>1, <4>9, <4>10, <4>12
      <4>13. CASE x = d /\ y = a
        <5>1. ~ (x + L <= y)
          BY <2>1, <1>3, <4>8, <4>13
        <5> QED BY <5>1, <4>9, <4>10, <4>13
      <4> QED BY <4>11, <4>12, <4>13
    <3> QED BY <3>1, <3>2, <3>3
  <2> QED BY <2>1 DEF SmallApart
<1>18. HeapOK(fr, new)
  BY <1>12, <1>14, <1>16, <1>17 DEF HeapOK
<1> QED BY <1>5, <1>9, <1>10, <1>11, <1>15, <1>18 DEF b, WereCut

-----------------------------------------------------------------------------
(* The lists of the pools, and how the properties follow them.             *)

(* There are finitely many small blocks: all lie below the end of memory.  *)
LEMMA SmallBlocksAreFinite ==
  ASSUME NEW N \in Nat, NEW fr, DOMAIN fr = 0..(N - 1), NEW hdr, HeapOK(fr, hdr)
  PROVE  IsFiniteSet(Blocks(hdr, "small"))
<1> DEFINE S == Blocks(hdr, "small")
<1>1. N * PageSize \in Nat
  BY Constants
<1>2. ASSUME NEW a \in S
      PROVE  a \in Nat /\ a <= N * PageSize
  <2>1. /\ a \in Nat /\ hdr[a].size \in Nat
        /\ \E l \in Blocks(hdr, "large") : Inside(hdr, a, l)
    BY SmallIsTyped
  <2>2. PICK l \in Blocks(hdr, "large") : Inside(hdr, a, l)
    BY <2>1
  <2> DEFINE s == l \div PageSize
             n == hdr[l].size \div PageSize
  <2>3. /\ s \in Nat /\ n \in Nat \ {0}
        /\ \A i \in s..(s + n - 1) : i \in DOMAIN fr
    BY LargeIsTyped DEF RunIn
  <2>4. a <= (s + n) * PageSize
    <3>1. /\ (s + n) * PageSize \in Nat /\ a + Header + hdr[a].size <= (s + n) * PageSize
      BY <2>2, <2>3, Constants DEF Inside, RunEnd
    <3> HIDE DEF s, n
    <3>2. a <= a + Header + hdr[a].size
      BY <2>1, Constants
    <3>3. a + Header + hdr[a].size \in Nat
      BY <2>1, Constants
    <3> QED BY <2>1, <3>1, <3>2, <3>3
  <2> HIDE DEF s, n
  <2>5. s + n <= N
    <3>1. s + n - 1 \in s..(s + n - 1)
      BY <2>3
    <3>2. s + n - 1 \in 0..(N - 1)
      BY <3>1, <2>3
    <3> QED BY <2>3, <3>2
  <2>6. (s + n) * PageSize <= N * PageSize
    BY <2>3, <2>5, TimesMonotone, Constants
  <2>7. (s + n) * PageSize \in Nat
    BY <2>3, Constants
  <2> QED BY <2>1, <2>4, <2>6, <2>7, <1>1
<1> HIDE DEF S
<1>3. S \in SUBSET Nat /\ \A a \in S : a <= N * PageSize
  BY <1>2
<1>4. IsFiniteSet(S)
  BY <1>1, <1>3, FS_BoundedSetOfNaturals
<1> QED BY <1>4 DEF S

(* A list that visits the blocks of a finite set once is not longer than   *)
(* the set.                                                                *)
LEMMA ListFitsIn ==
  ASSUME NEW hdr, NEW first, NEW s \in Seq(Nat), NEW S, IsList(hdr, first, s, S),
         NEW T, S \subseteq T, IsFiniteSet(T)
  PROVE  Len(s) <= Cardinality(T) /\ Cardinality(T) \in Nat /\ Len(s) \in Nat
<1>1. Len(s) \in Nat /\ s \in [1..Len(s) -> Nat]
  OBVIOUS
<1>2. s \in Injection(1..Len(s), T)
  <2>1. /\ \A i \in 1..Len(s) : s[i] \in T
        /\ \A i, j \in 1..Len(s) : s[i] = s[j] => i = j
    BY DEF IsList
  <2>2. s \in [1..Len(s) -> T]
    BY <1>1, <2>1
  <2> QED BY <2>1, <2>2 DEF Injection, IsInjective
<1>3. Cardinality(1..Len(s)) <= Cardinality(T)
  BY <1>2, FS_Injection
<1>4. Cardinality(1..Len(s)) = Len(s)
  <2>1. 1 \in Int /\ Len(s) \in Int
    BY <1>1
  <2>2. Cardinality(1..Len(s)) = IF 1 > Len(s) THEN 0 ELSE Len(s) - 1 + 1
    BY <2>1, FS_Interval
  <2> QED BY <1>1, <2>2
<1>5. Cardinality(T) \in Nat
  BY FS_CardinalityType
<1> QED BY <1>1, <1>3, <1>4, <1>5

(* Follow goes down the list of a pool, and stays at its end.              *)
LEMMA FollowIsTheList ==
  ASSUME NEW p, NEW s \in Seq(Nat), NEW S, IsList(header, head[p], s, S),
         Cardinality(SmallBlocks) \in Nat
  PROVE  /\ DOMAIN Follow(p) = 0..Cardinality(SmallBlocks)
         /\ \A n \in 0..Cardinality(SmallBlocks) : Follow(p)[n] = NextOf(s, n)
<1> DEFINE K == Cardinality(SmallBlocks)
           Recurs(f) == f = [n \in 0..K |->
                               IF n = 0 THEN head[p]
                               ELSE IF f[n - 1] = NoBlock THEN NoBlock
                                    ELSE header[f[n - 1]].next]
           at == CHOOSE f : Recurs(f)
<1>0. Follow(p) = at
  BY DEF Follow
<1>1. /\ K \in Nat /\ Len(s) \in Nat /\ s \in [1..Len(s) -> Nat]
      /\ head[p] = NextOf(s, 0)
      /\ \A i \in 1..Len(s) : header[s[i]].next = NextOf(s, i)
  BY DEF IsList
<1> HIDE DEF K
<1>2. ASSUME NEW n \in 1..K
      PROVE  NextOf(s, n) = IF NextOf(s, n - 1) = NoBlock THEN NoBlock
                            ELSE header[NextOf(s, n - 1)].next
  <2>1. CASE n - 1 < Len(s)
    <3>1. n \in 1..Len(s) /\ NextOf(s, n - 1) = s[n] /\ s[n] # NoBlock
      BY <1>1, <2>1 DEF NextOf, NoBlock
    <3> QED BY <3>1, <1>1
  <2>2. CASE ~ (n - 1 < Len(s))
    <3>1. NextOf(s, n - 1) = NoBlock /\ NextOf(s, n) = NoBlock
      BY <1>1, <2>2 DEF NextOf
    <3> QED BY <3>1
  <2> QED BY <2>1, <2>2
<1>3. \E f : Recurs(f)
  <2> DEFINE f == [n \in 0..K |-> NextOf(s, n)]
  <2>1. ASSUME NEW n \in 0..K
        PROVE  f[n] = IF n = 0 THEN head[p]
                      ELSE IF f[n - 1] = NoBlock THEN NoBlock
                           ELSE header[f[n - 1]].next
    <3>1. CASE n = 0
      BY <3>1, <1>1
    <3>2. CASE n # 0
      <4>1. n \in 1..K /\ n - 1 \in 0..K
        BY <1>1, <3>2
      <4> QED BY <4>1, <1>2, <3>2
    <3> QED BY <3>1, <3>2
  <2>2. f = [n \in 0..K |-> f[n]]
    OBVIOUS
  <2> HIDE DEF f
  <2>3. Recurs(f)
    BY <2>1, <2>2
  <2> QED BY <2>3
<1>4. Recurs(at)
  BY <1>3
<1> HIDE DEF at
<1>5. /\ DOMAIN at = 0..K
      /\ at[0] = head[p]
      /\ \A n \in 1..K : at[n] = IF at[n - 1] = NoBlock THEN NoBlock
                                 ELSE header[at[n - 1]].next
  <2>1. \A n \in 0..K : at[n] = IF n = 0 THEN head[p]
                                ELSE IF at[n - 1] = NoBlock THEN NoBlock
                                     ELSE header[at[n - 1]].next
    BY <1>4
  <2>2. DOMAIN at = 0..K
    BY <1>4
  <2>3. 0 \in 0..K /\ \A n \in 1..K : n \in 0..K /\ n # 0
    BY <1>1
  <2> QED BY <2>1, <2>2, <2>3
<1> DEFINE T == {n \in 0..K : at[n] = NextOf(s, n)}
<1>6. 0 \in T
  BY <1>1, <1>5
<1>7. ASSUME NEW n \in 0..(K - 1), n \in T
      PROVE  n + 1 \in T
  <2>1. n + 1 \in 1..K /\ n + 1 \in 0..K /\ (n + 1) - 1 = n
    BY <1>1
  <2>2. at[n + 1] = IF at[n] = NoBlock THEN NoBlock ELSE header[at[n]].next
    BY <1>5, <2>1
  <2>3. NextOf(s, n + 1) = IF NextOf(s, n) = NoBlock THEN NoBlock
                           ELSE header[NextOf(s, n)].next
    BY <1>2, <2>1
  <2> QED BY <1>7, <2>1, <2>2, <2>3
<1> HIDE DEF T
<1>8. 0..K \subseteq T
  BY <1>1, <1>6, <1>7, UpTo
<1> QED BY <1>0, <1>5, <1>8 DEF T, K

(* The list of a pool ends within as many steps as there are small blocks, *)
(* and ListOf gathers the blocks that are on it.                           *)
LEMMA ListIsFollowed ==
  ASSUME NEW p, NEW s \in Seq(Nat), NEW S, IsList(header, head[p], s, S),
         S \subseteq SmallBlocks, IsFiniteSet(SmallBlocks)
  PROVE  /\ Follow(p)[Cardinality(SmallBlocks)] = NoBlock
         /\ ListOf(p) = S
<1> DEFINE K == Cardinality(SmallBlocks)
<1>1. Len(s) <= K /\ K \in Nat /\ Len(s) \in Nat
  BY ListFitsIn
<1>2. /\ DOMAIN Follow(p) = 0..K
      /\ \A n \in 0..K : Follow(p)[n] = NextOf(s, n)
  BY <1>1, FollowIsTheList
<1>3. s \in [1..Len(s) -> Nat]
  OBVIOUS
<1> HIDE DEF K
<1>4. Follow(p)[K] = NoBlock
  BY <1>1, <1>2 DEF NextOf
<1>5. ListOf(p) = {NextOf(s, n) : n \in 0..K} \ {NoBlock}
  BY <1>2 DEF ListOf
<1>6. ASSUME NEW a \in ListOf(p)
      PROVE  a \in S
  <2>1. PICK n \in 0..K : a = NextOf(s, n) /\ a # NoBlock
    BY <1>5
  <2>2. n + 1 \in 1..Len(s) /\ a = s[n + 1]
    BY <1>1, <2>1 DEF NextOf
  <2> QED BY <2>2 DEF IsList
<1>7. ASSUME NEW a \in S
      PROVE  a \in ListOf(p)
  <2>1. PICK i \in 1..Len(s) : s[i] = a
    BY DEF IsList
  <2>2. i - 1 \in 0..K /\ NextOf(s, i - 1) = a /\ a # NoBlock
    BY <1>1, <1>3, <2>1 DEF NextOf, NoBlock
  <2> QED BY <1>5, <2>2
<1> QED BY <1>4, <1>6, <1>7 DEF K

-----------------------------------------------------------------------------
(* A list grows and shrinks at its head.                                   *)

(* A block whose next is the first of a list is the first of a longer one. *)
LEMMA PushedOnList ==
  ASSUME NEW hdr, NEW first, NEW S, HasList(hdr, first, S),
         NEW a \in Nat, a \notin S, hdr[a].next = first
  PROVE  HasList(hdr, a, S \union {a})
<1>1. PICK s \in Seq(Nat) : IsList(hdr, first, s, S)
  BY DEF HasList
<1>2. /\ Len(s) \in Nat /\ s \in [1..Len(s) -> Nat]
      /\ first = NextOf(s, 0)
      /\ \A i \in 1..Len(s) : s[i] \in S /\ hdr[s[i]].next = NextOf(s, i)
      /\ \A b \in S : \E i \in 1..Len(s) : s[i] = b
      /\ \A i, j \in 1..Len(s) : s[i] = s[j] => i = j
  BY <1>1 DEF IsList
<1> DEFINE n == Len(s) + 1
           q == [i \in 1..n |-> IF i = 1 THEN a ELSE s[i - 1]]
<1>3. q \in [1..n -> Nat] /\ n \in Nat
  BY <1>2
<1>4. q \in Seq(Nat) /\ Len(q) = n
  BY <1>3
<1>5. q[1] = a /\ \A i \in 2..n : q[i] = s[i - 1] /\ i - 1 \in 1..Len(s)
  BY <1>2
<1> HIDE DEF q
<1>6. a = NextOf(q, 0)
  BY <1>2, <1>4, <1>5 DEF NextOf
<1>7. NextOf(q, 1) = first
  <2>1. CASE Len(s) = 0
    BY <2>1, <1>2, <1>4 DEF NextOf
  <2>2. CASE Len(s) > 0
    <3>1. 2 \in 2..n /\ 2 - 1 = 1
      BY <1>2, <2>2
    <3>2. q[2] = s[1]
      BY <1>5, <3>1
    <3> QED BY <3>2, <2>2, <1>2, <1>4 DEF NextOf
  <2> QED BY <1>2, <2>1, <2>2
<1>8. ASSUME NEW i \in 2..n
      PROVE  NextOf(q, i) = NextOf(s, i - 1)
  <2>1. CASE i = n
    BY <2>1, <1>2, <1>4 DEF NextOf
  <2>2. CASE i < n
    <3>1. i + 1 \in 2..n /\ (i + 1) - 1 = i /\ (i - 1) + 1 = i
      BY <1>2, <2>2
    <3>2. q[i + 1] = s[i]
      BY <1>5, <3>1
    <3>3. NextOf(q, i) = q[i + 1]
      BY <1>4, <2>2 DEF NextOf
    <3>4. NextOf(s, i - 1) = s[i]
      BY <1>2, <2>2, <3>1 DEF NextOf
    <3> QED BY <3>2, <3>3, <3>4
  <2> QED BY <1>3, <2>1, <2>2
<1>9. ASSUME NEW i \in 1..n
      PROVE  q[i] \in S \union {a} /\ hdr[q[i]].next = NextOf(q, i)
  <2>1. CASE i = 1
    BY <2>1, <1>5, <1>7
  <2>2. CASE i # 1
    <3>1. i \in 2..n
      BY <1>3, <2>2
    <3>2. q[i] = s[i - 1] /\ i - 1 \in 1..Len(s)
      BY <3>1, <1>5
    <3> QED BY <3>1, <3>2, <1>2, <1>8
  <2> QED BY <2>1, <2>2
<1>10. ASSUME NEW b \in S \union {a}
       PROVE  \E i \in 1..n : q[i] = b
  <2>1. CASE b = a
    <3>1. 1 \in 1..n
      BY <1>2
    <3> QED BY <2>1, <3>1, <1>5
  <2>2. CASE b \in S
    <3>1. PICK i \in 1..Len(s) : s[i] = b
      BY <1>2, <2>2
    <3>2. i + 1 \in 2..n /\ i + 1 \in 1..n /\ (i + 1) - 1 = i
      BY <1>2
    <3> QED BY <3>1, <3>2, <1>5
  <2> QED BY <2>1, <2>2
<1>11. ASSUME NEW i \in 1..n, NEW j \in 1..n, q[i] = q[j]
       PROVE  i = j
  <2>1. \A k \in 2..n : q[k] \in S /\ q[k] # a
    BY <1>2, <1>5
  <2>2. (i = 1 \/ i \in 2..n) /\ (j = 1 \/ j \in 2..n)
    BY <1>3
  <2>3. CASE i \in 2..n /\ j \in 2..n
    <3>1. i - 1 = j - 1
      BY <1>2, <1>5, <1>11, <2>3
    <3> QED BY <3>1, <2>3, <1>3
  <2> QED BY <2>1, <2>2, <2>3, <1>5, <1>11
<1>12. IsList(hdr, a, q, S \union {a})
  BY <1>4, <1>6, <1>9, <1>10, <1>11 DEF IsList
<1> QED BY <1>4, <1>12 DEF HasList

(* The block behind the first of a list is the first of a shorter one.     *)
LEMMA PoppedOffList ==
  ASSUME NEW hdr, NEW first, NEW S, HasList(hdr, first, S), first # NoBlock
  PROVE  /\ first \in S
         /\ HasList(hdr, hdr[first].next, S \ {first})
<1>1. PICK s \in Seq(Nat) : IsList(hdr, first, s, S)
  BY DEF HasList
<1>2. /\ Len(s) \in Nat /\ s \in [1..Len(s) -> Nat]
      /\ first = NextOf(s, 0)
      /\ \A i \in 1..Len(s) : s[i] \in S /\ hdr[s[i]].next = NextOf(s, i)
      /\ \A b \in S : \E i \in 1..Len(s) : s[i] = b
      /\ \A i, j \in 1..Len(s) : s[i] = s[j] => i = j
  BY <1>1 DEF IsList
<1>3. Len(s) > 0 /\ first = s[1] /\ 1 \in 1..Len(s)
  BY <1>2 DEF NextOf
<1> DEFINE n == Len(s) - 1
           q == [i \in 1..n |-> s[i + 1]]
<1>4. q \in [1..n -> Nat] /\ n \in Nat
  BY <1>2, <1>3
<1>5. q \in Seq(Nat) /\ Len(q) = n
  BY <1>4
<1>6. \A i \in 1..n : q[i] = s[i + 1] /\ i + 1 \in 1..Len(s) /\ i + 1 # 1
  BY <1>2
<1> HIDE DEF q
<1>7. ASSUME NEW i \in 0..n
      PROVE  NextOf(q, i) = NextOf(s, i + 1)
  <2>1. CASE i = n
    BY <2>1, <1>2, <1>5 DEF NextOf
  <2>2. CASE i < n
    <3>1. i + 1 \in 1..n
      BY <1>4, <2>2
    <3>2. q[i + 1] = s[i + 1 + 1]
      BY <1>6, <3>1
    <3> QED BY <3>2, <2>2, <1>2, <1>5 DEF NextOf
  <2> QED BY <1>4, <2>1, <2>2
<1>8. hdr[first].next = NextOf(q, 0)
  <2>1. 0 \in 0..n /\ 0 + 1 = 1
    BY <1>4
  <2> QED BY <2>1, <1>2, <1>3, <1>7
<1>9. ASSUME NEW i \in 1..n
      PROVE  q[i] \in S \ {first} /\ hdr[q[i]].next = NextOf(q, i)
  <2>1. i \in 0..n
    BY <1>4
  <2>2. q[i] = s[i + 1] /\ i + 1 \in 1..Len(s) /\ s[i + 1] # first
    BY <1>2, <1>3, <1>6
  <2> QED BY <2>1, <2>2, <1>2, <1>7
<1>10. ASSUME NEW b \in S \ {first}
       PROVE  \E i \in 1..n : q[i] = b
  <2>1. PICK i \in 1..Len(s) : s[i] = b
    BY <1>2
  <2>2. i # 1
    BY <2>1, <1>3
  <2>3. i - 1 \in 1..n /\ (i - 1) + 1 = i
    BY <1>2, <2>2
  <2> QED BY <2>1, <2>3, <1>6
<1>11. ASSUME NEW i \in 1..n, NEW j \in 1..n, q[i] = q[j]
       PROVE  i = j
  <2>1. i + 1 = j + 1
    BY <1>2, <1>6, <1>11
  <2> QED BY <2>1, <1>4
<1>12. IsList(hdr, hdr[first].next, q, S \ {first})
  BY <1>5, <1>8, <1>9, <1>10, <1>11 DEF IsList
<1> QED BY <1>2, <1>3, <1>5, <1>12 DEF HasList

(* A list is the same as long as no block on it gets another next.         *)
LEMMA ListIsKept ==
  ASSUME NEW hdr, NEW first, NEW S, HasList(hdr, first, S),
         NEW new, \A a \in S : new[a].next = hdr[a].next
  PROVE  HasList(new, first, S)
<1>1. PICK s \in Seq(Nat) : IsList(hdr, first, s, S)
  BY DEF HasList
<1>2. IsList(new, first, s, S)
  <2>1. \A i \in 1..Len(s) : s[i] \in S /\ hdr[s[i]].next = NextOf(s, i)
    BY <1>1 DEF IsList
  <2>2. \A i \in 1..Len(s) : s[i] \in S /\ new[s[i]].next = NextOf(s, i)
    BY <2>1
  <2> QED BY <1>1, <2>2 DEF IsList
<1> QED BY <1>2 DEF HasList

(* A list without a first block is that of no blocks.                      *)
LEMMA EmptyList ==
  ASSUME NEW hdr, NEW S, HasList(hdr, NoBlock, S)
  PROVE  S = {}
<1>1. PICK s \in Seq(Nat) : IsList(hdr, NoBlock, s, S)
  BY DEF HasList
<1>2. Len(s) \in Nat /\ s \in [1..Len(s) -> Nat]
  OBVIOUS
<1>3. NoBlock = NextOf(s, 0) /\ \A a \in S : \E i \in 1..Len(s) : s[i] = a
  BY <1>1 DEF IsList
<1>4. ~ (0 < Len(s))
  BY <1>2, <1>3 DEF NextOf, NoBlock
<1>5. 1..Len(s) = {}
  BY <1>2, <1>4
<1> QED BY <1>3, <1>5

(* The blocks that were cut are a list, from the last to the first.        *)
LEMMA CutsAreAList ==
  ASSUME NEW p \in Pools, NEW start \in Nat, NEW hdr, NEW new,
         IsFilled(new, hdr, p, start, NoBlock)
  PROVE  /\ LastCut(p, start) \in Nat
         /\ HasList(new, LastCut(p, start), CutSet(p, start))
<1> DEFINE cut == CutBlocks(p, start)
           K == CutCount(p)
           q == [i \in 1..K |-> cut[K + 1 - i]]
           C == CutSet(p, start)
<1>1. /\ K \in Nat \ {0} /\ cut \in [1..K -> Nat] /\ Len(cut) = K
      /\ BlockLengthOf(p) \in Nat \ {0}
      /\ \A k, j \in 1..K : k < j => cut[k] + BlockLengthOf(p) <= cut[j]
  BY CutAddresses
<1>2. /\ \A k \in 1..K : new[cut[k]].next = IF k = 1 THEN NoBlock ELSE cut[k - 1]
      /\ \A k \in 1..K : cut[k] \in C
      /\ \A c \in C : \E k \in 1..K : c = cut[k]
  <2>1. \A k \in 1..K :
          new[cut[k]] = [type |-> "small", size |-> BlockSizes[p],
                         next |-> IF k = 1 THEN NoBlock ELSE cut[k - 1]]
    BY DEF IsFilled
  <2>2. ASSUME NEW k \in 1..K
        PROVE  new[cut[k]].next = IF k = 1 THEN NoBlock ELSE cut[k - 1]
    <3> DEFINE below == IF k = 1 THEN NoBlock ELSE cut[k - 1]
    <3>1. new[cut[k]] = [type |-> "small", size |-> BlockSizes[p], next |-> below]
      BY <2>1
    <3> HIDE DEF below
    <3>2. new[cut[k]].next = below
      BY <3>1
    <3> QED BY <3>2 DEF below
  <2>3. C = {cut[k] : k \in 1..K}
    BY DEF CutSet
  <2> QED BY <2>2, <2>3
<1>3. LastCut(p, start) = cut[K]
  BY <1>1 DEF LastCut
<1> HIDE DEF cut, K, C
<1>4. \A i \in 1..K : K + 1 - i \in 1..K /\ K + 1 - (K + 1 - i) = i
  BY <1>1
<1>5. q \in [1..K -> Nat] /\ q \in Seq(Nat) /\ Len(q) = K
  BY <1>1, <1>4
<1>6. \A i \in 1..K : q[i] = cut[K + 1 - i]
  OBVIOUS
<1> HIDE DEF q
<1>7. cut[K] = NextOf(q, 0)
  <2>1. 0 < K /\ 0 + 1 = 1 /\ 1 \in 1..K /\ K + 1 - 1 = K
    BY <1>1
  <2>2. NextOf(q, 0) = q[1]
    BY <1>5, <2>1 DEF NextOf
  <2> QED BY <2>1, <2>2, <1>6
<1>8. ASSUME NEW i \in 1..K
      PROVE  q[i] \in C /\ new[q[i]].next = NextOf(q, i)
  <2>1. q[i] = cut[K + 1 - i] /\ K + 1 - i \in 1..K
    BY <1>4, <1>6
  <2>2. CASE i = K
    <3>1. K + 1 - i = 1 /\ NextOf(q, i) = NoBlock
      BY <1>1, <1>5, <2>2 DEF NextOf
    <3> QED BY <2>1, <3>1, <1>2
  <2>3. CASE i < K
    <3>1. i + 1 \in 1..K /\ (K + 1 - i) - 1 = K + 1 - (i + 1) /\ K + 1 - i # 1
      BY <1>1, <2>3
    <3>2. NextOf(q, i) = q[i + 1] /\ q[i + 1] = cut[K + 1 - (i + 1)]
      BY <1>5, <1>6, <2>3, <3>1 DEF NextOf
    <3>3. new[cut[K + 1 - i]].next = cut[(K + 1 - i) - 1]
      BY <1>2, <2>1, <3>1
    <3> QED BY <1>2, <2>1, <3>1, <3>2, <3>3
  <2> QED BY <1>1, <2>2, <2>3
<1>9. ASSUME NEW c \in C
      PROVE  \E i \in 1..K : q[i] = c
  <2>1. PICK k \in 1..K : c = cut[k]
    BY <1>2
  <2>2. K + 1 - k \in 1..K /\ K + 1 - (K + 1 - k) = k
    BY <1>4
  <2> QED BY <2>1, <2>2, <1>6
<1>10. ASSUME NEW i \in 1..K, NEW j \in 1..K, q[i] = q[j]
       PROVE  i = j
  <2>1. /\ cut[K + 1 - i] = cut[K + 1 - j]
        /\ K + 1 - i \in 1..K /\ K + 1 - j \in 1..K
        /\ cut[K + 1 - i] \in Nat /\ cut[K + 1 - j] \in Nat
    BY <1>1, <1>4, <1>6, <1>10
  <2>2. ~ (K + 1 - i < K + 1 - j)
    BY <1>1, <2>1
  <2>3. ~ (K + 1 - j < K + 1 - i)
    BY <1>1, <2>1
  <2> QED BY <1>1, <2>2, <2>3
<1>11. IsList(new, cut[K], q, C)
  BY <1>5, <1>7, <1>8, <1>9, <1>10 DEF IsList
<1>12. cut[K] \in Nat
  BY <1>1
<1> QED BY <1>3, <1>5, <1>11, <1>12 DEF HasList, C, cut, K

-----------------------------------------------------------------------------
(* Boot: PaliX86TranslateMemoryMap and PfnDatabaseInitialize.              *)

(* What the BIOS writes, and what the kernel makes of it.                  *)
MapEntries == [base : Nat, length : Nat, type : EntryTypes]
Addresses == 0..(AddressSpace - 1)
MapBlocks == [start : Addresses, end : Addresses, type : {"usable", "unused", "reserved"}]

(* The loops over the BIOS's map end, for they go up: what they collect    *)
(* are entries of it.                                                      *)
LEMMA VisitsAreEntries ==
  ASSUME NEW m \in Seq(MapEntries)
  PROVE  Visits(m) \in Seq(MapEntries)
<1> DEFINE L == Len(m)
           Body(f, n) == IF Carry(m, n) \/ Continuation(m, n) = 0 THEN <<>>
                         ELSE <<m[n + 1]>> \o f[n + Continuation(m, n)]
           Recurs(f) == f = [n \in Nat |-> Body(f, n)]
           from == CHOOSE f : Recurs(f)
           E == Seq(MapEntries)
           From(f, k) == \A n \in Nat : n + k >= L => f[n] = Body(f, n)
           T == {k \in 0..L : \E f \in [Nat -> E] : From(f, k)}
<1>1. L \in Nat
  OBVIOUS
<1>2. \A f : \A n \in Nat :
        /\ n + 1 >= L => Body(f, n) = <<>>
        /\ n + 1 < L => Body(f, n) = <<m[n + 1]>> \o f[n + (n + 1)]
  BY <1>1 DEF Carry, Continuation
<1>3. ASSUME NEW n \in Nat, n + 1 < L
      PROVE  m[n + 1] \in MapEntries
  BY <1>3, <1>1
<1>4. <<>> \in E
  OBVIOUS
<1>5. ASSUME NEW f, NEW n \in Nat, f[n + (n + 1)] \in E
      PROVE  Body(f, n) \in E
  <2>1. CASE n + 1 >= L
    BY <1>2, <1>4, <2>1
  <2>2. CASE n + 1 < L
    <3>1. m[n + 1] \in MapEntries
      BY <1>3, <2>2
    <3>2. <<m[n + 1]>> \o f[n + (n + 1)] \in E
      BY <1>5, <3>1
    <3> QED BY <3>2, <1>2, <2>2
  <2> QED BY <1>1, <2>1, <2>2
<1> HIDE DEF L, Body, E
<1>6. 0 \in T
  <2> DEFINE f == [n \in Nat |-> <<>>]
  <2>1. f \in [Nat -> E]
    BY <1>4
  <2>2. ASSUME NEW n \in Nat, n + 0 >= L
        PROVE  f[n] = Body(f, n)
    <3>1. n + 1 >= L
      BY <1>1, <2>2
    <3>2. f[n] = <<>>
      OBVIOUS
    <3> HIDE DEF f
    <3> QED BY <3>1, <3>2, <1>2
  <2>3. 0 \in 0..L
    BY <1>1
  <2> HIDE DEF f
  <2>4. From(f, 0)
    BY <2>2
  <2> HIDE DEF From
  <2> QED BY <2>1, <2>3, <2>4
<1>7. ASSUME NEW k \in 0..(L - 1), k \in T
      PROVE  k + 1 \in T
  <2>1. PICK f \in [Nat -> E] : From(f, k)
    BY <1>7
  <2> DEFINE j == L - (k + 1)
             g == [n \in Nat |-> IF n = j THEN Body(f, j) ELSE f[n]]
  <2>2. j \in Nat /\ k + 1 \in 0..L
    BY <1>1
  <2>3. Body(f, j) \in E
    <3>1. j + (j + 1) \in Nat
      BY <2>2
    <3> QED BY <2>1, <2>2, <3>1, <1>5
  <2>4. g \in [Nat -> E]
    BY <2>1, <2>3
  <2>5. ASSUME NEW n \in Nat, n >= j
        PROVE  Body(g, n) = Body(f, n)
    <3>1. n + (n + 1) \in Nat /\ n + (n + 1) # j
      BY <2>2, <2>5
    <3>2. g[n + (n + 1)] = f[n + (n + 1)]
      BY <3>1
    <3> HIDE DEF g
    <3>3. n + 1 >= L \/ n + 1 < L
      BY <1>1
    <3> QED BY <3>2, <3>3, <1>2
  <2>6. ASSUME NEW n \in Nat, n + (k + 1) >= L
        PROVE  g[n] = Body(g, n)
    <3>1. n >= j
      BY <1>1, <2>6
    <3>2. Body(g, n) = Body(f, n)
      BY <2>5, <3>1
    <3>3. CASE n = j
      BY <3>2, <3>3
    <3>4. CASE n # j
      <4>1. n + k >= L
        BY <1>1, <3>1, <3>4
      <4>2. f[n] = Body(f, n)
        BY <2>1, <4>1
      <4> QED BY <3>2, <3>4, <4>2
    <3> QED BY <3>3, <3>4
  <2> HIDE DEF g
  <2>7. From(g, k + 1)
    BY <2>6
  <2> HIDE DEF From
  <2> QED BY <2>2, <2>4, <2>7
<1>8. L \in T
  <2> HIDE DEF T
  <2>1. 0..L \subseteq T
    BY <1>1, <1>6, <1>7, UpTo
  <2> QED BY <2>1, <1>1
<1>9. \E f : Recurs(f)
  <2>1. PICK f \in [Nat -> E] : From(f, L)
    BY <1>8
  <2>2. \A n \in Nat : f[n] = Body(f, n)
    BY <1>1, <2>1
  <2>3. f = [n \in Nat |-> Body(f, n)]
    BY <2>2
  <2> QED BY <2>3
<1>10. Recurs(from)
  BY <1>9
<1>11. Visits(m) = from[0]
  BY DEF Visits, Body
<1> HIDE DEF from
<1>12. \A n \in Nat : from[n] = Body(from, n)
  BY <1>10
<1> DEFINE U == {k \in 0..L : \A n \in Nat : n + k >= L => from[n] \in E}
<1>13. 0 \in U
  <2>1. ASSUME NEW n \in Nat, n + 0 >= L
        PROVE  from[n] \in E
    <3>1. n + 1 >= L
      BY <1>1, <2>1
    <3>2. Body(from, n) = <<>>
      BY <1>2, <3>1
    <3> QED BY <1>4, <1>12, <3>2
  <2> QED BY <1>1, <2>1
<1>14. ASSUME NEW k \in 0..(L - 1), k \in U
       PROVE  k + 1 \in U
  <2>1. ASSUME NEW n \in Nat, n + (k + 1) >= L
        PROVE  from[n] \in E
    <3>1. n + (n + 1) \in Nat /\ n + (n + 1) + k >= L
      BY <1>1, <2>1
    <3>2. from[n + (n + 1)] \in E
      BY <1>14, <3>1
    <3> QED BY <1>5, <1>12, <3>2
  <2> QED BY <1>1, <2>1
<1>15. L \in U
  <2> HIDE DEF U
  <2>1. 0..L \subseteq U
    BY <1>1, <1>13, <1>14, UpTo
  <2> QED BY <2>1, <1>1
<1>16. from[0] \in E
  BY <1>1, <1>15
<1> QED BY <1>11, <1>16 DEF E

(* What the assumptions say of the machine's memory.                       *)
LEMMA BootConstants ==
  /\ AddressSpace \in Nat \ {0} /\ FrameSize \in Nat \ {0}
  /\ LowMemory \in Nat /\ KernelStart \in Nat /\ KernelEnd \in Nat
  /\ DatabaseSize \in Nat /\ Margin \in Nat /\ Margin >= 3
  /\ KernelStart + PageSize <= KernelEnd /\ KernelEnd < AddressSpace
  /\ PageSize <= KernelStart
BY BootAssumption

(* PaliX86TranslateMemoryMap makes blocks of the BIOS's entries, and the   *)
(* kernel's is the last.                                                   *)
LEMMA BlocksAreTyped ==
  ASSUME NEW m \in Maps
  PROVE  LET blocks == TranslateMemoryMap(m)
         IN  /\ blocks \in Seq(MapBlocks) /\ Len(blocks) \in Nat \ {0}
             /\ blocks[Len(blocks)] = KernelBlock
             /\ \A n \in 1..Len(blocks) : blocks[n] \in MapBlocks
<1> DEFINE visited == Visits(m)
           Translated(entry) == [start |-> StartOf(entry),
                            end   |-> (StartOf(entry) + entry.length) % AddressSpace,
                            type  |-> BlockType(entry)]
           s == [i \in 1..Len(visited) |-> Translated(visited[i])]
<1>1. m \in Seq(MapEntries)
  BY MapAssumption DEF MapEntries
<1>2. visited \in Seq(MapEntries)
  BY <1>1, VisitsAreEntries
<1>3. ASSUME NEW e \in MapEntries
      PROVE  Translated(e) \in MapBlocks
  <2>1. e.base \in Nat /\ e.length \in Nat
    BY DEF MapEntries
  <2>2. StartOf(e) \in Addresses
    BY <2>1, BootConstants DEF StartOf, Addresses
  <2>3. (StartOf(e) + e.length) % AddressSpace \in Addresses
    BY <2>1, <2>2, BootConstants DEF Addresses
  <2>4. BlockType(e) \in {"usable", "unused", "reserved"}
    BY DEF BlockType
  <2> QED BY <2>2, <2>3, <2>4 DEF MapBlocks
<1> HIDE DEF Translated, visited
<1>4. Len(visited) \in Nat /\ \A i \in 1..Len(visited) : visited[i] \in MapEntries
  BY <1>2
<1>5. s \in [1..Len(visited) -> MapBlocks]
  BY <1>3, <1>4
<1>6. s \in Seq(MapBlocks) /\ Len(s) = Len(visited)
  BY <1>4, <1>5
<1> HIDE DEF s
<1>7. KernelBlock \in MapBlocks
  BY BootConstants, Constants DEF KernelBlock, MapBlocks, Addresses
<1>8. TranslateMemoryMap(m) = Append(s, KernelBlock)
  BY DEF TranslateMemoryMap, s, visited, Translated
<1> DEFINE blocks == Append(s, KernelBlock)
<1>9. /\ blocks \in Seq(MapBlocks) /\ Len(blocks) = Len(s) + 1
      /\ blocks[Len(s) + 1] = KernelBlock
  BY <1>6, <1>7
<1>10. Len(blocks) \in Nat \ {0}
  BY <1>4, <1>6, <1>9
<1> HIDE DEF blocks
<1>11. \A n \in 1..Len(blocks) : blocks[n] \in MapBlocks
  BY <1>9
<1> QED BY <1>8, <1>9, <1>10, <1>11 DEF blocks

(* The lengths of blocks, in pages; the kernel has at least one page.      *)
LEMMA BlockLengthIsTyped ==
  /\ \A b \in MapBlocks : BlockLength(b) \in Nat
  /\ BlockLength(KernelBlock) = (KernelEnd - KernelStart) \div PageSize
  /\ BlockLength(KernelBlock) \in Nat \ {0}
<1>1. ASSUME NEW b \in MapBlocks
      PROVE  BlockLength(b) \in Nat
  <2>1. b.end - b.start \in Int
    BY BootConstants DEF MapBlocks, Addresses
  <2>2. (b.end - b.start) % AddressSpace \in Nat
    BY <2>1, BootConstants
  <2> QED BY <2>2, Constants DEF BlockLength
<1> DEFINE x == KernelEnd - KernelStart
<1>2. x \in Nat /\ x < AddressSpace /\ PageSize <= x
  BY BootConstants, Constants
<1>3. x % AddressSpace = x
  BY <1>2, BootConstants
<1>4. BlockLength(KernelBlock) = x \div PageSize
  BY <1>3 DEF BlockLength, KernelBlock
<1> HIDE DEF x
<1>5. x \div PageSize \in Nat \ {0}
  <2>1. /\ x \div PageSize \in Int /\ x < (x \div PageSize) * PageSize + PageSize
    BY <1>2, Constants, DivBounds
  <2> DEFINE d == x \div PageSize
  <2> HIDE DEF d
  <2>2. d \in Int /\ x < d * PageSize + PageSize
    BY <2>1 DEF d
  <2>3. ~ (d <= 0)
    <3>1. SUFFICES ASSUME d <= 0
                   PROVE  FALSE
      OBVIOUS
    <3>2. d * PageSize <= 0 * PageSize
      BY <2>2, <3>1, Constants, TimesMonotone
    <3>3. 0 * PageSize = 0 /\ d * PageSize \in Int
      BY <2>2, Constants
    <3> QED BY <1>2, <2>2, <3>2, <3>3, Constants
  <2> QED BY <2>2, <2>3 DEF d
<1> QED BY <1>1, <1>4, <1>5 DEF x

(* The frame table is not empty.                                           *)
LEMMA FrameCountIsPositive ==
  ASSUME NEW m \in Maps
  PROVE  FrameCount(TranslateMemoryMap(m)) \in Nat \ {0}
<1> DEFINE blocks == TranslateMemoryMap(m)
           L == Len(blocks)
           Frames(n) == IF blocks[n].type = "unused" THEN 0
                        ELSE BlockLength(blocks[n])
           Recurs(f) == f = [n \in 0..L |-> IF n = 0 THEN 0
                                            ELSE f[n - 1] + Frames(n)]
           upTo == CHOOSE f : Recurs(f)
           step == [n \in 1..L |-> [x \in Nat |-> x + Frames(n)]]
<1>1. /\ L \in Nat \ {0} /\ blocks[L] = KernelBlock
      /\ \A n \in 1..L : blocks[n] \in MapBlocks
  BY BlocksAreTyped
<1> HIDE DEF blocks
<1>2. \A n \in 1..L : Frames(n) \in Nat
  BY <1>1, BlockLengthIsTyped
<1>3. Frames(L) \in Nat \ {0}
  <2>1. KernelBlock.type = "reserved"
    BY DEF KernelBlock
  <2> QED BY <1>1, <2>1, BlockLengthIsTyped
<1>4. FrameCount(blocks) = upTo[L]
  BY DEF FrameCount
<1> HIDE DEF L, Frames
<1>5. \E f : Recurs(f)
  <2>1. step \in [1..L -> [Nat -> Nat]]
    BY <1>2
  <2>2. 0 \in Nat /\ L \in Nat
    BY <1>1
  <2> HIDE DEF step
  <2>3. PICK f : Recursive(f, L, Nat, 0, step)
    BY <2>1, <2>2, RecursionExists
  <2>4. /\ f \in [0..L -> Nat] /\ f[0] = 0
        /\ \A n \in 1..L : f[n] = step[n][f[n - 1]]
    BY <2>3 DEF Recursive
  <2>5. ASSUME NEW n \in 0..L
        PROVE  f[n] = IF n = 0 THEN 0 ELSE f[n - 1] + Frames(n)
    <3>1. CASE n = 0
      BY <3>1, <2>4
    <3>2. CASE n # 0
      <4>1. n \in 1..L /\ n - 1 \in 0..L
        BY <1>1, <3>2
      <4>2. f[n - 1] \in Nat
        BY <2>4, <4>1
      <4>3. step[n][f[n - 1]] = f[n - 1] + Frames(n)
        BY <4>1, <4>2 DEF step
      <4> QED BY <2>4, <3>2, <4>1, <4>3
    <3> QED BY <3>1, <3>2
  <2>6. Recurs(f)
    BY <2>4, <2>5
  <2> QED BY <2>6
<1>6. Recurs(upTo)
  BY <1>5
<1> HIDE DEF upTo
<1> DEFINE T == {n \in 0..L : upTo[n] \in Nat}
<1>7. 0 \in T
  BY <1>1, <1>6
<1>8. ASSUME NEW n \in 0..(L - 1), n \in T
      PROVE  n + 1 \in T
  <2>1. n + 1 \in 0..L /\ n + 1 \in 1..L /\ (n + 1) - 1 = n /\ n + 1 # 0
    BY <1>1
  <2>2. upTo[n + 1] = upTo[n] + Frames(n + 1)
    BY <1>6, <2>1
  <2> QED BY <1>2, <1>8, <2>1, <2>2
<1>9. L - 1 \in T
  <2> HIDE DEF T
  <2>1. 0..L \subseteq T
    BY <1>1, <1>7, <1>8, UpTo
  <2> QED BY <2>1, <1>1
<1>10. upTo[L] = upTo[L - 1] + Frames(L)
  BY <1>1, <1>6
<1> QED BY <1>3, <1>4, <1>9, <1>10 DEF blocks

(* PfnDatabaseInitialize gives each frame an attribute.                    *)
LEMMA InitialFramesAreTyped ==
  ASSUME NEW m \in Maps,
         NEW stale \in [0..(FrameCount(TranslateMemoryMap(m)) - 1) -> Attributes]
  PROVE  InitialFrames(m, stale)
           \in [0..(FrameCount(TranslateMemoryMap(m)) - 1) -> Attributes]
<1>1. ASSUME NEW blocks, NEW i \in 0..(FrameCount(TranslateMemoryMap(m)) - 1)
      PROVE  BlockAttribute(blocks, i, stale[i]) \in Attributes
  BY DEF BlockAttribute, Attributes
<1> QED BY <1>1 DEF InitialFrames, Attributes

-----------------------------------------------------------------------------
(* What PfnDatabaseInitialize keeps from being taken.                      *)

(* TableFrames and ReservedFrames of PoolMemory.tla, for any map.          *)
TableFramesOf(count) ==
  LET last == KernelEnd + DatabaseSize + count * FrameSize
  IN  (KernelEnd \div PageSize)..((last - 1) \div PageSize)
(* A frame that a block restricts and no later block makes free. *)
InReserved(blocks, i) ==
  \E n \in 1..Len(blocks) :
    /\ blocks[n].type = "reserved"
    /\ blocks[n].start % PageSize = 0
    /\ blocks[n].start <= i * PageSize
    /\ (i + 1) * PageSize <= blocks[n].end
    /\ \A later \in (n + 1)..Len(blocks) :
         Covers(blocks[later], i) => blocks[later].type # "usable"
Unoffered(blocks, i) ==
  LET covering == {n \in 1..Len(blocks) : Covers(blocks[n], i)}
  IN  covering # {} /\ \A n \in covering : blocks[n].type # "usable"

(* The margin of the table's pages covers what the divisions cut off.      *)
LEMMA TableIsInItsPages ==
  ASSUME NEW count \in Nat, NEW i \in TableFramesOf(count)
  PROVE  i \in DatabasePages(count)
<1> DEFINE x == DatabaseSize + count * FrameSize
           k == KernelEnd \div PageSize
           d == x \div PageSize
<1>1. x \in Nat
  BY BootConstants
<1>2. k \in Int /\ d \in Int
  BY <1>1, BootConstants, Constants, DivBounds
<1>3. (KernelEnd + x - 1) \div PageSize <= k + d + 1
  <2>1. (KernelEnd + x - 1) \div PageSize <= (KernelEnd + x) \div PageSize
    <3>1. KernelEnd + x - 1 <= KernelEnd + x
      BY <1>1, BootConstants
    <3>2. KernelEnd + x - 1 \in Int /\ KernelEnd + x \in Int
      BY <1>1, BootConstants
    <3> HIDE DEF x
    <3> QED BY <3>1, <3>2, Constants, DivMonotone
  <2> HIDE DEF x
  <2>2. (KernelEnd + x) \div PageSize <= KernelEnd \div PageSize + x \div PageSize + 1
    BY <1>1, BootConstants, Constants, DivOfSum
  <2>3. (KernelEnd + x - 1) \div PageSize \in Int /\ (KernelEnd + x) \div PageSize \in Int
    BY <1>1, BootConstants, Constants
  <2> HIDE DEF k, d
  <2>4. (KernelEnd + x) \div PageSize <= k + d + 1
    BY <2>2 DEF k, d
  <2> QED BY <1>2, <2>1, <2>3, <2>4
<1>4. (KernelEnd + DatabaseSize + count * FrameSize) - 1 = KernelEnd + x - 1
  BY BootConstants
<1>5. i \in k..((KernelEnd + x - 1) \div PageSize)
  BY <1>4 DEF TableFramesOf
<1>6. DatabasePages(count) = (k - 1)..(k - 1 + (d + Margin) - 1)
  BY DEF DatabasePages
<1>7. (KernelEnd + x - 1) \div PageSize \in Int
  BY <1>1, BootConstants, Constants
<1> DEFINE e == (KernelEnd + x - 1) \div PageSize
<1> HIDE DEF x, k, d
<1>8. e \in Int /\ e <= k + d + 1 /\ i \in k..e
  BY <1>3, <1>5, <1>7
<1> HIDE DEF e
<1> QED BY <1>2, <1>6, <1>8, BootConstants

(* What the block of the kernel does not cover of its last page, those     *)
(* pages do.                                                               *)
LEMMA KernelIsCovered ==
  ASSUME NEW count \in Nat, NEW i \in KernelFrames
  PROVE  Covers(KernelBlock, i) \/ i \in DatabasePages(count)
<1> DEFINE s == KernelStart \div PageSize
           k == KernelEnd \div PageSize
           y == KernelEnd - KernelStart
           l == y \div PageSize
           d == (DatabaseSize + count * FrameSize) \div PageSize
<1>1. /\ s \in Int /\ k \in Int /\ l \in Int /\ y \in Int
      /\ k <= s + l + 1
  <2>1. KernelStart + y = KernelEnd /\ y \in Int
    BY BootConstants
  <2> HIDE DEF y
  <2>2. (KernelStart + y) \div PageSize <= s + l + 1
    BY <2>1, BootConstants, Constants, DivOfSum
  <2> QED BY <2>1, <2>2, BootConstants, Constants
<1>2. d \in Nat
  BY BootConstants, Constants
<1>3. (KernelEnd - 1) \div PageSize <= k /\ (KernelEnd - 1) \div PageSize \in Int
  BY BootConstants, Constants, DivMonotone
<1>4. BlockLength(KernelBlock) = l
  BY BlockLengthIsTyped
<1>5. Covers(KernelBlock, i) <=> i >= s /\ i < s + l
  BY <1>4 DEF Covers, KernelBlock, FirstFrame
<1>6. DatabasePages(count) = (k - 1)..(k - 1 + (d + Margin) - 1)
  BY DEF DatabasePages
<1> DEFINE e == (KernelEnd - 1) \div PageSize
<1>7. i \in s..e /\ e \in Int /\ e <= k
  BY <1>3 DEF KernelFrames
<1> HIDE DEF s, k, l, d, e
<1> QED BY <1>1, <1>2, <1>5, <1>6, <1>7, BootConstants

(* A frame that a block restricts stays restricted unless a later block    *)
(* that is usable covers it.                                               *)
LEMMA LastCoveringDecides ==
  ASSUME NEW blocks, NEW i, NEW stale, NEW L \in Nat, L = Len(blocks),
         NEW n \in 1..L, Covers(blocks[n], i),
         \A later \in n..L :
           Covers(blocks[later], i) => blocks[later].type # "usable"
  PROVE  BlockAttribute(blocks, i, stale) = "restricted"
<1> DEFINE covering == {j \in 1..L : Covers(blocks[j], i)}
           last == CHOOSE j \in covering : \A m \in covering : m <= j
<1>1. n \in covering
  OBVIOUS
<1>2. \E j \in covering : \A m \in covering : m <= j
  <2> DEFINE T == {L - j : j \in covering}
  <2>1. T \subseteq Nat /\ L - n \in T
    BY <1>1
  <2> HIDE DEF T
  <2>2. PICK x \in T : \A y \in T : x <= y
    BY <2>1, LeastNumber
  <2>3. PICK j \in covering : x = L - j
    BY <2>2 DEF T
  <2>4. ASSUME NEW m \in covering
        PROVE  m <= j
    <3>1. x <= L - m
      BY <2>2 DEF T
    <3> QED BY <2>3, <3>1
  <2> QED BY <2>4
<1>3. last \in covering /\ \A m \in covering : m <= last
  BY <1>2
<1>4. BlockAttribute(blocks, i, stale)
        = IF blocks[last].type = "usable" THEN "free" ELSE "restricted"
  BY <1>1 DEF BlockAttribute
<1> HIDE DEF last
<1>5. last \in n..L /\ Covers(blocks[last], i)
  BY <1>1, <1>3
<1> QED BY <1>4, <1>5

(* A whole page in a reserved block is covered by it, if the block begins  *)
(* with a page: PfnDatabaseInitialize counts the pages of a block from the *)
(* one that it begins in.                                                  *)
LEMMA ReservedIsCovered ==
  ASSUME NEW b \in MapBlocks, NEW i \in Nat, b.type = "reserved",
         b.start % PageSize = 0,
         b.start <= i * PageSize, (i + 1) * PageSize <= b.end
  PROVE  Covers(b, i)
<1> DEFINE s == b.start \div PageSize
           y == b.end - b.start
           l == y \div PageSize
           st == b.start
           en == b.end
<1>1. b.start \in Addresses /\ b.end \in Addresses
  BY DEF MapBlocks
<1>2. st \in Nat /\ en \in Nat /\ y = en - st /\ y \in Int
  BY <1>1, BootConstants DEF Addresses
<1>3. en < AddressSpace
  BY <1>1, BootConstants DEF Addresses
<1>4. st <= i * PageSize /\ (i + 1) * PageSize <= en
  OBVIOUS
<1>5. /\ (i + 1) * PageSize = i * PageSize + PageSize
      /\ i * PageSize \in Int
  BY Constants
<1>6. st % PageSize = 0
  OBVIOUS
<1>7. st = s * PageSize /\ s \in Int
  <2> HIDE DEF st
  <2>3. st = (st \div PageSize) * PageSize
    BY <1>2, <1>6, Constants, DivOfMultiple
  <2> QED BY <1>2, <2>3, Constants DEF st
<1>8. y % AddressSpace = y
  <2>1. y \in Nat /\ y < AddressSpace
    <3> HIDE DEF st, en, y
    <3> QED BY <1>2, <1>3, <1>4, <1>5, Constants, BootConstants
  <2> QED BY <2>1, BootConstants
<1>9. s <= i
  <2> HIDE DEF st, s
  <2>1. CASE i + 1 <= s
    <3>1. (i + 1) * PageSize <= s * PageSize
      BY <1>7, <2>1, Constants, TimesMonotone
    <3>2. s * PageSize \in Int
      BY <1>7, Constants
    <3> QED BY <1>2, <1>4, <1>5, <1>7, <3>1, <3>2, Constants
  <2> QED BY <1>7, <2>1
<1>10. i + 1 - s <= l
  <2> HIDE DEF st, en, y, s
  <2>1. (i + 1 - s) * PageSize = (i + 1) * PageSize - s * PageSize
    BY <1>7, Constants
  <2>2. (i + 1 - s) * PageSize <= y
    BY <1>2, <1>4, <1>7, <2>1, <1>5, Constants
  <2>3. i + 1 - s \in Int
    BY <1>7
  <2> QED BY <1>2, <2>2, <2>3, Constants, DivAtLeast
<1>11. l \in Int
  <2> HIDE DEF y
  <2> QED BY <1>2, Constants, DivBounds
<1>12. FirstFrame(b) = s /\ BlockLength(b) = l
  BY <1>8 DEF FirstFrame, BlockLength
<1> HIDE DEF s, l
<1> QED BY <1>7, <1>9, <1>10, <1>11, <1>12 DEF Covers

(* Nothing of the kernel and of the table is free, nor what only blocks    *)
(* restrict that are not usable, or a reserved one after the usable ones.  *)
LEMMA BootKeepsUntouchable ==
  ASSUME NEW m \in Maps,
         NEW stale \in [0..(FrameCount(TranslateMemoryMap(m)) - 1) -> Attributes],
         NEW i \in 0..(FrameCount(TranslateMemoryMap(m)) - 1),
         \/ i \in KernelFrames
         \/ i \in TableFramesOf(FrameCount(TranslateMemoryMap(m)))
         \/ InReserved(TranslateMemoryMap(m), i)
         \/ Unoffered(TranslateMemoryMap(m), i)
  PROVE  InitialFrames(m, stale)[i] # "free"
<1> DEFINE blocks == TranslateMemoryMap(m)
           count == FrameCount(blocks)
           L == Len(blocks)
<1>1. count \in Nat
  BY FrameCountIsPositive
<1>2. /\ L \in Nat \ {0} /\ blocks[L] = KernelBlock
      /\ \A n \in 1..L : blocks[n] \in MapBlocks
  BY BlocksAreTyped
<1>3. InitialFrames(m, stale)[i] = "free" =>
        i \notin DatabasePages(count) /\ BlockAttribute(blocks, i, stale[i]) = "free"
  BY DEF InitialFrames
<1>4. CASE i \in TableFramesOf(count)
  <2> HIDE DEF count
  <2> QED BY <1>1, <1>3, <1>4, TableIsInItsPages
<1>5. CASE i \in KernelFrames
  <2> HIDE DEF count, blocks, L
  <2>1. SUFFICES ASSUME Covers(KernelBlock, i)
                 PROVE  BlockAttribute(blocks, i, stale[i]) = "restricted"
    BY <1>1, <1>3, <1>5, KernelIsCovered
  <2>2. KernelBlock.type # "usable"
    BY DEF KernelBlock
  <2>3. L \in 1..L /\ \A later \in L..L : later = L
    BY <1>2
  <2> QED BY <1>2, <2>1, <2>2, <2>3, LastCoveringDecides DEF L
<1>6. CASE InReserved(blocks, i)
  <2>1. i \in Nat
    BY <1>1
  <2> HIDE DEF blocks, count
  <2>2. PICK n \in 1..L : /\ blocks[n].type = "reserved"
                          /\ blocks[n].start % PageSize = 0
                          /\ blocks[n].start <= i * PageSize
                          /\ (i + 1) * PageSize <= blocks[n].end
                          /\ \A later \in (n + 1)..L :
                               Covers(blocks[later], i)
                                 => blocks[later].type # "usable"
    BY <1>6 DEF InReserved
  <2> HIDE DEF L
  <2>3. Covers(blocks[n], i)
    BY <1>2, <2>1, <2>2, ReservedIsCovered
  <2>4. \A later \in n..L :
          Covers(blocks[later], i) => blocks[later].type # "usable"
    <3>1. \A later \in n..L : later = n \/ later \in (n + 1)..L
      BY <1>2
    <3> QED BY <2>2, <3>1
  <2>5. BlockAttribute(blocks, i, stale[i]) = "restricted"
    BY <1>2, <2>3, <2>4, LastCoveringDecides DEF L
  <2> QED BY <1>3, <2>5
<1>7. CASE Unoffered(blocks, i)
  <2> HIDE DEF blocks, count
  <2>1. PICK n \in 1..L : Covers(blocks[n], i)
    BY <1>7 DEF Unoffered
  <2>2. \A later \in 1..L :
          Covers(blocks[later], i) => blocks[later].type # "usable"
    BY <1>7 DEF Unoffered
  <2> HIDE DEF L
  <2>3. \A later \in n..L : later \in 1..L
    BY <1>2
  <2>4. BlockAttribute(blocks, i, stale[i]) = "restricted"
    BY <1>2, <2>1, <2>2, <2>3, LastCoveringDecides DEF L
  <2> QED BY <1>3, <2>4
<1> QED BY <1>4, <1>5, <1>6, <1>7

-----------------------------------------------------------------------------
(* MmInitialize fills one pool after the other.                            *)

(* A pool is refilled with two pages more than its blocks take.            *)
LEMMA PoolRunIsTyped ==
  PageCount(PoolPages * PageSize) = PoolPages + 2 /\ PoolPages + 2 \in Nat \ {0}
<1> DEFINE x == PoolPages * PageSize
<1>1. x \in Int /\ PoolPages * PageSize <= x /\ x < PoolPages * PageSize + PageSize
  BY Constants
<1> HIDE DEF x
<1>2. x \div PageSize = PoolPages
  BY <1>1, Constants, DivUnique
<1> QED BY <1>2, Constants DEF PageCount, x

(* One pool has more blocks, every other has those it had.                 *)
OnlyPoolGrew(new, hdr, p, more) ==
  /\ SizedBlocks(new, p) = SizedBlocks(hdr, p) \union more
  /\ \A q \in Pools : q # p => SizedBlocks(new, q) = SizedBlocks(hdr, q)

(* A refill adds the blocks that were cut to its own pool, and to no other.*)
LEMMA OtherPoolsAreKept ==
  ASSUME NEW new, NEW hdr, NEW p \in Pools, NEW start, WereCut(new, hdr, p, start)
  PROVE  OnlyPoolGrew(new, hdr, p, CutSet(p, start))
<1>1. /\ Blocks(new, "small") = Blocks(hdr, "small") \union CutSet(p, start)
      /\ CutSet(p, start) \intersect DOMAIN hdr = {}
      /\ \A a \in DOMAIN hdr : new[a] = hdr[a]
      /\ \A a \in CutSet(p, start) : new[a].size = BlockSizes[p]
  BY DEF WereCut
<1>2. Blocks(hdr, "small") \subseteq DOMAIN hdr
  BY DEF Blocks
<1>3. \A q \in Pools : q # p => BlockSizes[p] # BlockSizes[q]
  BY SizesAscend
<1> QED BY <1>1, <1>2, <1>3 DEF SizedBlocks, OnlyPoolGrew

(* What the search finds is marked, and its header written.                *)
LEMMA FoundIsAdded ==
  ASSUME NEW N \in Nat \ {0}, NEW fr \in [0..(N - 1) -> Attributes],
         NEW hdr, HeapOK(fr, hdr), NEW untouchable, Kept(fr, hdr, untouchable),
         NEW pages \in Nat \ {0}, NEW start, start = FindRun(fr, pages),
         LargeBlock(start) \in Nat,
         NEW marked, marked = MarkPages(fr, start, pages, "mapped"),
         NEW large, large = WithHeader(hdr, LargeBlock(start), LargeHeader(pages))
  PROVE  /\ start \in Nat
         /\ marked \in [0..(N - 1) -> Attributes]
         /\ HeapOK(marked, large)
         /\ Kept(marked, large, untouchable)
         /\ Added(large, hdr, start, pages)
<1>1. start # NoRun
  <2>1. LargeBlock(NoRun) = 0 * PageSize - Header
    BY DEF LargeBlock, NoRun
  <2>2. LargeBlock(NoRun) = - Header
    BY <2>1, Constants
  <2> QED BY <2>2, Constants
<1>2. /\ start \in Nat /\ start + pages <= N - 1
      /\ \A i \in start..(start + pages - 1) : fr[i] = "free"
  BY <1>1, FoundIsFree
<1>3. \A i \in start..(start + pages - 1) : i \in DOMAIN fr
  BY <1>2
<1>4. /\ marked \in [0..(N - 1) -> Attributes]
      /\ DOMAIN marked = DOMAIN fr
      /\ \A i \in start..(start + pages - 1) :
           i \in DOMAIN marked /\ marked[i] = "mapped"
      /\ \A i \in DOMAIN fr : marked[i] = fr[i] \/ marked[i] = "mapped"
  BY <1>3 DEF MarkPages, Attributes
<1>5. RunFresh(hdr, start, pages) /\ RunMapped(marked, start, pages)
  BY <1>2, <1>4, LargeIsTyped DEF RunFresh, RunMapped
<1>6. HeapOK(marked, hdr)
  BY MarkingKeepsHeap
<1>7. HeapOK(marked, large) /\ Added(large, hdr, start, pages)
  BY <1>2, <1>5, <1>6, AddingARunKeepsHeap
<1>8. /\ Blocks(large, "large") = Blocks(hdr, "large") \union {LargeBlock(start)}
      /\ \A a \in DOMAIN hdr : large[a] = hdr[a]
      /\ RunIn(large, LargeBlock(start)) = start..(start + pages - 1)
  BY <1>7 DEF Added
<1>9. Kept(marked, large, untouchable)
  <2>1. ASSUME NEW i \in DOMAIN marked, i \in untouchable
        PROVE  marked[i] # "free"
    BY <1>4, <2>1 DEF Kept
  <2>2. ASSUME NEW a \in Blocks(large, "large")
        PROVE  RunIn(large, a) \intersect untouchable = {}
    <3>1. CASE a = LargeBlock(start)
      BY <1>2, <1>3, <1>8, <3>1 DEF Kept
    <3>2. CASE a \in Blocks(hdr, "large")
      <4>1. large[a] = hdr[a]
        BY <1>8, <3>2 DEF Blocks
      <4>2. RunIn(large, a) = RunIn(hdr, a)
        BY <4>1 DEF RunIn
      <4> QED BY <3>2, <4>2 DEF Kept
    <3> QED BY <1>8, <2>2, <3>1, <3>2
  <2> QED BY <2>1, <2>2 DEF Kept
<1> QED BY <1>2, <1>4, <1>7, <1>9

(* The memory after n fills of pools: the lists of the pools filled so far *)
(* have all their blocks.                                                  *)
BootOK(m, n, N, untouchable) ==
  /\ m.frames \in [0..(N - 1) -> Attributes]
  /\ HeapOK(m.frames, m.header)
  /\ Kept(m.frames, m.header, untouchable)
  /\ \E l \in Nat : /\ m.head \in [1..l -> Nat] /\ l <= Len(BlockSizes)
                    /\ n = l \/ (n > l /\ l = Len(BlockSizes))
  /\ \A p \in Pools : /\ p <= n => HasList(m.header, m.head[p], SizedBlocks(m.header, p))
                      /\ p > n => SizedBlocks(m.header, p) = {}

(* The n-th step of BootFills.                                             *)
BootStep(m, n) ==
  LET pages == PageCount(PoolPages * PageSize)
      start == FindRun(m.frames, pages)
      large == WithHeader(m.header, LargeBlock(start), LargeHeader(pages))
      small == n \in Pools
  IN  [frames |-> MarkPages(m.frames, start, pages, "mapped"),
       header |-> IF small THEN Filled(large, n, start, NoBlock) ELSE large,
       head   |-> IF small THEN Append(m.head, LastCut(n, start)) ELSE m.head]

(* Append to a function on 1..n.                                           *)
LEMMA AppendedFunction ==
  ASSUME NEW n \in Nat, NEW h \in [1..n -> Nat], NEW x \in Nat
  PROVE  /\ Append(h, x) \in [1..(n + 1) -> Nat]
         /\ Append(h, x)[n + 1] = x
         /\ \A p \in 1..n : Append(h, x)[p] = h[p]
<1>1. h \in Seq(Nat) /\ Len(h) = n
  OBVIOUS
<1>2. Append(h, x) \in Seq(Nat) /\ Len(Append(h, x)) = n + 1
  BY <1>1
<1>3. Append(h, x) \in [1..(n + 1) -> Nat]
  <2>1. \A s \in Seq(Nat) : s \in [1..Len(s) -> Nat]
    OBVIOUS
  <2>2. Append(h, x) \in [1..Len(Append(h, x)) -> Nat]
    BY <1>2, <2>1
  <2> QED BY <1>2, <2>2
<1>4. Append(h, x)[Len(h) + 1] = x
  BY <1>1
<1>5. \A p \in 1..Len(h) : Append(h, x)[p] = h[p]
  BY <1>1
<1> QED BY <1>1, <1>3, <1>4, <1>5

(* One call of MemoryPoolFillBuffer at boot keeps what the calls before it *)
(* have set up.                                                            *)
LEMMA OneMoreFill ==
  ASSUME NEW N \in Nat \ {0}, NEW m, NEW untouchable, NEW n \in Nat,
         DOMAIN BootStep(m, n + 1).header \subseteq Nat
  PROVE  /\ DOMAIN m.header \subseteq Nat
         /\ BootOK(m, n, N, untouchable) =>
              BootOK(BootStep(m, n + 1), n + 1, N, untouchable)
<1> DEFINE pages == PageCount(PoolPages * PageSize)
           start == FindRun(m.frames, pages)
           large == WithHeader(m.header, LargeBlock(start), LargeHeader(pages))
           marked == MarkPages(m.frames, start, pages, "mapped")
           filled == Filled(large, n + 1, start, NoBlock)
           longer == Append(m.head, LastCut(n + 1, start))
           small == n + 1 \in Pools
           new == BootStep(m, n + 1)
<1>1. /\ new.frames = marked
      /\ new.header = IF small THEN filled ELSE large
      /\ new.head = IF small THEN longer ELSE m.head
  BY DEF BootStep
<1>2. DOMAIN large = DOMAIN m.header \union {LargeBlock(start)}
  BY DEF WithHeader
<1>3. small => IsFilled(filled, large, n + 1, start, NoBlock) \/ start \notin Nat
  <2> HIDE DEF large
  <2> QED BY FilledHeaders
<1>4. DOMAIN large \subseteq DOMAIN new.header
  <2>1. small => DOMAIN large \subseteq DOMAIN filled
    BY DEF Filled
  <2> HIDE DEF large, filled, new
  <2> QED BY <1>1, <2>1
<1>5. DOMAIN m.header \subseteq Nat /\ LargeBlock(start) \in Nat
  BY <1>2, <1>4
<1>6. SUFFICES ASSUME BootOK(m, n, N, untouchable)
               PROVE  BootOK(new, n + 1, N, untouchable)
  BY <1>5
<1>7. pages \in Nat \ {0} /\ pages = PoolPages + 2
  BY PoolRunIsTyped
<1> HIDE DEF pages
<1>a. /\ m.frames \in [0..(N - 1) -> Attributes] /\ HeapOK(m.frames, m.header)
      /\ Kept(m.frames, m.header, untouchable)
  BY <1>6 DEF BootOK
<1>e. /\ start = FindRun(m.frames, pages)
      /\ marked = MarkPages(m.frames, start, pages, "mapped")
      /\ large = WithHeader(m.header, LargeBlock(start), LargeHeader(pages))
  OBVIOUS
<1>f. LargeBlock(start) \in Nat
  BY <1>5
<1> HIDE DEF start, marked, large
<1>b. /\ start \in Nat
      /\ marked \in [0..(N - 1) -> Attributes]
      /\ HeapOK(marked, large)
      /\ Kept(marked, large, untouchable)
      /\ Added(large, m.header, start, pages)
  BY <1>a, <1>e, <1>f, <1>7, FoundIsAdded
<1>c. large[LargeBlock(start)].size = pages * PageSize
  BY <1>b DEF Added, LargeHeader
<1> HIDE DEF filled, longer, new
<1>8. /\ Blocks(large, "small") = Blocks(m.header, "small")
      /\ \A a \in DOMAIN m.header : large[a] = m.header[a]
      /\ EmptyPoolRun(large, start)
  BY <1>b, <1>c, <1>7 DEF Added, EmptyPoolRun
<1>9. \A p \in Pools : SizedBlocks(large, p) = SizedBlocks(m.header, p)
  BY <1>8 DEF SizedBlocks, Blocks
<1>10. \A p \in Pools : p <= n => HasList(large, m.head[p], SizedBlocks(large, p))
  <2>1. ASSUME NEW p \in Pools, p <= n
        PROVE  HasList(large, m.head[p], SizedBlocks(large, p))
    <3>1. HasList(m.header, m.head[p], SizedBlocks(m.header, p))
      BY <1>6, <2>1 DEF BootOK
    <3>2. \A a \in SizedBlocks(m.header, p) : large[a].next = m.header[a].next
      BY <1>8 DEF SizedBlocks, Blocks
    <3>3. HasList(large, m.head[p], SizedBlocks(m.header, p))
      BY <3>1, <3>2, ListIsKept
    <3> QED BY <1>9, <3>3
  <2> QED BY <2>1
<1>11. PICK l \in Nat : /\ m.head \in [1..l -> Nat]
                        /\ l <= Len(BlockSizes)
                        /\ n = l \/ (n > l /\ l = Len(BlockSizes))
  BY <1>6 DEF BootOK
<1>12. CASE ~ small
  <2>1. new.frames = marked /\ new.header = large /\ new.head = m.head
    BY <1>1, <1>12
  <2>2. n + 1 > Len(BlockSizes) /\ n >= Len(BlockSizes)
    BY <1>12, SizesAscend
  <2>3. l = Len(BlockSizes)
    BY <1>11, <2>2, SizesAscend
  <2>4. \A p \in Pools : p <= n
    BY <2>2, SizesAscend
  <2>5. \E k \in Nat : /\ new.head \in [1..k -> Nat]
                       /\ k <= Len(BlockSizes)
                       /\ n + 1 = k \/ (n + 1 > k /\ k = Len(BlockSizes))
    BY <1>11, <2>1, <2>2, <2>3
  <2>6. \A p \in Pools :
          /\ p <= n + 1 => HasList(new.header, new.head[p], SizedBlocks(new.header, p))
          /\ p > n + 1 => SizedBlocks(new.header, p) = {}
    BY <1>10, <2>1, <2>2, <2>4, SizesAscend
  <2>7. /\ new.frames \in [0..(N - 1) -> Attributes]
        /\ HeapOK(new.frames, new.header)
        /\ Kept(new.frames, new.header, untouchable)
    BY <1>b, <2>1
  <2> QED BY <2>5, <2>6, <2>7 DEF BootOK
<1>13. CASE small
  <2>1. new.frames = marked /\ new.header = filled /\ new.head = longer
    BY <1>1, <1>13
  <2> DEFINE P == n + 1
  <2>2. P \in Pools /\ IsFilled(filled, large, P, start, NoBlock)
    BY <1>3, <1>b, <1>13
  <2>3. NoBlock \in Nat \union {NoBlock}
    OBVIOUS
  <2> HIDE DEF P
  <2>4. HeapOK(marked, filled) /\ WereCut(filled, large, P, start)
    BY <1>b, <1>8, <2>2, <2>3, FillingKeepsHeap
  <2>6. /\ Blocks(filled, "large") = Blocks(large, "large")
        /\ \A a \in DOMAIN large : filled[a] = large[a]
    BY <2>4 DEF WereCut
  <2>7. /\ SizedBlocks(filled, P) = SizedBlocks(large, P) \union CutSet(P, start)
        /\ \A q \in Pools : q # P => SizedBlocks(filled, q) = SizedBlocks(large, q)
    <3>1. OnlyPoolGrew(filled, large, P, CutSet(P, start))
      BY <2>2, <2>4, OtherPoolsAreKept
    <3> QED BY <3>1 DEF OnlyPoolGrew
  <2>8. Kept(marked, filled, untouchable)
    <3>1. \A a \in Blocks(filled, "large") : RunIn(filled, a) = RunIn(large, a)
      BY <2>6 DEF RunIn, Blocks
    <3> QED BY <1>b, <2>6, <3>1 DEF Kept
  <2>9. l = n /\ P = n + 1
    BY <1>11, <1>13, SizesAscend DEF P
  <2>10. LastCut(P, start) \in Nat /\ HasList(filled, LastCut(P, start), CutSet(P, start))
    BY <1>b, <2>2, CutsAreAList
  <2>11. /\ longer \in [1..P -> Nat]
         /\ longer[P] = LastCut(P, start)
         /\ \A p \in 1..n : longer[p] = m.head[p]
    <3>1. m.head \in [1..n -> Nat]
      BY <1>11, <2>9
    <3>2. longer = Append(m.head, LastCut(P, start))
      BY DEF longer, P
    <3> DEFINE x == LastCut(P, start)
               h == m.head
    <3>3. h \in [1..n -> Nat] /\ x \in Nat
      BY <2>10, <3>1
    <3> HIDE DEF x, h
    <3>4. /\ Append(h, x) \in [1..(n + 1) -> Nat]
          /\ Append(h, x)[n + 1] = x
          /\ \A p \in 1..n : Append(h, x)[p] = h[p]
      BY <3>3, AppendedFunction
    <3>5. longer = Append(h, x)
      BY <3>2 DEF h, x
    <3>6. /\ longer \in [1..(n + 1) -> Nat]
          /\ longer[n + 1] = x
          /\ \A p \in 1..n : longer[p] = h[p]
      BY <3>4, <3>5
    <3> QED BY <2>9, <3>6 DEF h, x
  <2>12. ASSUME NEW p \in Pools, p <= P
         PROVE  HasList(filled, longer[p], SizedBlocks(filled, p))
    <3>1. CASE p = P
      <4>1. SizedBlocks(large, P) = {}
        BY <1>6, <1>9, <2>2, <2>9 DEF BootOK
      <4> QED BY <2>7, <2>10, <2>11, <3>1, <4>1
    <3>2. CASE p # P
      <4>1. p \in 1..n /\ p <= n
        BY <2>9, <2>12, <3>2, SizesAscend
      <4>2. HasList(large, m.head[p], SizedBlocks(large, p))
        BY <1>10, <4>1
      <4>3. \A a \in SizedBlocks(large, p) : filled[a].next = large[a].next
        BY <2>6 DEF SizedBlocks, Blocks
      <4>4. HasList(filled, m.head[p], SizedBlocks(large, p))
        BY <4>2, <4>3, ListIsKept
      <4> QED BY <2>7, <2>11, <3>2, <4>1, <4>4
    <3> QED BY <3>1, <3>2
  <2>13. ASSUME NEW p \in Pools, p > P
         PROVE  SizedBlocks(filled, p) = {}
    <3>1. p # P /\ p > n
      BY <2>9, <2>13, SizesAscend
    <3> QED BY <1>6, <1>9, <2>7, <3>1 DEF BootOK
  <2>14. P \in Nat
    BY <2>9
  <2>15. \E k \in Nat : /\ new.head \in [1..k -> Nat]
                        /\ k <= Len(BlockSizes)
                        /\ n + 1 = k \/ (n + 1 > k /\ k = Len(BlockSizes))
    <3>1. new.head \in [1..(n + 1) -> Nat]
      BY <2>1, <2>9, <2>11
    <3>2. n + 1 \in Nat
      OBVIOUS
    <3>3. n + 1 <= Len(BlockSizes)
      BY <2>9, <2>2, SizesAscend
    <3> QED BY <3>1, <3>2, <3>3
  <2>16. \A p \in Pools :
           /\ p <= n + 1 => HasList(new.header, new.head[p], SizedBlocks(new.header, p))
           /\ p > n + 1 => SizedBlocks(new.header, p) = {}
    BY <2>1, <2>9, <2>12, <2>13
  <2>17. new.frames \in [0..(N - 1) -> Attributes]
    BY <1>b, <2>1
  <2> QED BY <2>1, <2>4, <2>8, <2>15, <2>16, <2>17 DEF BootOK
<1> QED BY <1>12, <1>13

-----------------------------------------------------------------------------
(* All the fills of MmInitialize: BootFills is the last of the steps.      *)

(* MmInitialize: the pools after the last call, by induction on the calls. *)
LEMMA BootIsFilled ==
  ASSUME NEW N \in Nat \ {0}, NEW fr \in [0..(N - 1) -> Attributes],
         NEW untouchable, \A i \in 0..(N - 1) : i \in untouchable => fr[i] # "free",
         DOMAIN BootFills(fr).header \subseteq Nat
  PROVE  BootOK(BootFills(fr), 2 * Len(BlockSizes), N, untouchable)
<1> DEFINE K == 2 * Len(BlockSizes)
           c == [frames |-> fr, header |-> <<>>, head |-> <<>>]
           Recurs(f, k) == f = [n \in 0..k |-> IF n = 0 THEN c
                                               ELSE BootStep(f[n - 1], n)]
           after == CHOOSE f : Recurs(f, K)
           T == {k \in 0..K : \E f : Recurs(f, k)}
<1>1. K \in Nat
  BY SizesAscend
<1>2. BootFills(fr) = after[K]
  BY DEF BootFills, BootStep
<1>3. 0 \in T
  <2>1. Recurs([n \in 0..0 |-> c], 0)
    OBVIOUS
  <2> HIDE DEF Recurs
  <2> QED BY <1>1, <2>1
<1>4. ASSUME NEW k \in 0..(K - 1), k \in T
      PROVE  k + 1 \in T
  <2>1. PICK f : Recurs(f, k)
    BY <1>4
  <2> DEFINE g == [n \in 0..(k + 1) |-> IF n = k + 1 THEN BootStep(f[k], k + 1)
                                        ELSE f[n]]
  <2>2. k + 1 \in 0..K
    BY <1>1
  <2>3. ASSUME NEW n \in 0..(k + 1)
        PROVE  g[n] = IF n = 0 THEN c ELSE BootStep(g[n - 1], n)
    <3>1. CASE n = 0
      <4>1. g[n] = f[0] /\ 0 \in 0..k
        BY <3>1
      <4> HIDE DEF g
      <4> QED BY <2>1, <3>1, <4>1
    <3>2. CASE n = k + 1
      <4>1. g[n] = BootStep(f[k], k + 1) /\ g[n - 1] = f[k] /\ n # 0
        BY <3>2
      <4> HIDE DEF g
      <4> QED BY <3>2, <4>1
    <3>3. CASE n # 0 /\ n # k + 1
      <4>1. n - 1 \in 0..(k + 1) /\ n - 1 # k + 1 /\ n \in 0..k
        BY <3>3
      <4>2. g[n] = f[n] /\ g[n - 1] = f[n - 1]
        BY <3>3, <4>1
      <4>3. f[n] = BootStep(f[n - 1], n)
        BY <2>1, <3>3, <4>1
      <4> HIDE DEF g
      <4> QED BY <3>3, <4>2, <4>3
    <3> QED BY <3>1, <3>2, <3>3
  <2>4. g = [n \in 0..(k + 1) |-> g[n]]
    OBVIOUS
  <2> HIDE DEF g
  <2>5. Recurs(g, k + 1)
    BY <2>3, <2>4
  <2> HIDE DEF Recurs
  <2> QED BY <2>2, <2>5
<1>5. \E f : Recurs(f, K)
  <2> HIDE DEF T
  <2>1. 0..K \subseteq T
    BY <1>1, <1>3, <1>4, UpTo
  <2>2. K \in T
    BY <1>1, <2>1
  <2> QED BY <2>2 DEF T
<1>6. Recurs(after, K)
  BY <1>5
<1> HIDE DEF after
<1>7. after[0] = c
  BY <1>1, <1>6
<1>8. \A n \in 1..K : after[n] = BootStep(after[n - 1], n)
  <2>1. ASSUME NEW n \in 1..K
        PROVE  after[n] = BootStep(after[n - 1], n)
    <3>1. n \in 0..K /\ n # 0
      BY <1>1
    <3> QED BY <3>1, <1>6
  <2> QED BY <2>1
<1> HIDE DEF Recurs, K, T
<1> DEFINE U == {n \in 0..K : DOMAIN after[n].header \subseteq Nat
                             => BootOK(after[n], n, N, untouchable)}

<1>9. 0 \in U
  <2>1. after[0].frames = fr /\ after[0].header = <<>> /\ after[0].head = <<>>
    BY <1>7
  <2>2. DOMAIN <<>> = {}
    OBVIOUS
  <2>3. \A type : Blocks(<<>>, type) = {}
    BY <2>2 DEF Blocks
  <2>4. HeapOK(fr, <<>>)
    <3>1. HeadersTyped(<<>>)
      BY <2>2 DEF HeadersTyped
    <3> QED BY <2>3, <3>1 DEF HeapOK, RunsInFrames, RunsApart, SmallInRuns, SmallApart
  <2>5. Kept(fr, <<>>, untouchable)
    BY <2>3 DEF Kept
  <2>6. <<>> \in [1..0 -> Nat]
    OBVIOUS
  <2>7. \A p \in Pools : ~ (p <= 0) /\ SizedBlocks(<<>>, p) = {}
    BY <2>3, SizesAscend DEF SizedBlocks
  <2>8. BootOK([frames |-> fr, header |-> <<>>, head |-> <<>>], 0, N, untouchable)
    BY <2>4, <2>5, <2>6, <2>7, SizesAscend DEF BootOK
  <2> QED BY <1>1, <1>7, <2>8
<1>10. ASSUME NEW n \in 0..(K - 1), n \in U
       PROVE  n + 1 \in U
  <2>1. n \in Nat /\ n + 1 \in 0..K /\ n + 1 \in 1..K /\ (n + 1) - 1 = n
    BY <1>1
  <2>2. after[n + 1] = BootStep(after[n], n + 1)
    BY <1>8, <2>1
  <2>3. SUFFICES ASSUME DOMAIN after[n + 1].header \subseteq Nat
                 PROVE  BootOK(after[n + 1], n + 1, N, untouchable)
    BY <2>1
  <2>4. DOMAIN BootStep(after[n], n + 1).header \subseteq Nat
    BY <2>2, <2>3
  <2>5. /\ DOMAIN after[n].header \subseteq Nat
        /\ BootOK(after[n], n, N, untouchable) =>
             BootOK(BootStep(after[n], n + 1), n + 1, N, untouchable)
    BY <2>1, <2>4, OneMoreFill
  <2> QED BY <1>10, <2>2, <2>5
<1>11. K \in U
  <2> HIDE DEF U
  <2>1. 0..K \subseteq U
    BY <1>1, <1>9, <1>10, UpTo
  <2> QED BY <1>1, <2>1
<1>12. BootOK(after[K], K, N, untouchable)
  BY <1>2, <1>11
<1> QED BY <1>2, <1>12 DEF K

-----------------------------------------------------------------------------
(* The initial state.                                                      *)

(* The number of frames in the table.                                      *)
LEMMA FramesAreCounted ==
  ASSUME NEW N \in Nat \ {0}
  PROVE  Cardinality(0..(N - 1)) = N
BY FS_Interval

(* The invariant holds when MmInitialize has returned.                     *)
LEMMA InitInvariant ==
  ASSUME Init
  PROVE  IInv
<1> USE DEF Init
<1> DEFINE N == NumFrames
<1>1. map \in Maps
  OBVIOUS
<1>2. PICK stale \in [0..(FrameCount(TranslateMemoryMap(map)) - 1) -> Stale] :
        LET m == BootFills(InitialFrames(map, stale))
        IN  /\ DOMAIN m.header \subseteq Nat
            /\ frames = m.frames
            /\ header = m.header
            /\ head = m.head
  OBVIOUS
<1> DEFINE fr == InitialFrames(map, stale)
           m == BootFills(fr)
<1>3. /\ DOMAIN m.header \subseteq Nat
      /\ frames = m.frames /\ header = m.header /\ head = m.head
  BY <1>2
<1>4. stale \in [0..(FrameCount(TranslateMemoryMap(map)) - 1) -> Attributes]
  BY PoolAssumption
<1>5. N \in Nat \ {0}
  BY <1>1, FrameCountIsPositive DEF NumFrames
<1>6. fr \in [0..(N - 1) -> Attributes]
  BY <1>1, <1>4, InitialFramesAreTyped DEF NumFrames
<1> DEFINE untouchable ==
             {i \in 0..(N - 1) : \/ i \in KernelFrames
                                 \/ i \in TableFramesOf(N)
                                 \/ InReserved(TranslateMemoryMap(map), i)
                                 \/ Unoffered(TranslateMemoryMap(map), i)}
<1>7. \A i \in 0..(N - 1) : i \in untouchable => fr[i] # "free"
  BY <1>1, <1>4, BootKeepsUntouchable DEF NumFrames
<1> HIDE DEF N, fr, untouchable
<1>8. BootOK(m, 2 * Len(BlockSizes), N, untouchable)
  BY <1>3, <1>5, <1>6, <1>7, BootIsFilled
<1> HIDE DEF m
<1>9. /\ frames \in [0..(N - 1) -> Attributes]
      /\ HeapOK(frames, header)
      /\ Kept(frames, header, untouchable)
      /\ \E l \in Nat : /\ head \in [1..l -> Nat] /\ l <= Len(BlockSizes)
                        /\ \/ 2 * Len(BlockSizes) = l
                           \/ (2 * Len(BlockSizes) > l /\ l = Len(BlockSizes))
      /\ \A p \in Pools : p <= 2 * Len(BlockSizes) =>
                            HasList(header, head[p], SizedBlocks(header, p))
  BY <1>3, <1>8 DEF BootOK
<1>10. head \in [Pools -> Nat]
  BY <1>9, SizesAscend
<1>11. \A t \in Threads : pc[t] = "idle" /\ held[t] = {} /\ block[t] = NoBlock
  OBVIOUS
<1>12. TypesOK
  <2>1. /\ frames \in [0..(NumFrames - 1) -> Attributes]
        /\ head \in [Pools -> Nat \union {NoBlock}]
    BY <1>9, <1>10 DEF N
  <2>2. 1 \in Pools
    BY SizesAscend
  <2>3. pc \in [Threads -> Labels]
    BY DEF Labels
  <2> QED BY <1>1, <2>1, <2>2, <2>3 DEF TypesOK
<1>13. LocksOK /\ RegistersOK /\ ClaimsOK /\ FreeingOK
  BY <1>11 DEF LocksOK, RegistersOK, ClaimsOK, FreeingOK, HasPool, Asking, Refilling,
               InPages, InFree, LocksOf, RegistersOf, ClaimOf, Claims, FreeOne, Frees
<1>14. HeldOK
  BY <1>11 DEF HeldOK
<1>15. ListsOK
  <2>1. \A p \in Pools : FreeOf(p) = SizedBlocks(header, p)
    <3>1. HeldBlocks = {} /\ BeingFreed = {}
      BY <1>11 DEF HeldBlocks, BeingFreed
    <3> QED BY <3>1 DEF FreeOf, SizedBlocks, SmallBlocks, Blocks
  <2>2. \A p \in Pools : p <= 2 * Len(BlockSizes)
    BY SizesAscend
  <2> QED BY <1>9, <2>1, <2>2 DEF ListsOK
<1>16. UntouchedOK
  <2>1. DOMAIN frames = 0..(N - 1) /\ Cardinality(DOMAIN frames) = N
    BY <1>5, <1>9, FramesAreCounted
  <2>2. \A i \in 0..(N - 1) : i \in Untouchable <=> i \in untouchable
    <3>1. TableFrames = TableFramesOf(N)
      <4>1. TableFrames = TableFramesOf(Cardinality(DOMAIN frames))
        BY DEF TableFrames, TableFramesOf
      <4> QED BY <2>1, <4>1
    <3>2. \A i \in 0..(N - 1) :
            i \in ReservedFrames <=> InReserved(TranslateMemoryMap(map), i)
      BY <2>1 DEF ReservedFrames, InReserved
    <3>3. \A i \in 0..(N - 1) :
            i \in UnofferedFrames <=> Unoffered(TranslateMemoryMap(map), i)
      BY <2>1 DEF UnofferedFrames, Unoffered
    <3> QED BY <3>1, <3>2, <3>3 DEF Untouchable, untouchable
  <2>3. \A a \in Blocks(header, "large") : RunIn(header, a) \subseteq 0..(N - 1)
    BY <1>9, <2>1, LargeIsTyped
  <2>4. Kept(frames, header, Untouchable)
    BY <1>9, <2>1, <2>2, <2>3 DEF Kept
  <2> QED BY <1>11, <2>4 DEF UntouchedOK
<1> QED BY <1>9, <1>12, <1>13, <1>14, <1>15, <1>16 DEF IInv

-----------------------------------------------------------------------------
(* What the steps compute.                                                 *)

(* MemoryHeapFindPoolIndex finds a pool whose blocks are large enough, and *)
(* for a block of a pool that pool: what is freed goes back to where it    *)
(* came from.                                                              *)
LEMMA FindPoolIndexIsRight ==
  ASSUME NEW bytes \in Nat, bytes <= MaxSmallSize
  PROVE  /\ FindPoolIndex(bytes) \in Pools
         /\ bytes <= BlockSizes[FindPoolIndex(bytes)]
         /\ \A p \in Pools : bytes = BlockSizes[p] => FindPoolIndex(bytes) = p
<1> DEFINE T == {p \in Pools : bytes <= BlockSizes[p]}
           Right(p) == /\ bytes <= BlockSizes[p]
                       /\ \A q \in Pools : q < p => bytes > BlockSizes[q]
<1>1. T \subseteq Nat /\ T # {}
  BY SizesAscend DEF MaxSmallSize
<1> HIDE DEF T
<1>2. PICK p \in T : \A q \in T : p <= q
  BY <1>1, LeastNumber
<1>3. Right(p) /\ p \in Pools
  <2>1. p \in Pools /\ bytes <= BlockSizes[p]
    BY DEF T
  <2>2. ASSUME NEW q \in Pools, q < p
        PROVE  bytes > BlockSizes[q]
    <3>1. q \notin T
      BY <1>1, <1>2, <2>1, <2>2, SizesAscend
    <3>2. ~ (bytes <= BlockSizes[q]) /\ BlockSizes[q] \in Nat
      BY <3>1, SizesAscend DEF T
    <3> QED BY <3>2
  <2> QED BY <2>1, <2>2
<1>4. \E q \in Pools : Right(q)
  BY <1>3
<1> DEFINE f == FindPoolIndex(bytes)
<1>5. f \in Pools /\ Right(f)
  <2>1. f = CHOOSE q \in Pools : Right(q)
    BY DEF FindPoolIndex
  <2> HIDE DEF f, Right
  <2> QED BY <1>4, <2>1
<1>6. ASSUME NEW q \in Pools, bytes = BlockSizes[q]
      PROVE  f = q
  <2> HIDE DEF f
  <2>1. ~ (q < f)
    BY <1>5, <1>6, SizesAscend
  <2>2. ~ (f < q)
    <3>1. f < q => BlockSizes[f] < BlockSizes[q]
      BY <1>5, PoolAssumption
    <3>2. BlockSizes[f] \in Nat /\ bytes <= BlockSizes[f]
      BY <1>5, SizesAscend
    <3> QED BY <1>6, <3>1, <3>2
  <2> QED BY <1>5, <2>1, <2>2, SizesAscend
<1> QED BY <1>5, <1>6

(* The pages that MemoryHeapAllocBig asks for hold what the client wants   *)
(* and the header before it.                                               *)
LEMMA PageCountIsTyped ==
  ASSUME NEW bytes \in Nat
  PROVE  /\ PageCount(bytes) \in Nat \ {0}
         /\ \A start \in Nat :
              bytes > 0 =>
                ((LargeBlock(start) + Header) + bytes - 1) \div PageSize
                  \in start..(start + PageCount(bytes) - 1)
<1> DEFINE d == bytes \div PageSize
<1>1. d \in Nat /\ d * PageSize <= bytes /\ bytes < d * PageSize + PageSize
  BY Constants, DivBounds
<1>2. PageCount(bytes) = d + 2
  BY DEF PageCount
<1> HIDE DEF d
<1>3. ASSUME NEW start \in Nat, bytes > 0
      PROVE  ((LargeBlock(start) + Header) + bytes - 1) \div PageSize
                  \in start..(start + PageCount(bytes) - 1)
  <2> DEFINE x == (start + 1) * PageSize + (bytes - 1)
             q == x \div PageSize
  <2>1. (LargeBlock(start) + Header) + bytes - 1 = x
    BY LargeAddress
  <2>2. (start + 1) * PageSize \in Nat /\ x \in Int /\ (start + 1) * PageSize <= x
    BY <1>3, Constants
  <2>3. /\ (start + 1 + d) * PageSize = (start + 1) * PageSize + d * PageSize
        /\ d * PageSize \in Nat
    BY <1>1, Constants
  <2>4. x < (start + 1 + d) * PageSize + PageSize
    BY <1>1, <2>2, <2>3, Constants
  <2> HIDE DEF x
  <2>5. start + 1 <= q
    BY <2>2, Constants, DivAtLeast
  <2>6. q <= start + 1 + d
    BY <1>1, <2>2, <2>4, Constants, DivAtMost
  <2>7. q \in Int
    BY <2>2, Constants, DivBounds
  <2> HIDE DEF q
  <2>8. q \in start..(start + PageCount(bytes) - 1)
    BY <1>1, <1>2, <2>5, <2>6, <2>7
  <2> QED BY <2>1, <2>8 DEF q
<1> QED BY <1>1, <1>2, <1>3

(* The number of pages that a thread asks the database for.                *)
LEMMA PagesAreTyped ==
  ASSUME TypesOK, NEW t \in Threads
  PROVE  /\ want[t] \in Nat
         /\ PagesOf(t) \in Nat \ {0}
         /\ Filling(t) => PagesOf(t) = PoolPages + 2
         /\ ~ Filling(t) => PagesOf(t) = PageCount(want[t])
<1>1. want[t] \in Nat
  BY DEF TypesOK
<1>2. PageCount(want[t]) \in Nat \ {0}
  BY <1>1, PageCountIsTyped
<1> QED BY <1>1, <1>2, PoolRunIsTyped DEF PagesOf

(* A small block lies in one run only.                                     *)
LEMMA InsideOneRun ==
  ASSUME NEW fr, NEW hdr, HeapOK(fr, hdr),
         NEW a \in Blocks(hdr, "small"),
         NEW l \in Blocks(hdr, "large"), NEW k \in Blocks(hdr, "large"),
         Inside(hdr, a, l), Inside(hdr, a, k)
  PROVE  l = k
<1>1. a \in Nat /\ hdr[a].size \in Nat \ {0}
  BY SmallIsTyped
<1> DEFINE z == Header + hdr[a].size
<1>2. a + Header + hdr[a].size = a + z /\ z \in Nat \ {0}
  BY <1>1, Constants
<1> HIDE DEF z
<1>3. /\ l + Header <= a /\ a + z <= RunEnd(hdr, l)
      /\ k + Header <= a /\ a + z <= RunEnd(hdr, k)
  BY <1>2 DEF Inside
<1>4. l # k => a + z <= a \/ a + z <= a
  BY <1>1, <1>2, <1>3, InsidesApart
<1> QED BY <1>1, <1>2, <1>4

(* Two heaps that differ in their links at most.                           *)
SameShape(new, hdr) ==
  /\ DOMAIN new = DOMAIN hdr
  /\ \A a \in DOMAIN hdr : new[a].type = hdr[a].type /\ new[a].size = hdr[a].size

(* Which runs and blocks there are, and where, does not depend on how the  *)
(* blocks are linked.                                                      *)
LEMMA ShapeDecides ==
  ASSUME NEW new, NEW hdr, SameShape(new, hdr)
  PROVE  /\ \A type : Blocks(new, type) = Blocks(hdr, type)
         /\ \A a \in DOMAIN hdr : RunIn(new, a) = RunIn(hdr, a)
         /\ \A a, l \in DOMAIN hdr : Inside(new, a, l) <=> Inside(hdr, a, l)
         /\ \A p : SizedBlocks(new, p) = SizedBlocks(hdr, p)
<1>1. \A type : Blocks(new, type) = Blocks(hdr, type)
  BY DEF SameShape, Blocks
<1>2. \A a \in DOMAIN hdr : new[a].size = hdr[a].size
  BY DEF SameShape
<1>3. \A type : Blocks(hdr, type) \subseteq DOMAIN hdr
  BY DEF Blocks
<1>4. \A p : SizedBlocks(new, p) = SizedBlocks(hdr, p)
  BY <1>1, <1>2, <1>3 DEF SizedBlocks
<1> QED BY <1>1, <1>2, <1>4 DEF RunIn, Inside, RunEnd

(* To link blocks differently keeps the heap.                              *)
LEMMA ShapeKeepsHeap ==
  ASSUME NEW fr, NEW hdr, HeapOK(fr, hdr), NEW new, SameShape(new, hdr),
         HeadersTyped(new)
  PROVE  HeapOK(fr, new)
<1>1. /\ \A type : Blocks(new, type) = Blocks(hdr, type)
      /\ \A a \in DOMAIN hdr : RunIn(new, a) = RunIn(hdr, a)
      /\ \A a, l \in DOMAIN hdr : Inside(new, a, l) <=> Inside(hdr, a, l)
  BY ShapeDecides
<1>2. \A a \in DOMAIN hdr : new[a].size = hdr[a].size
  BY DEF SameShape
<1>3. \A type : Blocks(hdr, type) \subseteq DOMAIN hdr
  BY DEF Blocks
<1>4. RunsInFrames(fr, new)
  <2>1. RunsInFrames(fr, hdr)
    BY DEF HeapOK
  <2>2. ASSUME NEW a \in Blocks(hdr, "large")
        PROVE  /\ a = LargeBlock(a \div PageSize)
               /\ new[a].size \div PageSize > 0
               /\ \A i \in RunIn(new, a) : i \in DOMAIN fr /\ fr[i] = "mapped"
    BY <1>1, <1>2, <1>3, <2>1 DEF RunsInFrames
  <2> QED BY <1>1, <2>2 DEF RunsInFrames
<1>5. RunsApart(new)
  <2>1. RunsApart(hdr)
    BY DEF HeapOK
  <2>2. ASSUME NEW a \in Blocks(new, "large"), NEW b \in Blocks(new, "large"), a # b
        PROVE  RunIn(new, a) \intersect RunIn(new, b) = {}
    BY <1>1, <1>3, <2>1, <2>2 DEF RunsApart
  <2> QED BY <2>2 DEF RunsApart
<1>6. SmallInRuns(new)
  <2>1. SmallInRuns(hdr)
    BY DEF HeapOK
  <2>2. ASSUME NEW a \in Blocks(new, "small")
        PROVE  /\ \E p \in Pools : new[a].size = BlockSizes[p]
               /\ \E l \in Blocks(new, "large") : Inside(new, a, l)
    BY <1>1, <1>2, <1>3, <2>1 DEF SmallInRuns
  <2> QED BY <2>2 DEF SmallInRuns
<1>7. SmallApart(new)
  <2>1. SmallApart(hdr)
    BY DEF HeapOK
  <2>2. ASSUME NEW a \in Blocks(new, "small"), NEW b \in Blocks(new, "small"), a < b
        PROVE  a + Header + new[a].size <= b
    BY <1>1, <1>2, <1>3, <2>1, <2>2 DEF SmallApart
  <2> QED BY <2>2 DEF SmallApart
<1> QED BY <1>4, <1>5, <1>6, <1>7 DEF HeapOK

-----------------------------------------------------------------------------
(* What a step of one thread keeps for the others, one lemma for each part *)
(* of the invariant.                                                       *)

(* What a step of thread t may do to what it shares with the others.       *)
OnlyThread(t) ==
  \A u \in Threads : u # t =>
    /\ pc'[u] = pc[u] /\ want'[u] = want[u] /\ pool'[u] = pool[u]
    /\ block'[u] = block[u] /\ run'[u] = run[u] /\ held'[u] = held[u]
LocksMoved(t) ==
  /\ \A p \in Pools : poolLock'[p] = poolLock[p] \/ poolLock[p] \in {t, NoThread}
  /\ pageLock' = pageLock \/ pageLock \in {t, NoThread}
HeadsMoved(t) == \A p \in Pools : head'[p] = head[p] \/ poolLock[p] = t
LinksKept(t) ==
  \A u \in Threads : u # t /\ pc[u] = "freeHead" =>
    header'[block[u]].next = header[block[u]].next
FramesMoved(t) ==
  /\ DOMAIN frames' = DOMAIN frames
  /\ \A i \in DOMAIN frames : /\ frames[i] = "mapped" => frames'[i] = "mapped"
                              /\ frames'[i] = "free" => frames[i] = "free"
  /\ frames' = frames \/ \A u \in Threads : u # t => pc[u] # "mark"
HeapMoved(t) ==
  /\ \A a \in Blocks(header, "large") :
       a \in Blocks(header', "large") /\ header'[a].size = header[a].size
  /\ \A a \in Blocks(header, "small") :
       a \in Blocks(header', "small") /\ header'[a].size = header[a].size
  /\ \A a \in Blocks(header', "large") :
       \/ a \in Blocks(header, "large")
       \/ pc[t] = "header" /\ RunIn(header', a) = Claim(t)
  /\ \A a \in Blocks(header', "small"), l \in Blocks(header, "large") :
       Inside(header', a, l) =>
         \/ a \in Blocks(header, "small") /\ Inside(header, a, l)
         \/ pc[t] = "fill" /\ l = LargeBlock(run[t])
ClaimMoved(t) ==
  /\ Claims(t)' => /\ Claim(t)' = Claim(t)
                   /\ Claims(t) \/ pc[t] = "mark"
  /\ pc'[t] = "header" => pc[t] = "mark"
  /\ pc'[t] = "fill" /\ pc[t] # "fill" => LargeBlock(run'[t]) \notin DOMAIN header
  /\ pc'[t] = "fill" /\ pc[t] = "fill" => run'[t] = run[t]

(* The other threads are where they were.                                  *)
LEMMA OthersStay ==
  ASSUME NEW t \in Threads, OnlyThread(t), NEW u \in Threads, u # t
  PROVE  /\ (HasPool(u) <=> HasPool(u)') /\ (Asking(u) <=> Asking(u)')
         /\ (Refilling(u) <=> Refilling(u)') /\ (Filling(u) <=> Filling(u)')
         /\ (Claims(u) <=> Claims(u)') /\ (Frees(u) <=> Frees(u)')
         /\ Claim(u)' = Claim(u) /\ PagesOf(u)' = PagesOf(u)
<1>1. /\ pc'[u] = pc[u] /\ want'[u] = want[u] /\ pool'[u] = pool[u]
      /\ block'[u] = block[u] /\ run'[u] = run[u] /\ held'[u] = held[u]
  BY DEF OnlyThread
<1>2. Filling(u) <=> Filling(u)'
  BY <1>1 DEF Filling
<1>3. PagesOf(u)' = PagesOf(u)
  BY <1>1, <1>2 DEF PagesOf
<1>4. Claim(u)' = Claim(u)
  BY <1>1, <1>3 DEF Claim
<1> QED BY <1>1, <1>2, <1>3, <1>4 DEF HasPool, Asking, Refilling, Claims, Frees

(* LocksOK is kept by a thread that touches no lock of another.            *)
LEMMA LocksKept ==
  ASSUME TypesOK, LocksOK, NEW t \in Threads, OnlyThread(t), LocksMoved(t),
         LocksOf(t)'
  PROVE  LocksOK'
<1>1. SUFFICES ASSUME NEW u \in Threads, u # t
               PROVE  LocksOf(u)'
  BY DEF LocksOK
<1>2. /\ HasPool(u) <=> HasPool(u)'
      /\ pool'[u] = pool[u] /\ pc'[u] = pc[u] /\ pool[u] \in Pools
  BY <1>1, OthersStay DEF OnlyThread, TypesOK
<1>3. LocksOf(u) /\ u # NoThread
  BY <1>1, PoolAssumption DEF LocksOK
<1>4. HasPool(u)' => poolLock'[pool'[u]] = u
  BY <1>1, <1>2, <1>3 DEF LocksOf, LocksMoved
<1>5. pc'[u] \in {"search", "mark"} => pageLock' = u
  BY <1>1, <1>2, <1>3 DEF LocksOf, LocksMoved
<1> QED BY <1>4, <1>5 DEF LocksOf

(* RegistersOK is kept: the head of a pool's list and the block that is    *)
(* being pushed change under the lock of the pool only.                    *)
LEMMA RegistersKept ==
  ASSUME TypesOK, LocksOK, RegistersOK, NEW t \in Threads, OnlyThread(t),
         HeadsMoved(t), LinksKept(t), RegistersOf(t)'
  PROVE  RegistersOK'
<1>1. SUFFICES ASSUME NEW u \in Threads, u # t
               PROVE  RegistersOf(u)'
  BY DEF RegistersOK
<1>2. /\ pc'[u] = pc[u] /\ want'[u] = want[u] /\ pool'[u] = pool[u]
      /\ block'[u] = block[u] /\ run'[u] = run[u]
      /\ (Asking(u) <=> Asking(u)') /\ (Refilling(u) <=> Refilling(u)')
      /\ (Filling(u) <=> Filling(u)')
  BY <1>1, OthersStay DEF OnlyThread
<1>3. RegistersOf(u) /\ LocksOf(u) /\ pool[u] \in Pools
  BY DEF RegistersOK, LocksOK, TypesOK
<1>4. HasPool(u) => head'[pool[u]] = head[pool[u]]
  BY <1>1, <1>3 DEF HeadsMoved, LocksOf
<1>5. Refilling(u) \/ pc[u] \in {"poolTake", "freeHead"} => HasPool(u)
  BY DEF HasPool
<1>6. pc[u] = "freeHead" => header'[block[u]].next = header[block[u]].next
  BY <1>1 DEF LinksKept
<1> QED BY <1>2, <1>3, <1>4, <1>5, <1>6 DEF RegistersOf

(* Two threads that cut a run cut different ones.                          *)
LEMMA RunsOfClaims ==
  ASSUME TypesOK, RegistersOK, ClaimsOK,
         NEW t \in Threads, NEW u \in Threads, t # u,
         pc[t] = "fill", pc[u] = "fill"
  PROVE  LargeBlock(run[t]) # LargeBlock(run[u])
<1>1. run[t] \in Nat /\ run[u] \in Nat
  BY DEF TypesOK, RegistersOK, RegistersOf
<1>2. PagesOf(t) \in Nat \ {0} /\ PagesOf(u) \in Nat \ {0}
  BY PagesAreTyped
<1>3. run[t] \in Claim(t) /\ run[u] \in Claim(u)
  BY <1>1, <1>2 DEF Claim
<1>4. Claim(t) \intersect Claim(u) = {}
  BY DEF ClaimsOK, Claims
<1>5. run[t] # run[u]
  BY <1>3, <1>4
<1> QED BY <1>1, <1>5, LargeAddress

(* ClaimsOK is kept: a frame is marked only by the thread that has the lock*)
(* of the database, and a run gets its blocks from the thread that marked  *)
(* it.                                                                     *)
LEMMA ClaimsKept ==
  ASSUME TypesOK, RegistersOK, ClaimsOK, NEW t \in Threads, OnlyThread(t),
         FramesMoved(t), HeapMoved(t), ClaimMoved(t), ClaimOf(t)'
  PROVE  ClaimsOK'
<1>1. ASSUME NEW u \in Threads, u # t
      PROVE  ClaimOf(u)'
  <2>1. /\ pc'[u] = pc[u] /\ run'[u] = run[u] /\ (Claims(u) <=> Claims(u)')
        /\ Claim(u)' = Claim(u) /\ PagesOf(u)' = PagesOf(u)
    BY <1>1, OthersStay DEF OnlyThread
  <2>2. ClaimOf(u)
    BY DEF ClaimsOK
  <2>3. ASSUME pc[u] = "mark"
        PROVE  \A i \in Claim(u) : i \in DOMAIN frames' /\ frames'[i] = "free"
    <3>1. frames' = frames
      BY <1>1, <2>3 DEF FramesMoved
    <3> QED BY <2>2, <2>3, <3>1 DEF ClaimOf
  <2>4. ASSUME Claims(u)
        PROVE  \A i \in Claim(u) : i \in DOMAIN frames' /\ frames'[i] = "mapped"
    BY <2>2, <2>4 DEF ClaimOf, FramesMoved
  <2>5. ASSUME pc[u] = "header", NEW a \in Blocks(header', "large")
        PROVE  RunIn(header', a) \intersect Claim(u) = {}
    <3>1. CASE a \in Blocks(header, "large")
      <4>1. RunIn(header', a) = RunIn(header, a)
        BY <3>1 DEF HeapMoved, RunIn
      <4> QED BY <2>2, <2>5, <3>1, <4>1 DEF ClaimOf
    <3>2. CASE pc[t] = "header" /\ RunIn(header', a) = Claim(t)
      BY <1>1, <2>5, <3>2 DEF ClaimsOK, Claims
    <3> QED BY <3>1, <3>2 DEF HeapMoved
  <2>6. ASSUME pc[u] = "fill"
        PROVE  /\ LargeBlock(run[u]) \in Blocks(header', "large")
               /\ header'[LargeBlock(run[u])].size = PagesOf(u) * PageSize
               /\ \A a \in Blocks(header', "small") :
                    ~ Inside(header', a, LargeBlock(run[u]))
    <3>1. /\ LargeBlock(run[u]) \in Blocks(header, "large")
          /\ header[LargeBlock(run[u])].size = PagesOf(u) * PageSize
          /\ \A a \in Blocks(header, "small") :
               ~ Inside(header, a, LargeBlock(run[u]))
      BY <2>2, <2>6 DEF ClaimOf
    <3>2. pc[t] = "fill" => LargeBlock(run[u]) # LargeBlock(run[t])
      BY <1>1, <2>6, RunsOfClaims
    <3> QED BY <3>1, <3>2 DEF HeapMoved
  <2> QED BY <2>1, <2>3, <2>4, <2>5, <2>6 DEF ClaimOf
<1>2. ASSUME NEW u \in Threads, u # t, Claims(u)', Claims(t)'
      PROVE  Claim(t)' \intersect Claim(u)' = {}
  <2>1. Claims(u) /\ Claim(u)' = Claim(u) /\ Claim(t)' = Claim(t)
    BY <1>2, OthersStay DEF ClaimMoved
  <2>2. CASE Claims(t)
    BY <1>2, <2>1, <2>2 DEF ClaimsOK
  <2>3. CASE pc[t] = "mark"
    <3>1. \A i \in Claim(t) : frames[i] = "free"
      BY <2>3 DEF ClaimsOK, ClaimOf
    <3>2. \A i \in Claim(u) : frames[i] = "mapped"
      BY <2>1 DEF ClaimsOK, ClaimOf
    <3> QED BY <2>1, <3>1, <3>2
  <2> QED BY <1>2, <2>2, <2>3 DEF ClaimMoved
<1>3. \A u \in Threads : ClaimOf(u)'
  BY <1>1
<1>4. ASSUME NEW u \in Threads, NEW w \in Threads, u # w, Claims(u)', Claims(w)'
      PROVE  Claim(u)' \intersect Claim(w)' = {}
  <2>1. CASE u = t
    BY <1>2, <1>4, <2>1
  <2>2. CASE w = t
    BY <1>2, <1>4, <2>2
  <2>3. CASE u # t /\ w # t
    <3>1. Claims(u) /\ Claims(w) /\ Claim(u)' = Claim(u) /\ Claim(w)' = Claim(w)
      BY <1>4, <2>3, OthersStay
    <3> QED BY <1>4, <3>1 DEF ClaimsOK
  <2> QED BY <2>1, <2>2, <2>3
<1> QED BY <1>3, <1>4 DEF ClaimsOK

(* What a client holds stays where it is and as large as it is.            *)
LEMMA ServedStays ==
  ASSUME TypesOK, HeadersTyped(header), HeldOK, NEW t \in Threads, OnlyThread(t),
         HeapMoved(t), ClaimMoved(t),
         NEW u \in Threads, NEW it \in held[u]
  PROVE  Served(it)'
<1> DEFINE a == it.mem - Header
<1>1. Served(it)
  BY DEF HeldOK
<1>2. a \in DOMAIN header /\ header[a].type \in {"small", "large"}
  BY <1>1 DEF Served, HeadersTyped, Headers
<1> HIDE DEF a
<1>3. CASE header[a].type = "small"
  <2>1. a \in Blocks(header, "small")
    BY <1>2, <1>3 DEF Blocks
  <2>2. a \in Blocks(header', "small") /\ header'[a].size = header[a].size
    BY <2>1 DEF HeapMoved
  <2>3. a \in DOMAIN header' /\ header'[a].type = "small"
    BY <2>2 DEF Blocks
  <2>4. it.bytes <= header'[a].size
    BY <1>1, <1>3, <2>2 DEF Served, a
  <2> QED BY <2>3, <2>4 DEF Served, a
<1>4. CASE header[a].type = "large"
  <2>1. a \in Blocks(header, "large")
    BY <1>2, <1>4 DEF Blocks
  <2>2. a \in Blocks(header', "large") /\ header'[a].size = header[a].size
    BY <2>1 DEF HeapMoved
  <2>3. a \in DOMAIN header' /\ header'[a].type = "large"
    BY <2>2 DEF Blocks
  <2>4. RunIn(header', a) = RunIn(header, a)
    BY <2>2 DEF RunIn
  <2>5. /\ (it.mem + it.bytes - 1) \div PageSize \in RunIn(header, a)
        /\ \A b \in Blocks(header, "small") : ~ Inside(header, b, a)
        /\ \A w \in Threads : pc[w] = "fill" => a # LargeBlock(run[w])
    BY <1>1, <1>4 DEF Served, a
  <2>6. \A b \in Blocks(header', "small") : ~ Inside(header', b, a)
    BY <2>1, <2>5 DEF HeapMoved
  <2>7. ASSUME NEW w \in Threads, pc'[w] = "fill"
        PROVE  a # LargeBlock(run'[w])
    <3>1. CASE w = t
      BY <1>2, <2>5, <2>7, <3>1 DEF ClaimMoved
    <3>2. CASE w # t
      BY <2>5, <2>7, <3>2 DEF OnlyThread
    <3> QED BY <3>1, <3>2
  <2>8. (it.mem + it.bytes - 1) \div PageSize \in RunIn(header', a)
    BY <2>4, <2>5
  <2> QED BY <2>3, <2>6, <2>7, <2>8 DEF Served, a
<1> QED BY <1>2, <1>3, <1>4

(* Nothing is held that was not before.                                    *)
LEMMA HeldKept ==
  ASSUME TypesOK, HeadersTyped(header), HeldOK, NEW t \in Threads, OnlyThread(t),
         HeapMoved(t), ClaimMoved(t), held'[t] \subseteq held[t]
  PROVE  /\ HeldOK'
         /\ HeldBlocks' \subseteq HeldBlocks
<1>1. \A u \in Threads : held'[u] \subseteq held[u]
  BY DEF OnlyThread
<1>2. \A u \in Threads : \A it \in held'[u] : Served(it)'
  BY <1>1, ServedStays
<1>3. \A u, w \in Threads : \A it \in held'[u], jt \in held'[w] :
        it.mem = jt.mem => u = w /\ it = jt
  BY <1>1 DEF HeldOK
<1>4. HeldOK'
  BY <1>2, <1>3 DEF HeldOK
<1> QED BY <1>1, <1>4 DEF HeldBlocks

(* One block more is held.                                                 *)
LEMMA HeldGrows ==
  ASSUME TypesOK, HeadersTyped(header), HeldOK, NEW t \in Threads, OnlyThread(t),
         HeapMoved(t), ClaimMoved(t), NEW a \in Nat, NEW it,
         it.mem = a + Header, held'[t] = held[t] \union {it},
         Served(it)', a \notin HeldBlocks
  PROVE  /\ HeldOK'
         /\ HeldBlocks' = HeldBlocks \union {a}
<1>1. \A u \in Threads : u # t => held'[u] = held[u]
  BY DEF OnlyThread
<1>2. it.mem - Header = a
  BY Constants
<1>3. ASSUME NEW u \in Threads, NEW jt \in held[u]
      PROVE  jt.mem # it.mem
  <2>1. jt.mem - Header \in HeldBlocks
    BY DEF HeldBlocks
  <2> QED BY <1>2, <2>1
<1>4. \A u \in Threads : \A jt \in held'[u] : Served(jt)'
  BY <1>1, ServedStays
<1>5. ASSUME NEW u \in Threads, NEW w \in Threads,
             NEW jt \in held'[u], NEW kt \in held'[w], jt.mem = kt.mem
      PROVE  u = w /\ jt = kt
  <2>1. jt \in held[u] \/ (u = t /\ jt = it)
    BY <1>1
  <2>2. kt \in held[w] \/ (w = t /\ kt = it)
    BY <1>1
  <2>3. jt \in held[u] /\ kt \in held[w] => u = w /\ jt = kt
    BY <1>5 DEF HeldOK
  <2> QED BY <1>3, <1>5, <2>1, <2>2, <2>3
<1>6. HeldOK'
  BY <1>4, <1>5 DEF HeldOK
<1>7. HeldBlocks' = HeldBlocks \union {a}
  <2>1. ASSUME NEW b \in HeldBlocks'
        PROVE  b \in HeldBlocks \union {a}
    BY <1>1, <1>2 DEF HeldBlocks
  <2>2. a \in HeldBlocks'
    BY <1>2 DEF HeldBlocks
  <2>3. HeldBlocks \subseteq HeldBlocks'
    BY <1>1 DEF HeldBlocks
  <2> QED BY <2>1, <2>2, <2>3
<1> QED BY <1>6, <1>7

(* FreeingOK is kept: nobody gets a block that is on its way back.         *)
LEMMA FreeingKept ==
  ASSUME TypesOK, FreeingOK, NEW t \in Threads, OnlyThread(t), HeapMoved(t),
         Frees(t)' => Frees(t) /\ block'[t] = block[t] /\ pool'[t] = pool[t],
         \A u \in Threads : Frees(u) => block[u] \notin HeldBlocks'
  PROVE  FreeingOK'
<1>1. ASSUME NEW u \in Threads, Frees(u)'
      PROVE  Frees(u) /\ block'[u] = block[u] /\ pool'[u] = pool[u]
  BY <1>1, OthersStay DEF OnlyThread
<1>2. ASSUME NEW u \in Threads, Frees(u)'
      PROVE  /\ block'[u] \in Blocks(header', "small")
             /\ header'[block'[u]].size = BlockSizes[pool'[u]]
             /\ block'[u] \notin HeldBlocks'
  <2>1. /\ block[u] \in Blocks(header, "small")
        /\ header[block[u]].size = BlockSizes[pool[u]]
    BY <1>1, <1>2 DEF FreeingOK, FreeOne
  <2>2. /\ block[u] \in Blocks(header', "small")
        /\ header'[block[u]].size = header[block[u]].size
    BY <2>1 DEF HeapMoved
  <2> QED BY <1>1, <1>2, <2>1, <2>2
<1>3. \A u \in Threads : FreeOne(u)'
  BY <1>2 DEF FreeOne
<1>4. \A u, w \in Threads :
        Frees(u)' /\ Frees(w)' /\ block'[u] = block'[w] => u = w
  BY <1>1 DEF FreeingOK
<1> QED BY <1>3, <1>4 DEF FreeingOK

(* Which frames must not be taken is decided at boot.                      *)
LEMMA UntouchableStays ==
  ASSUME map' = map, DOMAIN frames' = DOMAIN frames
  PROVE  Untouchable' = Untouchable
BY DEF Untouchable, TableFrames, ReservedFrames, UnofferedFrames

(* UntouchedOK is kept: frames are only taken off the free ones.           *)
LEMMA UntouchedKept ==
  ASSUME TypesOK, ClaimsOK, UntouchedOK, NEW t \in Threads, OnlyThread(t),
         map' = map, FramesMoved(t), HeapMoved(t), ClaimMoved(t)
  PROVE  UntouchedOK'
<1>1. Untouchable' = Untouchable
  BY UntouchableStays DEF FramesMoved
<1>2. \A i \in DOMAIN frames' : i \in Untouchable => frames'[i] # "free"
  BY DEF UntouchedOK, Kept, FramesMoved
<1>3. ASSUME NEW a \in Blocks(header', "large")
      PROVE  RunIn(header', a) \intersect Untouchable = {}
  <2>1. CASE a \in Blocks(header, "large")
    <3>1. RunIn(header', a) = RunIn(header, a)
      BY <2>1 DEF HeapMoved, RunIn
    <3> QED BY <2>1, <3>1 DEF UntouchedOK, Kept
  <2>2. CASE pc[t] = "header" /\ RunIn(header', a) = Claim(t)
    BY <2>2 DEF UntouchedOK
  <2> QED BY <2>1, <2>2 DEF HeapMoved
<1>4. ASSUME NEW u \in Threads, pc'[u] = "header"
      PROVE  Claim(u)' \intersect Untouchable = {}
  <2>1. CASE u = t
    <3>1. pc[t] = "mark" /\ Claim(t)' = Claim(t)
      BY <1>4, <2>1 DEF ClaimMoved, Claims
    <3>2. \A i \in Claim(t) : i \in DOMAIN frames /\ frames[i] = "free"
      BY <3>1 DEF ClaimsOK, ClaimOf
    <3> QED BY <2>1, <3>1, <3>2 DEF UntouchedOK, Kept
  <2>2. CASE u # t
    <3>1. pc[u] = "header" /\ Claim(u)' = Claim(u)
      BY <1>4, <2>2, OthersStay DEF OnlyThread
    <3> QED BY <3>1 DEF UntouchedOK
  <2> QED BY <2>1, <2>2
<1> QED BY <1>1, <1>2, <1>3, <1>4 DEF UntouchedOK, Kept

(* ListsOK is kept by a step that links no block that is on a list.        *)
LEMMA ListsKept ==
  ASSUME ListsOK, head' = head, \A p \in Pools : FreeOf(p)' = FreeOf(p),
         \A p \in Pools : \A a \in FreeOf(p) : header'[a].next = header[a].next
  PROVE  ListsOK'
<1>1. ASSUME NEW p \in Pools
      PROVE  HasList(header', head'[p], FreeOf(p)')
  <2>1. HasList(header, head[p], FreeOf(p))
    BY DEF ListsOK
  <2>2. HasList(header', head[p], FreeOf(p))
    BY <2>1, ListIsKept
  <2> QED BY <2>2
<1> QED BY <1>1 DEF ListsOK

-----------------------------------------------------------------------------
(* The steps that move no block.                                           *)

(* What each step does for itself and leaves to the others.                *)
Keeps(t) == /\ TypesOK' /\ OnlyThread(t) /\ LocksMoved(t) /\ ClaimMoved(t)
            /\ LocksOf(t)' /\ RegistersOf(t)' /\ ClaimOf(t)'
            /\ map' = map
(* Thread t neither gives nor takes a block in the step.                   *)
KeepsHeld(t) ==
  /\ held' = held
  /\ Frees(t)' <=> Frees(t)
  /\ Frees(t) => block'[t] = block[t] /\ pool'[t] = pool[t]

(* A step that writes no header moves nothing in the heap.                 *)
LEMMA SameHeapIsMoved ==
  ASSUME header' = header, NEW t
  PROVE  HeapMoved(t)
BY DEF HeapMoved

(* A step that neither gives nor takes leaves each block with who has it.  *)
LEMMA HeldStays ==
  ASSUME NEW t \in Threads, OnlyThread(t), KeepsHeld(t)
  PROVE  HeldBlocks' = HeldBlocks /\ BeingFreed' = BeingFreed
<1>1. HeldBlocks' = HeldBlocks
  BY DEF HeldBlocks, KeepsHeld
<1>2. \A u \in Threads : Frees(u)' <=> Frees(u)
  BY OthersStay DEF KeepsHeld
<1>3. \A u \in Threads : Frees(u) => block'[u] = block[u]
  BY DEF KeepsHeld, OnlyThread
<1>4. BeingFreed = {block[u] : u \in {w \in Threads : Frees(w)}}
  BY DEF BeingFreed, Frees, InFree
<1>5. BeingFreed' = {block'[u] : u \in {w \in Threads : Frees(w)'}}
  BY DEF BeingFreed, Frees, InFree
<1>6. {block'[u] : u \in {w \in Threads : Frees(w)'}}
        = {block[u] : u \in {w \in Threads : Frees(w)}}
  BY <1>2, <1>3
<1> QED BY <1>1, <1>4, <1>5, <1>6

(* A step that only moves thread t on, or marks frames.                    *)
LEMMA QuietStep ==
  ASSUME IInv, NEW t \in Threads, Keeps(t), KeepsHeld(t), FramesMoved(t),
         header' = header, head' = head
  PROVE  IInv'
<1> USE DEF IInv, Keeps
<1>1. HeapMoved(t)
  BY SameHeapIsMoved
<1>2. HeldBlocks' = HeldBlocks /\ BeingFreed' = BeingFreed
  BY HeldStays
<1>3. HeapOK(frames', header')
  <2>1. RunsInFrames(frames', header)
    <3>1. RunsInFrames(frames, header)
      BY DEF HeapOK
    <3>2. ASSUME NEW a \in Blocks(header, "large")
          PROVE  /\ a = LargeBlock(a \div PageSize)
                 /\ header[a].size \div PageSize > 0
                 /\ \A i \in RunIn(header, a) :
                      i \in DOMAIN frames' /\ frames'[i] = "mapped"
      BY <3>1 DEF RunsInFrames, FramesMoved
    <3> QED BY <3>2 DEF RunsInFrames
  <2> QED BY <2>1 DEF HeapOK
<1>4. HeadsMoved(t) /\ LinksKept(t)
  BY DEF HeadsMoved, LinksKept
<1>5. LocksOK'
  BY LocksKept
<1>6. RegistersOK'
  BY <1>4, RegistersKept
<1>7. ClaimsOK'
  BY <1>1, ClaimsKept
<1>8. HeadersTyped(header) /\ held'[t] \subseteq held[t]
  BY DEF HeapOK, KeepsHeld
<1>9. HeldOK'
  BY <1>1, <1>8, HeldKept
<1>10. FreeingOK'
  <2>1. \A u \in Threads : Frees(u) => block[u] \notin HeldBlocks'
    BY <1>2 DEF FreeingOK, FreeOne
  <2>2. Frees(t)' => Frees(t) /\ block'[t] = block[t] /\ pool'[t] = pool[t]
    BY DEF KeepsHeld
  <2> QED BY <1>1, <2>1, <2>2, FreeingKept
<1>11. ListsOK'
  <2>1. \A p \in Pools : FreeOf(p)' = FreeOf(p)
    BY <1>2 DEF FreeOf, SizedBlocks
  <2> QED BY <2>1, ListsKept
<1>12. UntouchedOK'
  BY <1>1, UntouchedKept
<1> QED BY <1>3, <1>5, <1>6, <1>7, <1>9, <1>10, <1>11, <1>12

(* A step that marks no frame moves none.                                  *)
LEMMA SameFramesAreMoved ==
  ASSUME frames' = frames, NEW t, TypesOK
  PROVE  FramesMoved(t)
BY DEF FramesMoved

(* A request is taken up (MmAllocatePoolMemory).                           *)
LEMMA RequestKeeps ==
  ASSUME IInv, NEW t \in Threads, NEW bytes \in Requests, Request(t, bytes)
  PROVE  IInv'
<1> USE DEF Request, At, Go, Set, pools, database
<1>1. bytes \in Nat \ {0}
  BY PoolAssumption
<1>2. TypesOK /\ pc[t] = "idle"
  BY DEF IInv
<1>3. bytes <= MaxSmallSize =>
        FindPoolIndex(bytes) \in Pools /\ bytes <= BlockSizes[FindPoolIndex(bytes)]
  BY <1>1, FindPoolIndexIsRight
<1>4. OnlyThread(t)
  BY <1>2 DEF OnlyThread, TypesOK
<1>5. TypesOK'
  BY <1>1, <1>2, <1>3 DEF TypesOK, NumFrames, Labels
<1>6. /\ want'[t] = bytes
      /\ \/ bytes <= MaxSmallSize /\ pc'[t] = "poolLock"
                                  /\ pool'[t] = FindPoolIndex(bytes)
         \/ bytes > MaxSmallSize /\ pc'[t] = "pageLock"
  BY <1>1, <1>2, SizesAscend DEF TypesOK
<1>7. ~ Refilling(t)'
  BY <1>1, <1>6, SizesAscend DEF Refilling, Filling, InPages
<1>8. LocksMoved(t) /\ ClaimMoved(t) /\ LocksOf(t)' /\ ClaimOf(t)'
  BY <1>6, <1>7 DEF LocksMoved, ClaimMoved, Claims, LocksOf, HasPool, ClaimOf
<1>9. RegistersOf(t)'
  BY <1>1, <1>3, <1>6, <1>7 DEF RegistersOf, Asking
<1>10. Keeps(t)
  BY <1>4, <1>5, <1>8, <1>9 DEF Keeps
<1>11. KeepsHeld(t) /\ FramesMoved(t) /\ header' = header /\ head' = head
  BY <1>2, <1>6, SameFramesAreMoved DEF KeepsHeld, Frees, InFree
<1> QED BY <1>10, <1>11, QuietStep

(* The lock of a pool is entered (MemoryPoolAlloc).                        *)
LEMMA PoolLockKeeps ==
  ASSUME IInv, NEW t \in Threads, PoolLock(t)
  PROVE  IInv'
<1> USE DEF PoolLock, At, Go, Set, registers, database
<1>1. TypesOK /\ pc[t] = "poolLock" /\ pool[t] \in Pools
  BY DEF IInv, TypesOK
<1>2. OnlyThread(t)
  BY <1>1 DEF OnlyThread, TypesOK
<1>3. TypesOK'
  BY <1>1 DEF TypesOK, NumFrames, Labels
<1>4. pc'[t] = "poolTest" /\ poolLock'[pool[t]] = t
  BY <1>1 DEF TypesOK
<1>5. LocksMoved(t)
  BY <1>1 DEF LocksMoved, TypesOK
<1>6. ClaimMoved(t) /\ ClaimOf(t)'
  BY <1>4 DEF ClaimMoved, Claims, ClaimOf
<1>7. LocksOf(t)'
  BY <1>4 DEF LocksOf, HasPool, Refilling
<1>8. RegistersOf(t)'
  <2>1. want[t] <= BlockSizes[pool[t]] /\ want[t] > 0
    BY <1>1 DEF IInv, RegistersOK, RegistersOf, Asking
  <2> QED BY <1>4, <2>1 DEF RegistersOf, Asking, Refilling, InPages
<1>9. Keeps(t)
  BY <1>2, <1>3, <1>5, <1>6, <1>7, <1>8 DEF Keeps
<1>10. KeepsHeld(t) /\ FramesMoved(t) /\ header' = header /\ head' = head
  BY <1>1, <1>4, SameFramesAreMoved DEF KeepsHeld, Frees, InFree
<1> QED BY <1>9, <1>10, QuietStep

(* The list of the pool is looked at.                                      *)
LEMMA PoolTestKeeps ==
  ASSUME IInv, NEW t \in Threads, PoolTest(t)
  PROVE  IInv'
<1> USE DEF PoolTest, At, Go, Set, pools, database
<1>1. /\ TypesOK /\ pc[t] = "poolTest" /\ pool[t] \in Pools
      /\ head[pool[t]] \in Nat \union {NoBlock}
  BY DEF IInv, TypesOK
<1>2. OnlyThread(t)
  BY <1>1 DEF OnlyThread, TypesOK
<1>3. TypesOK'
  BY <1>1 DEF TypesOK, NumFrames, Labels
<1>4. /\ pool'[t] = pool[t] /\ want'[t] = want[t] /\ head' = head
      /\ \/ head[pool[t]] = NoBlock /\ pc'[t] = "pageLock"
         \/ head[pool[t]] # NoBlock /\ pc'[t] = "poolTake" /\ block'[t] = head[pool[t]]
  BY <1>1 DEF TypesOK
<1>5. poolLock[pool[t]] = t
  BY <1>1 DEF IInv, LocksOK, LocksOf, HasPool
<1>6. want[t] <= BlockSizes[pool[t]] /\ want[t] > 0
  BY <1>1 DEF IInv, RegistersOK, RegistersOf, Asking
<1>7. LocksMoved(t) /\ ClaimMoved(t) /\ ClaimOf(t)'
  BY <1>4 DEF LocksMoved, ClaimMoved, Claims, ClaimOf
<1>8. LocksOf(t)'
  BY <1>4, <1>5 DEF LocksOf
<1>9. RegistersOf(t)'
  BY <1>4, <1>6 DEF RegistersOf, Refilling, InPages
<1>10. Keeps(t)
  BY <1>2, <1>3, <1>7, <1>8, <1>9 DEF Keeps
<1>11. KeepsHeld(t) /\ FramesMoved(t) /\ header' = header /\ head' = head
  BY <1>1, <1>4, SameFramesAreMoved DEF KeepsHeld, Frees, InFree
<1> QED BY <1>10, <1>11, QuietStep

(* The lock of the database is entered, with that of a pool held or        *)
(* without.                                                                *)
LEMMA PageLockKeeps ==
  ASSUME IInv, NEW t \in Threads, PageLock(t)
  PROVE  IInv'
<1> USE DEF PageLock, At, Go, Set, registers, pools
<1>1. TypesOK /\ pc[t] = "pageLock"
  BY DEF IInv
<1>2. OnlyThread(t)
  BY <1>1 DEF OnlyThread, TypesOK
<1>3. TypesOK'
  BY <1>1 DEF TypesOK, NumFrames, Labels
<1>4. pc'[t] = "search" /\ pageLock' = t
  BY <1>1 DEF TypesOK
<1>5. Refilling(t) <=> Refilling(t)'
  BY <1>1, <1>4 DEF Refilling, InPages, Filling
<1>6. LocksMoved(t) /\ ClaimMoved(t) /\ ClaimOf(t)'
  BY <1>4 DEF LocksMoved, ClaimMoved, Claims, ClaimOf
<1>7. LocksOf(t)'
  BY <1>1, <1>4, <1>5 DEF IInv, LocksOK, LocksOf, HasPool
<1>8. RegistersOf(t)'
  BY <1>1, <1>4, <1>5 DEF IInv, RegistersOK, RegistersOf, Asking, InPages
<1>9. Keeps(t)
  BY <1>2, <1>3, <1>6, <1>7, <1>8 DEF Keeps
<1>10. KeepsHeld(t) /\ FramesMoved(t) /\ header' = header /\ head' = head
  BY <1>1, <1>4, SameFramesAreMoved DEF KeepsHeld, Frees, InFree
<1> QED BY <1>9, <1>10, QuietStep

(* What the search finds is in the table, and free.                        *)
LEMMA SearchFinds ==
  ASSUME TypesOK, NEW t \in Threads, FindRun(frames, PagesOf(t)) # NoRun
  PROVE  /\ FindRun(frames, PagesOf(t)) \in Nat
         /\ \A i \in FindRun(frames, PagesOf(t))
                       ..(FindRun(frames, PagesOf(t)) + PagesOf(t) - 1) :
              i \in DOMAIN frames /\ frames[i] = "free"
<1> DEFINE start == FindRun(frames, PagesOf(t))
           pages == PagesOf(t)
           N == NumFrames
<1>1. pages \in Nat \ {0}
  BY PagesAreTyped
<1>2. N \in Nat \ {0}
  BY FrameCountIsPositive DEF NumFrames, TypesOK
<1>3. frames \in [0..(N - 1) -> Attributes]
  BY DEF TypesOK
<1> HIDE DEF N, pages
<1>4. /\ start \in 0..(N - 1)
      /\ start + pages <= N - 1
      /\ \A i \in start..(start + pages - 1) : frames[i] = "free"
  BY <1>1, <1>2, <1>3, FoundIsFree DEF pages
<1> HIDE DEF start
<1>5. \A i \in start..(start + pages - 1) : i \in DOMAIN frames
  BY <1>1, <1>2, <1>3, <1>4
<1> QED BY <1>2, <1>4, <1>5 DEF start, pages

(* The search has found a run, which is free as long as the lock is held.  *)
LEMMA PageFoundKeeps ==
  ASSUME IInv, NEW t \in Threads, PageFound(t)
  PROVE  IInv'
<1> USE DEF At, Go, Set, pools
<1> DEFINE start == FindRun(frames, PagesOf(t))
<1>1. TypesOK /\ pc[t] = "search" /\ start # NoRun
  BY DEF IInv, PageFound
<1>2. /\ start \in Nat
      /\ \A i \in start..(start + PagesOf(t) - 1) :
           i \in DOMAIN frames /\ frames[i] = "free"
  BY <1>1, SearchFinds
<1>3. /\ run' = [run EXCEPT ![t] = start] /\ pageLock' = pageLock
      /\ pc' = [pc EXCEPT ![t] = "mark"]
      /\ UNCHANGED <<map, frames, header, head, poolLock, want, pool, block, held>>
  BY DEF PageFound
<1> HIDE DEF start
<1>4. OnlyThread(t)
  BY <1>1, <1>3 DEF OnlyThread, TypesOK
<1>5. TypesOK'
  BY <1>1, <1>2, <1>3 DEF TypesOK, NumFrames, Labels
<1>6. pc'[t] = "mark" /\ run'[t] = start
  BY <1>1, <1>3 DEF TypesOK
<1>7. PagesOf(t)' = PagesOf(t)
  BY <1>3 DEF PagesOf, Filling
<1>8. Refilling(t) <=> Refilling(t)'
  BY <1>1, <1>3, <1>6 DEF Refilling, InPages, Filling
<1>9. LocksMoved(t) /\ ClaimMoved(t)
  BY <1>3, <1>6 DEF LocksMoved, ClaimMoved, Claims
<1>10. ClaimOf(t)'
  BY <1>2, <1>3, <1>6, <1>7 DEF ClaimOf, Claim, Claims
<1>11. LocksOf(t)'
  BY <1>1, <1>3, <1>6, <1>8 DEF IInv, LocksOK, LocksOf, HasPool
<1>12. RegistersOf(t)'
  BY <1>1, <1>2, <1>3, <1>6, <1>8
     DEF IInv, RegistersOK, RegistersOf, Asking, InPages
<1>13. Keeps(t)
  BY <1>3, <1>4, <1>5, <1>9, <1>10, <1>11, <1>12 DEF Keeps
<1>14. KeepsHeld(t) /\ FramesMoved(t) /\ header' = header /\ head' = head
  BY <1>1, <1>3, <1>6, SameFramesAreMoved DEF KeepsHeld, Frees, InFree
<1> QED BY <1>13, <1>14, QuietStep

(* A step that changes nothing but the machine keeps everything.           *)
LEMMA MemoryStaysKeeps ==
  ASSUME IInv, UNCHANGED <<map, database, pools, pc, registers, held>>
  PROVE  IInv'
<1>1. UNCHANGED <<map, frames, pageLock, header, head, poolLock, pc, want, pool,
                  block, run, held>>
  BY DEF database, pools, registers
<1>2. /\ HeldBlocks' = HeldBlocks /\ BeingFreed' = BeingFreed
      /\ \A t : Filling(t)' <=> Filling(t)
      /\ \A t : PagesOf(t)' = PagesOf(t)
  BY <1>1 DEF HeldBlocks, BeingFreed, Filling, PagesOf
<1>3. /\ \A t : Claim(t)' = Claim(t)
      /\ \A p : FreeOf(p)' = FreeOf(p)
      /\ \A t : Refilling(t)' <=> Refilling(t)
      /\ Untouchable' = Untouchable
  BY <1>1, <1>2 
     DEF Claim, FreeOf, Refilling, Untouchable, TableFrames, ReservedFrames,
         UnofferedFrames
<1>4. TypesOK' /\ HeapOK(frames', header')
  BY <1>1 DEF IInv, TypesOK, NumFrames
<1>5. LocksOK' /\ RegistersOK'
  <2>1. \A t : (HasPool(t)' <=> HasPool(t)) /\ (Asking(t)' <=> Asking(t))
    BY <1>1, <1>3 DEF HasPool, Asking
  <2>2. ASSUME NEW t \in Threads
        PROVE  LocksOf(t)' /\ RegistersOf(t)'
    <3>1. LocksOf(t) /\ RegistersOf(t)
      BY DEF IInv, LocksOK, RegistersOK
    <3>2. LocksOf(t)'
      BY <1>1, <2>1, <3>1 DEF LocksOf
    <3>3. RegistersOf(t)'
      BY <1>1, <1>2, <1>3, <2>1, <3>1 DEF RegistersOf
    <3> QED BY <3>2, <3>3
  <2> QED BY <2>2 DEF LocksOK, RegistersOK
<1>6. ClaimsOK'
  BY <1>1, <1>2, <1>3 DEF IInv, ClaimsOK, ClaimOf, Claims
<1>7. HeldOK'
  BY <1>1 DEF IInv, HeldOK, Served
<1>8. FreeingOK'
  BY <1>1, <1>2 DEF IInv, FreeingOK, FreeOne, Frees
<1>9. ListsOK'
  BY <1>1, <1>3 DEF IInv, ListsOK
<1>10. UntouchedOK'
  BY <1>1, <1>3 DEF IInv, UntouchedOK
<1> QED BY <1>4, <1>5, <1>6, <1>7, <1>8, <1>9, <1>10 DEF IInv

(* A run that the kernel does not reach changes nothing but the machine.   *)
LEMMA PageBeyondKeeps ==
  ASSUME IInv, NEW t \in Threads, PageBeyond(t)
  PROVE  IInv'
<1>1. UNCHANGED <<map, database, pools, pc, registers, held>>
  BY DEF PageBeyond
<1> QED BY <1>1, MemoryStaysKeeps

(* The search has found nothing.                                           *)
LEMMA OutOfMemoryKeeps ==
  ASSUME IInv, NEW t \in Threads, OutOfMemory(t)
  PROVE  IInv'
<1> USE DEF OutOfMemory, At, Go, Set, registers, pools
<1>1. TypesOK /\ pc[t] = "search"
  BY DEF IInv
<1>2. OnlyThread(t)
  BY <1>1 DEF OnlyThread, TypesOK
<1>3. TypesOK'
  BY <1>1 DEF TypesOK, NumFrames, Labels
<1>4. pc'[t] = "bugcheck" /\ pageLock = t
  BY <1>1 DEF IInv, TypesOK, LocksOK, LocksOf
<1>5. /\ LocksMoved(t) /\ ClaimMoved(t) /\ ClaimOf(t)' /\ LocksOf(t)'
      /\ RegistersOf(t)'
  BY <1>4 DEF LocksMoved, ClaimMoved, Claims, ClaimOf, LocksOf, HasPool, Refilling,
              RegistersOf, Asking, InPages
<1>6. Keeps(t)
  BY <1>2, <1>3, <1>5 DEF Keeps
<1>7. KeepsHeld(t) /\ FramesMoved(t) /\ header' = header /\ head' = head
  BY <1>1, <1>4, SameFramesAreMoved DEF KeepsHeld, Frees, InFree
<1> QED BY <1>6, <1>7, QuietStep

(* The lock of the pool that a block goes back to is entered.              *)
LEMMA FreeLockKeeps ==
  ASSUME IInv, NEW t \in Threads, FreeLock(t)
  PROVE  IInv'
<1> USE DEF FreeLock, At, Go, Set, registers, database
<1>1. TypesOK /\ pc[t] = "freeLock" /\ pool[t] \in Pools
  BY DEF IInv, TypesOK
<1>2. OnlyThread(t)
  BY <1>1 DEF OnlyThread, TypesOK
<1>3. TypesOK'
  BY <1>1 DEF TypesOK, NumFrames, Labels
<1>4. pc'[t] = "freeLink" /\ poolLock'[pool[t]] = t
  BY <1>1 DEF TypesOK
<1>5. LocksMoved(t)
  BY <1>1 DEF LocksMoved, TypesOK
<1>6. ClaimMoved(t) /\ ClaimOf(t)' /\ RegistersOf(t)'
  BY <1>4 DEF ClaimMoved, Claims, ClaimOf, RegistersOf, Asking, Refilling, InPages
<1>7. LocksOf(t)'
  BY <1>4 DEF LocksOf, HasPool, Refilling
<1>8. Keeps(t)
  BY <1>2, <1>3, <1>5, <1>6, <1>7 DEF Keeps
<1>9. KeepsHeld(t) /\ FramesMoved(t) /\ header' = header /\ head' = head
  BY <1>1, <1>4, SameFramesAreMoved DEF KeepsHeld, Frees, InFree
<1> QED BY <1>8, <1>9, QuietStep

(* The frames of the claim are marked.                                     *)
LEMMA PageMarkKeeps ==
  ASSUME IInv, NEW t \in Threads, PageMark(t)
  PROVE  IInv'
<1> USE DEF PageMark, At, Go, Set, registers, pools
<1>1. TypesOK /\ pc[t] = "mark" /\ pageLock = t
  BY DEF IInv, LocksOK, LocksOf
<1>2. OnlyThread(t)
  BY <1>1 DEF OnlyThread, TypesOK
<1>3. /\ \A i \in Claim(t) : i \in DOMAIN frames /\ frames[i] = "free"
      /\ DOMAIN frames' = DOMAIN frames
      /\ \A i \in DOMAIN frames :
           frames'[i] = IF i \in Claim(t) THEN "mapped" ELSE frames[i]
  BY <1>1 DEF IInv, ClaimsOK, ClaimOf, MarkPages, Claim
<1>4. frames' \in [0..(NumFrames - 1) -> Attributes]
  <2>1. frames' = [i \in DOMAIN frames' |-> frames'[i]]
    BY DEF MarkPages
  <2>2. frames \in [0..(NumFrames - 1) -> Attributes]
    BY <1>1 DEF TypesOK
  <2>3. "mapped" \in Attributes
    BY DEF Attributes
  <2> QED BY <1>3, <2>1, <2>2, <2>3
<1>5. TypesOK'
  BY <1>1, <1>4 DEF TypesOK, NumFrames, Labels
<1>6. pc'[t] = "header" /\ Claim(t)' = Claim(t)
  BY <1>1 DEF TypesOK, Claim, PagesOf, Filling
<1>7. Refilling(t) <=> Refilling(t)'
  BY <1>1, <1>6 DEF Refilling, InPages, Filling
<1>8. LocksMoved(t) /\ ClaimMoved(t)
  BY <1>1, <1>6 DEF LocksMoved, ClaimMoved, Claims
<1>9. FramesMoved(t)
  <2>1. \A u \in Threads : u # t => pc[u] # "mark"
    BY <1>1 DEF IInv, LocksOK, LocksOf
  <2> QED BY <1>3, <2>1 DEF FramesMoved
<1>10. ClaimOf(t)'
  <2>1. \A a \in Blocks(header, "large") : RunIn(header, a) \intersect Claim(t) = {}
    BY <1>3, LargeIsTyped DEF IInv
  <2> QED BY <1>3, <1>6, <2>1 DEF ClaimOf
<1>11. LocksOf(t)'
  BY <1>1, <1>6, <1>7 DEF IInv, LocksOK, LocksOf, HasPool
<1>12. RegistersOf(t)'
  BY <1>1, <1>6, <1>7 DEF IInv, RegistersOK, RegistersOf, Asking, InPages
<1>13. Keeps(t)
  BY <1>2, <1>5, <1>8, <1>10, <1>11, <1>12 DEF Keeps
<1>14. KeepsHeld(t) /\ header' = header /\ head' = head
  BY <1>1, <1>6 DEF KeepsHeld, Frees, InFree
<1> QED BY <1>9, <1>13, <1>14, QuietStep

-----------------------------------------------------------------------------
(* The steps that move a block or a run.                                   *)

(* A step that may move blocks.                                            *)
SameOthers(t) == Keeps(t) /\ FramesMoved(t) /\ HeadsMoved(t) /\ LinksKept(t)
                 /\ HeapMoved(t)

(* What the groups of the invariant that no list is about keep in a step.  *)
LEMMA StepKeeps ==
  ASSUME IInv, NEW t \in Threads, SameOthers(t), HeapOK(frames', header'),
         HeldOK', FreeingOK', ListsOK'
  PROVE  IInv'
<1> USE DEF IInv, Keeps, SameOthers
<1>1. LocksOK'
  BY LocksKept
<1>2. RegistersOK'
  BY RegistersKept
<1>3. ClaimsOK'
  BY ClaimsKept
<1>4. UntouchedOK'
  BY UntouchedKept
<1> QED BY <1>1, <1>2, <1>3, <1>4

(* The blocks on their way back, by the threads that return them.          *)
LEMMA FreedOf ==
  BeingFreed = {block[u] : u \in {w \in Threads : Frees(w)}}
BY DEF BeingFreed, Frees, InFree

(* The same of the next state.                                             *)
LEMMA FreedThen ==
  BeingFreed' = {block'[u] : u \in {w \in Threads : Frees(w)'}}
BY DEF BeingFreed, Frees, InFree

(* A thread that returns nothing changes nothing about what is returned.   *)
LEMMA SameFreed ==
  ASSUME NEW t \in Threads, OnlyThread(t), ~ Frees(t), ~ Frees(t)'
  PROVE  BeingFreed' = BeingFreed
<1>1. \A u \in Threads : Frees(u)' <=> Frees(u)
  BY OthersStay
<1>2. \A u \in Threads : Frees(u) => block'[u] = block[u]
  BY DEF OnlyThread
<1>3. {block'[u] : u \in {w \in Threads : Frees(w)'}}
        = {block[u] : u \in {w \in Threads : Frees(w)}}
  BY <1>1, <1>2
<1> QED BY <1>3, FreedOf, FreedThen

(* The first block of a pool's list goes to the client that asked.         *)
LEMMA PoolTakeKeeps ==
  ASSUME IInv, NEW t \in Threads, PoolTake(t)
  PROVE  IInv'
<1> SUFFICES ASSUME NEW p, p = pool[t], NEW a, a = block[t],
                    NEW it, it = [mem |-> a + Header, bytes |-> want[t]]
             PROVE  IInv'
  OBVIOUS
<1>1. /\ TypesOK /\ pc[t] = "poolTake" /\ p \in Pools
      /\ HeapOK(frames, header)
  BY DEF IInv, TypesOK, PoolTake, At
<1>2. /\ a = head[p] /\ a # NoBlock /\ want[t] <= BlockSizes[p] /\ want[t] > 0
      /\ poolLock[p] = t
  BY <1>1 DEF IInv, RegistersOK, RegistersOf, LocksOK, LocksOf, HasPool, Asking
<1>3. /\ HasList(header, head[p], FreeOf(p))
      /\ a \in FreeOf(p)
      /\ HasList(header, header[a].next, FreeOf(p) \ {a})
  <2>1. HasList(header, head[p], FreeOf(p))
    BY <1>1 DEF IInv, ListsOK
  <2> QED BY <1>2, <2>1, PoppedOffList
<1>4. /\ a \in Blocks(header, "small") /\ header[a].size = BlockSizes[p]
      /\ a \notin HeldBlocks /\ a \notin BeingFreed
  BY <1>3 DEF FreeOf, SizedBlocks
<1>5. a \in Nat /\ a \in DOMAIN header /\ header[a].type = "small"
      /\ header[a].next \in Nat \union {NoBlock}
  BY <1>1, <1>4, SmallIsTyped DEF Blocks, HeapOK, HeadersTyped, Headers
<1>6. /\ head' = [head EXCEPT ![p] = header[a].next]
      /\ poolLock' = [poolLock EXCEPT ![p] = NoThread]
      /\ held' = [held EXCEPT ![t] = @ \union {it}]
      /\ pc' = [pc EXCEPT ![t] = "idle"]
      /\ want' = [want EXCEPT ![t] = 0]
      /\ pool' = [pool EXCEPT ![t] = 1]
      /\ block' = [block EXCEPT ![t] = NoBlock]
      /\ run' = [run EXCEPT ![t] = NoRun]
      /\ UNCHANGED <<map, frames, pageLock, header>>
  BY DEF PoolTake, Return, Done, Go, Set, database
<1>7. it \in [mem : Nat, bytes : Nat \ {0}]
      /\ it.mem = a + Header /\ it.bytes = want[t]
  <2>1. want[t] \in Nat \ {0}
    BY <1>1, <1>2 DEF TypesOK
  <2> QED BY <1>5, <2>1, Constants
<1>8. OnlyThread(t)
  BY <1>1, <1>6 DEF OnlyThread, TypesOK
<1>9. TypesOK'
  <2>1. 1 \in Pools
    BY SizesAscend
  <2>2. /\ map' \in Maps /\ NumFrames' = NumFrames
        /\ frames' \in [0..(NumFrames - 1) -> Attributes]
    BY <1>1, <1>6 DEF TypesOK, NumFrames
  <2>3. /\ head' \in [Pools -> Nat \union {NoBlock}]
        /\ poolLock' \in [Pools -> Threads \union {NoThread}]
        /\ pageLock' \in Threads \union {NoThread}
    BY <1>1, <1>5, <1>6 DEF TypesOK
  <2>4. /\ pc' \in [Threads -> Labels]
        /\ want' \in [Threads -> Nat]
        /\ pool' \in [Threads -> Pools]
        /\ block' \in [Threads -> Nat \union {NoBlock}]
        /\ run' \in [Threads -> Nat \union {NoRun}]
    BY <1>1, <1>6, <2>1 DEF TypesOK, Labels
  <2>5. held' \in [Threads -> SUBSET [mem : Nat, bytes : Nat \ {0}]]
    BY <1>1, <1>6, <1>7 DEF TypesOK
  <2> QED BY <2>2, <2>3, <2>4, <2>5 DEF TypesOK
<1>10. /\ pc'[t] = "idle" /\ head'[p] = header[a].next
       /\ held'[t] = held[t] \union {it}
       /\ \A q \in Pools : q # p => head'[q] = head[q]
  BY <1>1, <1>6 DEF TypesOK
<1>11. LocksMoved(t) /\ HeadsMoved(t)
  BY <1>1, <1>2, <1>6, <1>10 DEF LocksMoved, HeadsMoved, TypesOK
<1>12. /\ ClaimMoved(t) /\ ClaimOf(t)' /\ LocksOf(t)' /\ RegistersOf(t)'
       /\ ~ Frees(t)' /\ ~ Frees(t)
  BY <1>1, <1>10 DEF ClaimMoved, Claims, ClaimOf, LocksOf, HasPool, Refilling,
              RegistersOf, Asking, InPages, Frees, InFree
<1>13. SameOthers(t)
  <2>1. LinksKept(t) /\ FramesMoved(t) /\ HeapMoved(t)
    BY <1>1, <1>6, SameFramesAreMoved, SameHeapIsMoved DEF LinksKept
  <2> QED BY <1>6, <1>8, <1>9, <1>11, <1>12, <2>1 DEF SameOthers, Keeps
<1>14. Served(it)'
  <2>1. it.mem - Header = a
    BY <1>5, <1>7, Constants
  <2>2. want[t] <= header[a].size
    BY <1>2, <1>4
  <2>3. /\ a \in DOMAIN header' /\ header'[a].type = "small"
        /\ it.bytes <= header'[a].size
    BY <1>5, <1>6, <1>7, <2>2
  <2> QED BY <2>1, <2>3 DEF Served
<1>15. HeldOK' /\ HeldBlocks' = HeldBlocks \union {a}
  <2>1. HeadersTyped(header) /\ HeldOK
    BY <1>1 DEF IInv, HeapOK
  <2>2. HeapMoved(t) /\ it.mem = a + Header /\ held'[t] = held[t] \union {it}
    BY <1>7, <1>10, <1>13 DEF SameOthers
  <2>3. TypesOK /\ ClaimMoved(t) /\ a \in Nat /\ a \notin HeldBlocks
    BY <1>1, <1>4, <1>5, <1>12
  <2> QED BY <1>8, <1>14, <2>1, <2>2, <2>3, HeldGrows
<1>16. FreeingOK'
  <2>1. \A u \in Threads : Frees(u) => block[u] \in BeingFreed /\ block[u] \notin HeldBlocks
    BY FreedOf DEF IInv, FreeingOK, FreeOne
  <2>2. \A u \in Threads : Frees(u) => block[u] \notin HeldBlocks'
    BY <1>4, <1>15, <2>1
  <2>3. HeapMoved(t) /\ FreeingOK
    BY <1>13 DEF SameOthers, IInv
  <2> QED BY <1>1, <1>8, <1>12, <2>2, <2>3, FreeingKept
<1>17. ListsOK'
  <2>1. BeingFreed' = BeingFreed
    BY <1>8, <1>12, SameFreed
  <2>2. \A q \in Pools : FreeOf(q)' = FreeOf(q) \ {a}
    BY <1>6, <1>15, <2>1 DEF FreeOf, SizedBlocks
  <2>3. \A q \in Pools : q # p => a \notin FreeOf(q)
    BY <1>1, <1>4, SizesAscend DEF FreeOf, SizedBlocks
  <2>4. ASSUME NEW q \in Pools
        PROVE  HasList(header', head'[q], FreeOf(q)')
    <3>1. CASE q = p
      BY <1>3, <1>6, <1>10, <2>2, <3>1
    <3>2. CASE q # p
      <4>1. FreeOf(q)' = FreeOf(q) /\ head'[q] = head[q]
        <5>1. FreeOf(q)' = FreeOf(q) \ {a} /\ a \notin FreeOf(q)
          BY <2>2, <2>3, <3>2
        <5>2. FreeOf(q) \ {a} = FreeOf(q)
          BY <5>1
        <5> QED BY <1>10, <3>2, <5>1, <5>2
      <4>2. HasList(header, head[q], FreeOf(q))
        BY DEF IInv, ListsOK
      <4> QED BY <1>6, <4>1, <4>2
    <3> QED BY <3>1, <3>2
  <2> QED BY <2>4 DEF ListsOK
<1>18. HeapOK(frames', header')
  BY <1>1, <1>6
<1> QED BY <1>13, <1>15, <1>16, <1>17, <1>18, StepKeeps

(* The header of the run is written; a client's block is returned, a       *)
(* pool's is cut.                                                          *)
LEMMA WriteLargeHeaderKeeps ==
  ASSUME IInv, NEW t \in Threads, WriteLargeHeader(t)
  PROVE  IInv'
<1> SUFFICES ASSUME NEW a, a = LargeBlock(run[t]), NEW pages, pages = PagesOf(t),
                    NEW it, it = [mem |-> a + Header, bytes |-> want[t]],
                    NEW start, start = run[t]
             PROVE  IInv'
  OBVIOUS
<1>1. /\ TypesOK /\ pc[t] = "header" /\ HeapOK(frames, header)
      /\ header' = WithHeader(header, a, LargeHeader(pages))
      /\ UNCHANGED <<map, frames, pageLock, head, poolLock>>
  BY DEF IInv, WriteLargeHeader, At, database
<1>2. /\ start \in Nat /\ pages \in Nat \ {0} /\ want[t] \in Nat \ {0}
      /\ Claim(t) = start..(start + pages - 1)
  <2>1. run[t] \in Nat /\ want[t] \in Nat \ {0}
    BY <1>1 DEF IInv, TypesOK, RegistersOK, RegistersOf, InPages
  <2> QED BY <1>1, <2>1, PagesAreTyped DEF Claim
<1>3. RunMapped(frames, start, pages) /\ RunFresh(header, start, pages)
  BY <1>1, <1>2 DEF IInv, ClaimsOK, ClaimOf, Claims, RunMapped, RunFresh
<1>4. HeapOK(frames, header') /\ Added(header', header, start, pages)
  <2>1. header' = WithHeader(header, LargeBlock(start), LargeHeader(pages))
    BY <1>1
  <2> QED BY <1>1, <1>2, <1>3, <2>1, AddingARunKeepsHeap
<1>5. /\ Blocks(header', "small") = Blocks(header, "small")
      /\ Blocks(header', "large") = Blocks(header, "large") \union {a}
      /\ a \notin DOMAIN header /\ a \in DOMAIN header'
      /\ header'[a] = LargeHeader(pages)
      /\ \A b \in DOMAIN header : header'[b] = header[b]
      /\ RunIn(header', a) = start..(start + pages - 1)
      /\ \A b \in Blocks(header, "small") : ~ Inside(header', b, a)
  BY <1>4 DEF Added
<1>6. a \in Nat /\ a + Header = (start + 1) * PageSize
  BY <1>2, LargeAddress
<1>7. /\ header'[a].type = "large" /\ header'[a].size = pages * PageSize
  BY <1>5 DEF LargeHeader
<1>8. HeapMoved(t)
  <2>1. \A b \in Blocks(header', "small"), l \in Blocks(header, "large") :
          Inside(header', b, l) => Inside(header, b, l)
    <3>1. \A b \in Blocks(header', "small") : header'[b] = header[b]
      BY <1>5 DEF Blocks
    <3>2. \A l \in Blocks(header, "large") : header'[l] = header[l]
      BY <1>5 DEF Blocks
    <3> QED BY <3>1, <3>2 DEF Inside, RunEnd
  <2>2. \A b \in Blocks(header, "large") \union Blocks(header, "small") :
          header'[b] = header[b]
    BY <1>5 DEF Blocks
  <2> QED BY <1>1, <1>2, <1>5, <2>1, <2>2 DEF HeapMoved
<1>9. LinksKept(t) /\ HeadsMoved(t) /\ LocksMoved(t) /\ FramesMoved(t)
  <2>1. \A u \in Threads : pc[u] = "freeHead" => block[u] \in DOMAIN header
    BY DEF IInv, FreeingOK, FreeOne, Frees, InFree, Blocks
  <2> QED BY <1>1, <1>5, <2>1, SameFramesAreMoved
          DEF LinksKept, HeadsMoved, LocksMoved
<1>10. \A p \in Pools : \A b \in FreeOf(p) : header'[b].next = header[b].next
  BY <1>5 DEF FreeOf, SizedBlocks, Blocks
<1>11. \A p \in Pools : SizedBlocks(header', p) = SizedBlocks(header, p)
  BY <1>5 DEF SizedBlocks, Blocks
<1>12. /\ ~ Frees(t) /\ HeadersTyped(header) /\ HeldOK /\ FreeingOK /\ ListsOK
       /\ a \notin HeldBlocks /\ RegistersOf(t) /\ LocksOf(t) /\ ClaimOf(t)
  <2>1. HeldBlocks \subseteq DOMAIN header
    BY DEF IInv, HeldOK, HeldBlocks, Served
  <2> QED BY <1>1, <1>5, <2>1
          DEF IInv, HeapOK, Frees, InFree, RegistersOK, LocksOK, ClaimsOK
<1>13. TypesOK' /\ OnlyThread(t)
       /\ \/ /\ Filling(t) /\ pc'[t] = "fill" /\ held' = held
             /\ UNCHANGED <<want, pool, block, run>>
          \/ /\ ~ Filling(t) /\ pc'[t] = "idle"
             /\ held'[t] = held[t] \union {it}
  <2>1. /\ map' \in Maps /\ NumFrames' = NumFrames
        /\ frames' \in [0..(NumFrames - 1) -> Attributes]
        /\ head' \in [Pools -> Nat \union {NoBlock}]
        /\ poolLock' \in [Pools -> Threads \union {NoThread}]
        /\ pageLock' \in Threads \union {NoThread}
    BY <1>1 DEF TypesOK, NumFrames
  <2>2. CASE Filling(t)
    <3>1. /\ pc' = [pc EXCEPT ![t] = "fill"]
          /\ UNCHANGED <<want, pool, block, run, held>>
      BY <2>2 DEF WriteLargeHeader, Go, registers
    <3> QED BY <1>1, <2>1, <2>2, <3>1 DEF TypesOK, Labels, OnlyThread
  <2>3. CASE ~ Filling(t)
    <3>1. /\ held' = [held EXCEPT ![t] = @ \union {it}]
          /\ pc' = [pc EXCEPT ![t] = "idle"]
          /\ want' = [want EXCEPT ![t] = 0]
          /\ pool' = [pool EXCEPT ![t] = 1]
          /\ block' = [block EXCEPT ![t] = NoBlock]
          /\ run' = [run EXCEPT ![t] = NoRun]
      BY <2>3 DEF WriteLargeHeader, Return, Done, Go, Set
    <3>2. it \in [mem : Nat, bytes : Nat \ {0}]
      BY <1>2, <1>6, Constants
    <3>3. 1 \in Pools
      BY SizesAscend
    <3>4. held' \in [Threads -> SUBSET [mem : Nat, bytes : Nat \ {0}]]
      BY <1>1, <3>1, <3>2 DEF TypesOK
    <3>5. /\ pc' \in [Threads -> Labels]
          /\ want' \in [Threads -> Nat]
          /\ pool' \in [Threads -> Pools]
          /\ block' \in [Threads -> Nat \union {NoBlock}]
          /\ run' \in [Threads -> Nat \union {NoRun}]
      BY <1>1, <3>1, <3>3 DEF TypesOK, Labels
    <3>6. TypesOK'
      BY <2>1, <3>4, <3>5 DEF TypesOK
    <3>7. OnlyThread(t) /\ pc'[t] = "idle" /\ held'[t] = held[t] \union {it}
      BY <1>1, <3>1 DEF TypesOK, OnlyThread
    <3> QED BY <2>3, <3>6, <3>7
  <2> QED BY <2>2, <2>3
<1>14. ASSUME HeldOK', HeldBlocks' = HeldBlocks \/ HeldBlocks' = HeldBlocks \union {a},
              ClaimMoved(t), ClaimOf(t)', LocksOf(t)', RegistersOf(t)', ~ Frees(t)'
       PROVE  IInv'
  <2>1. FreeingOK'
    <3>1. \A u \in Threads : Frees(u) => block[u] \notin HeldBlocks'
      BY <1>5, <1>12, <1>14 DEF FreeingOK, FreeOne, Blocks
    <3> QED BY <1>1, <1>8, <1>12, <1>13, <1>14, <3>1, FreeingKept
  <2>2. BeingFreed' = BeingFreed
    BY <1>12, <1>13, <1>14, SameFreed
  <2>3. \A p \in Pools : FreeOf(p)' = FreeOf(p)
    <3>1. \A p \in Pools : a \notin SizedBlocks(header, p)
      BY <1>5 DEF SizedBlocks, Blocks
    <3> QED BY <1>11, <1>14, <2>2, <3>1 DEF FreeOf
  <2>4. ListsOK'
    BY <1>1, <1>10, <1>12, <2>3, ListsKept
  <2>5. Keeps(t)
    BY <1>1, <1>9, <1>13, <1>14 DEF Keeps
  <2> QED BY <1>1, <1>4, <1>8, <1>9, <1>14, <2>1, <2>4, <2>5, StepKeeps DEF SameOthers
<1>15. CASE Filling(t)
  <2>1. /\ pc'[t] = "fill" /\ held' = held
        /\ UNCHANGED <<want, pool, block, run>>
    BY <1>13, <1>15
  <2>2. /\ PagesOf(t)' = PagesOf(t) /\ Claim(t)' = Claim(t)
        /\ Filling(t)' /\ Refilling(t)' /\ Refilling(t)
    BY <1>1, <1>15, <2>1 DEF PagesOf, Claim, Filling, Refilling, InPages
  <2>3. ClaimMoved(t)
    BY <1>1, <1>5, <2>1, <2>2 DEF ClaimMoved, Claims
  <2>4. LocksOf(t)'
    BY <1>1, <1>12, <2>1, <2>2 DEF LocksOf, HasPool
  <2>5. RegistersOf(t)'
    BY <1>1, <1>12, <2>1, <2>2 DEF RegistersOf, Asking, InPages
  <2>6. ClaimOf(t)'
    <3>1. \A i \in Claim(t) : i \in DOMAIN frames' /\ frames'[i] = "mapped"
      BY <1>1, <1>12 DEF ClaimOf, Claims
    <3>2. /\ a \in Blocks(header', "large")
          /\ \A b \in Blocks(header', "small") : ~ Inside(header', b, a)
      BY <1>5
    <3> QED BY <1>7, <2>1, <2>2, <3>1, <3>2 DEF ClaimOf, Claims
  <2>7. held'[t] \subseteq held[t]
    BY <2>1
  <2>8. HeldOK'
    BY <1>1, <1>8, <1>12, <1>13, <2>3, <2>7, HeldKept
  <2>9. HeldBlocks' = HeldBlocks /\ ~ Frees(t)'
    BY <2>1 DEF HeldBlocks, Frees, InFree
  <2> QED BY <1>14, <2>3, <2>4, <2>5, <2>6, <2>8, <2>9
<1>16. CASE ~ Filling(t)
  <2>1. pc'[t] = "idle" /\ held'[t] = held[t] \union {it}
    BY <1>13, <1>16
  <2>2. /\ ClaimMoved(t) /\ ClaimOf(t)' /\ LocksOf(t)' /\ RegistersOf(t)'
        /\ ~ Frees(t)'
    BY <2>1 DEF ClaimMoved, Claims, ClaimOf, LocksOf, HasPool, Refilling,
                RegistersOf, Asking, InPages, Frees, InFree
  <2>3. Served(it)'
    <3>1. it.mem = a + Header /\ it.bytes = want[t] /\ it.mem - Header = a
      BY <1>6, Constants
    <3>2. pages = PageCount(want[t])
      BY <1>1, <1>16, PagesAreTyped
    <3>3. ((a + Header) + want[t] - 1) \div PageSize \in RunIn(header', a)
      <4> DEFINE w == want[t]
      <4>1. w \in Nat /\ w > 0
        BY <1>2
      <4> HIDE DEF w
      <4>2. ((LargeBlock(start) + Header) + w - 1) \div PageSize
              \in start..(start + PageCount(w) - 1)
        BY <1>2, <4>1, PageCountIsTyped
      <4>3. a = LargeBlock(start) /\ PageCount(w) = pages
        BY <3>2 DEF w
      <4>4. ((a + Header) + w - 1) \div PageSize \in start..(start + pages - 1)
        BY <4>2, <4>3
      <4> QED BY <1>5, <4>4 DEF w
    <3>4. (it.mem + it.bytes - 1) \div PageSize \in RunIn(header', a)
      BY <3>1, <3>3
    <3>5. \A b \in Blocks(header', "small") : ~ Inside(header', b, a)
      BY <1>5
    <3>6. ASSUME NEW u \in Threads, pc'[u] = "fill"
          PROVE  a # LargeBlock(run'[u])
      <4>1. u # t /\ pc[u] = "fill" /\ run'[u] = run[u]
        BY <1>13, <2>1, <3>6 DEF OnlyThread
      <4>2. LargeBlock(run[u]) \in DOMAIN header
        BY <4>1 DEF IInv, ClaimsOK, ClaimOf, Blocks
      <4> QED BY <1>5, <4>1, <4>2
    <3>7. a \in DOMAIN header' /\ header'[a].type = "large"
      BY <1>5, <1>7
    <3> QED BY <3>1, <3>4, <3>5, <3>6, <3>7 DEF Served
  <2>4. HeldOK' /\ HeldBlocks' = HeldBlocks \union {a}
    <3>1. it.mem = a + Header
      OBVIOUS
    <3> QED BY <1>1, <1>6, <1>8, <1>12, <1>13, <2>1, <2>2, <2>3, <3>1, HeldGrows
  <2> QED BY <1>14, <2>2, <2>4
<1> QED BY <1>15, <1>16

(* The run is cut into blocks, which are the list of the pool.             *)
LEMMA PoolFillKeeps ==
  ASSUME IInv, NEW t \in Threads, PoolFill(t)
  PROVE  IInv'
<1> SUFFICES ASSUME NEW p, p = pool[t], NEW start, start = run[t],
                    NEW a, a = LargeBlock(start)
             PROVE  IInv'
  OBVIOUS
<1>1. /\ TypesOK /\ pc[t] = "fill" /\ HeapOK(frames, header) /\ p \in Pools
      /\ header' = Filled(header, p, start, head[p])
      /\ head' = [head EXCEPT ![p] = LastCut(p, start)]
      /\ pc' = [pc EXCEPT ![t] = "poolTest"]
      /\ UNCHANGED <<map, frames, pageLock, poolLock, want, pool, block, run, held>>
  BY DEF IInv, TypesOK, PoolFill, At, Go, database, registers
<1>2. /\ Filling(t) /\ start \in Nat /\ Refilling(t)
      /\ head[p] = NoBlock /\ poolLock[p] = t
      /\ want[t] <= BlockSizes[p] /\ want[t] > 0
  BY <1>1 DEF IInv, TypesOK, RegistersOK, RegistersOf, Refilling, InPages, LocksOK,
              LocksOf, HasPool, Asking
<1>3. EmptyPoolRun(header, start)
  <2>1. PagesOf(t) = PoolPages + 2
    BY <1>1, <1>2, PagesAreTyped
  <2> QED BY <1>1, <2>1 DEF IInv, ClaimsOK, ClaimOf, EmptyPoolRun
<1>4. IsFilled(header', header, p, start, NoBlock)
  BY <1>1, <1>2, FilledHeaders
<1>5. HeapOK(frames, header') /\ WereCut(header', header, p, start)
  <2>1. NoBlock \in Nat \union {NoBlock}
    OBVIOUS
  <2> QED BY <1>1, <1>2, <1>3, <1>4, <2>1, FillingKeepsHeap
<1>6. /\ Blocks(header', "small") = Blocks(header, "small") \union CutSet(p, start)
      /\ Blocks(header', "large") = Blocks(header, "large")
      /\ CutSet(p, start) \intersect DOMAIN header = {}
      /\ \A b \in DOMAIN header : header'[b] = header[b]
      /\ \A b \in CutSet(p, start) : Inside(header', b, a)
  BY <1>5 DEF WereCut
<1>7. /\ SizedBlocks(header', p) = SizedBlocks(header, p) \union CutSet(p, start)
      /\ \A q \in Pools : q # p => SizedBlocks(header', q) = SizedBlocks(header, q)
  <2>1. p \in Pools /\ WereCut(header', header, p, start)
    BY <1>1, <1>5
  <2>2. OnlyPoolGrew(header', header, p, CutSet(p, start))
    BY <2>1, OtherPoolsAreKept
  <2> QED BY <2>2 DEF OnlyPoolGrew
<1>8. LastCut(p, start) \in Nat /\ HasList(header', LastCut(p, start), CutSet(p, start))
  BY <1>1, <1>2, <1>4, CutsAreAList
<1>9. a \in Blocks(header, "large")
  BY <1>3 DEF EmptyPoolRun
<1>10. HeapMoved(t)
  <2>1. \A b \in Blocks(header, "large") \union Blocks(header, "small") :
          header'[b] = header[b]
    BY <1>6 DEF Blocks
  <2>2. ASSUME NEW b \in Blocks(header', "small"), NEW l \in Blocks(header, "large"),
               Inside(header', b, l)
        PROVE  \/ b \in Blocks(header, "small") /\ Inside(header, b, l)
               \/ l = a
    <3>1. CASE b \in CutSet(p, start)
      BY <1>5, <1>6, <1>9, <2>2, <3>1, InsideOneRun
    <3>2. CASE b \in Blocks(header, "small")
      BY <2>1, <2>2, <3>2 DEF Inside, RunEnd
    <3> QED BY <1>6, <3>1, <3>2
  <2> QED BY <1>1, <1>6, <2>1, <2>2 DEF HeapMoved
<1>11. TypesOK' /\ OnlyThread(t) /\ pc'[t] = "poolTest"
  BY <1>1, <1>5, <1>8 DEF TypesOK, NumFrames, Labels, OnlyThread
<1>12. /\ head'[p] = LastCut(p, start)
       /\ \A q \in Pools : q # p => head'[q] = head[q]
  BY <1>1 DEF TypesOK
<1>13. /\ LinksKept(t) /\ HeadsMoved(t) /\ LocksMoved(t) /\ FramesMoved(t)
       /\ ClaimMoved(t) /\ ClaimOf(t)'
  <2>1. \A u \in Threads : pc[u] = "freeHead" => block[u] \in DOMAIN header
    BY DEF IInv, FreeingOK, FreeOne, Frees, InFree, Blocks
  <2>2. LinksKept(t)
    BY <1>6, <2>1 DEF LinksKept
  <2>3. HeadsMoved(t)
    BY <1>2, <1>12 DEF HeadsMoved
  <2> QED BY <1>1, <1>11, <2>2, <2>3, SameFramesAreMoved
          DEF LocksMoved, ClaimMoved, Claims, ClaimOf
<1>14. LocksOf(t)' /\ RegistersOf(t)'
  BY <1>1, <1>2, <1>11 DEF LocksOf, HasPool, RegistersOf, Asking, Refilling, InPages
<1>15. KeepsHeld(t) /\ ~ Frees(t) /\ ~ Frees(t)'
  BY <1>1, <1>11 DEF KeepsHeld, Frees, InFree
<1>16. HeldBlocks' = HeldBlocks /\ BeingFreed' = BeingFreed
  BY <1>11, <1>15, HeldStays
<1>17. HeldOK'
  <2>1. HeadersTyped(header) /\ HeldOK /\ held'[t] \subseteq held[t]
    BY <1>1 DEF IInv, HeapOK
  <2> QED BY <1>1, <1>10, <1>11, <1>13, <2>1, HeldKept
<1>18. FreeingOK'
  <2>1. \A u \in Threads : Frees(u) => block[u] \notin HeldBlocks'
    BY <1>16 DEF IInv, FreeingOK, FreeOne
  <2>2. FreeingOK
    BY DEF IInv
  <2> QED BY <1>1, <1>10, <1>11, <1>15, <2>1, <2>2, FreeingKept
<1>19. ListsOK'
  <2>1. FreeOf(p) = {}
    <3>1. HasList(header, NoBlock, FreeOf(p))
      BY <1>1, <1>2 DEF IInv, ListsOK
    <3> QED BY <3>1, EmptyList
  <2>2. HeldBlocks \subseteq DOMAIN header /\ BeingFreed \subseteq DOMAIN header
    <3>1. HeldBlocks \subseteq DOMAIN header
      BY DEF IInv, HeldOK, HeldBlocks, Served
    <3>2. BeingFreed \subseteq DOMAIN header
      BY FreedOf DEF IInv, FreeingOK, FreeOne, Blocks
    <3> QED BY <3>1, <3>2
  <2>3. FreeOf(p)' = CutSet(p, start)
    <3>1. FreeOf(p)' = SizedBlocks(header', p) \ (HeldBlocks \union BeingFreed)
      BY <1>16 DEF FreeOf
    <3> QED BY <1>6, <1>7, <2>1, <2>2, <3>1 DEF FreeOf
  <2>4. ASSUME NEW q \in Pools
        PROVE  HasList(header', head'[q], FreeOf(q)')
    <3>1. CASE q = p
      BY <1>8, <1>12, <2>3, <3>1
    <3>2. CASE q # p
      <4>1. FreeOf(q)' = FreeOf(q) /\ head'[q] = head[q]
        BY <1>7, <1>12, <1>16, <3>2 DEF FreeOf
      <4>2. HasList(header, head[q], FreeOf(q))
        BY DEF IInv, ListsOK
      <4>3. \A b \in FreeOf(q) : header'[b].next = header[b].next
        BY <1>6 DEF FreeOf, SizedBlocks, Blocks
      <4> QED BY <4>1, <4>2, <4>3, ListIsKept
    <3> QED BY <3>1, <3>2
  <2> QED BY <2>4 DEF ListsOK
<1>20. SameOthers(t)
  BY <1>1, <1>10, <1>11, <1>13, <1>14 DEF SameOthers, Keeps
<1> QED BY <1>1, <1>5, <1>17, <1>18, <1>19, <1>20, StepKeeps

(* A client gives a block back, which is then on its way to its pool.      *)
LEMMA FreeKeeps ==
  ASSUME IInv, NEW t \in Threads, NEW it \in held[t], Free(t, it)
  PROVE  IInv'
<1> SUFFICES ASSUME NEW a, a = it.mem - Header, NEW p, p = FindPoolIndex(header[a].size)
             PROVE  IInv'
  OBVIOUS
<1>1. /\ TypesOK /\ pc[t] = "idle" /\ HeapOK(frames, header) /\ HeadersTyped(header)
      /\ header[a].type = "small"
      /\ held' = [held EXCEPT ![t] = @ \ {it}]
      /\ block' = [block EXCEPT ![t] = a]
      /\ pool' = [pool EXCEPT ![t] = p]
      /\ pc' = [pc EXCEPT ![t] = "freeLock"]
      /\ UNCHANGED <<map, frames, pageLock, header, head, poolLock, want, run>>
  BY DEF IInv, HeapOK, Free, At, Go, Set, database, pools
<1>2. /\ it.mem \in Nat /\ a \in HeldBlocks /\ a + Header = it.mem
      /\ a \in DOMAIN header
  <2>1. held[t] \subseteq [mem : Nat, bytes : Nat \ {0}]
    BY <1>1 DEF TypesOK
  <2>2. it.mem \in Nat
    BY <2>1
  <2>3. a \in HeldBlocks /\ a \in DOMAIN header
    BY DEF HeldBlocks, IInv, HeldOK, Served
  <2> QED BY <2>2, <2>3, Constants
<1>3. a \in Blocks(header, "small") /\ a \in Nat
  BY <1>1, <1>2 DEF Blocks, HeadersTyped
<1>4. p \in Pools /\ header[a].size = BlockSizes[p]
  <2>1. PICK q \in Pools : header[a].size = BlockSizes[q]
    BY <1>1, <1>3, SmallIsTyped
  <2>2. header[a].size \in Nat /\ header[a].size <= MaxSmallSize
    BY <2>1, SizesAscend
  <2> QED BY <2>1, <2>2, FindPoolIndexIsRight
<1>5. TypesOK' /\ OnlyThread(t)
  BY <1>1, <1>3, <1>4 DEF TypesOK, NumFrames, Labels, OnlyThread
<1>6. /\ pc'[t] = "freeLock" /\ block'[t] = a /\ pool'[t] = p
      /\ held'[t] = held[t] \ {it}
      /\ \A u \in Threads : u # t => held'[u] = held[u]
  BY <1>1 DEF TypesOK
<1>7. /\ LocksMoved(t) /\ ClaimMoved(t) /\ ClaimOf(t)' /\ LocksOf(t)' /\ RegistersOf(t)'
  BY <1>1, <1>6 DEF LocksMoved, ClaimMoved, Claims, ClaimOf, LocksOf, HasPool, Refilling,
                    RegistersOf, Asking, InPages
<1>8. SameOthers(t)
  <2>1. HeadsMoved(t) /\ LinksKept(t) /\ FramesMoved(t) /\ HeapMoved(t)
    BY <1>1, SameFramesAreMoved, SameHeapIsMoved DEF HeadsMoved, LinksKept
  <2> QED BY <1>1, <1>5, <1>7, <2>1 DEF SameOthers, Keeps
<1>9. ASSUME NEW u \in Threads, NEW jt \in held'[u]
      PROVE  jt \in held[u] /\ jt.mem # it.mem
  <2>1. jt \in held[u] /\ ~ (u = t /\ jt = it)
    BY <1>6, <1>9
  <2> QED BY <2>1 DEF IInv, HeldOK
<1>10. HeldBlocks' = HeldBlocks \ {a}
  <2>1. ASSUME NEW b \in HeldBlocks'
        PROVE  b \in HeldBlocks \ {a}
    <3>1. PICK u \in Threads : \E jt \in held'[u] : b = jt.mem - Header
      BY DEF HeldBlocks
    <3>2. PICK jt \in held'[u] : b = jt.mem - Header
      BY <3>1
    <3>3. jt \in held[u] /\ jt.mem # it.mem /\ jt.mem \in Nat
      BY <1>1, <1>9 DEF TypesOK
    <3>4. b # a
      BY <1>2, <3>2, <3>3, Constants
    <3> QED BY <3>2, <3>3, <3>4 DEF HeldBlocks
  <2>2. ASSUME NEW b \in HeldBlocks, b # a
        PROVE  b \in HeldBlocks'
    <3>1. PICK u \in Threads : \E jt \in held[u] : b = jt.mem - Header
      BY DEF HeldBlocks
    <3>2. PICK jt \in held[u] : b = jt.mem - Header
      BY <3>1
    <3>3. jt \in held'[u]
      BY <1>6, <2>2, <3>2
    <3> QED BY <3>2, <3>3 DEF HeldBlocks
  <2> QED BY <2>1, <2>2
<1>11. HeldOK'
  <2>1. HeldOK /\ held'[t] \subseteq held[t]
    BY <1>6 DEF IInv
  <2> QED BY <1>1, <1>5, <1>7, <1>8, <2>1, HeldKept DEF SameOthers
<1>12. /\ Frees(t)' /\ ~ Frees(t)
       /\ \A u \in Threads : u # t =>
            /\ (Frees(u)' <=> Frees(u))
            /\ block'[u] = block[u] /\ pool'[u] = pool[u]
  BY <1>1, <1>5, <1>6, OthersStay DEF Frees, InFree, OnlyThread
<1>13. \A u \in Threads : Frees(u) => /\ block[u] \in Blocks(header, "small")
                                      /\ header[block[u]].size = BlockSizes[pool[u]]
                                      /\ block[u] \notin HeldBlocks
  BY DEF IInv, FreeingOK, FreeOne
<1>14. FreeingOK'
  <2>1. ASSUME NEW u \in Threads
        PROVE  FreeOne(u)'
    <3>1. CASE u = t
      <4>1. block'[t] \in Blocks(header', "small") /\ block'[t] \notin HeldBlocks'
        BY <1>1, <1>3, <1>6, <1>10
      <4>2. header'[block'[t]].size = BlockSizes[pool'[t]]
        BY <1>1, <1>4, <1>6
      <4> QED BY <3>1, <4>1, <4>2 DEF FreeOne
    <3>2. CASE u # t
      BY <1>1, <1>10, <1>12, <1>13, <3>2 DEF FreeOne
    <3> QED BY <3>1, <3>2
  <2>2. ASSUME NEW u \in Threads, NEW w \in Threads,
               Frees(u)', Frees(w)', block'[u] = block'[w]
        PROVE  u = w
    <3>1. \A x \in Threads : x # t /\ Frees(x)' => Frees(x) /\ block'[x] # a
      BY <1>2, <1>12, <1>13
    <3>2. u # t /\ w # t => u = w
      BY <1>12, <2>2, <3>1 DEF IInv, FreeingOK
    <3> QED BY <1>6, <2>2, <3>1, <3>2
  <2> QED BY <2>1, <2>2 DEF FreeingOK
<1>15. ListsOK'
  <2>1. BeingFreed' = BeingFreed \union {a}
    <3>1. {block'[u] : u \in {w \in Threads : Frees(w)'}}
            = {block[u] : u \in {w \in Threads : Frees(w)}} \union {a}
      BY <1>6, <1>12
    <3> QED BY <3>1, FreedOf, FreedThen
  <2>2. HeldBlocks' \union BeingFreed' = HeldBlocks \union BeingFreed
    BY <1>2, <1>10, <2>1
  <2>3. \A q \in Pools : FreeOf(q)' = FreeOf(q)
    BY <1>1, <2>2 DEF FreeOf
  <2>4. ListsOK /\ head' = head /\ header' = header
    BY <1>1 DEF IInv
  <2> QED BY <2>3, <2>4, ListsKept
<1>16. HeapOK(frames', header')
  BY <1>1
<1> QED BY <1>8, <1>11, <1>14, <1>15, <1>16, StepKeeps

(* A large block is given back: the client has it no more.                 *)
LEMMA FreeLargeKeeps ==
  ASSUME IInv, NEW t \in Threads, NEW it \in held[t], FreeLarge(t, it)
  PROVE  IInv'
<1>1. /\ TypesOK /\ HeapOK(frames, header) /\ HeadersTyped(header) /\ pc[t] = "idle"
      /\ header[it.mem - Header].type = "large"
      /\ held' = [held EXCEPT ![t] = @ \ {it}]
      /\ UNCHANGED <<map, frames, pageLock, header, head, poolLock, pc, want, pool,
                     block, run>>
  BY DEF IInv, HeapOK, FreeLarge, At, database, pools, registers
<1>2. TypesOK' /\ OnlyThread(t)
  BY <1>1 DEF TypesOK, NumFrames, OnlyThread
<1>3. held'[t] = held[t] \ {it} /\ \A u \in Threads : u # t => held'[u] = held[u]
  BY <1>1 DEF TypesOK
<1>4. ~ Frees(t) /\ ~ Frees(t)'
  BY <1>1 DEF Frees, InFree
<1>5. SameOthers(t)
  <2>1. HeadsMoved(t) /\ LinksKept(t) /\ FramesMoved(t) /\ HeapMoved(t)
    BY <1>1, SameFramesAreMoved, SameHeapIsMoved DEF HeadsMoved, LinksKept
  <2>2. LocksMoved(t) /\ ClaimMoved(t) /\ ClaimOf(t)' /\ LocksOf(t)' /\ RegistersOf(t)'
    BY <1>1 DEF LocksMoved, ClaimMoved, Claims, ClaimOf, LocksOf, HasPool, Refilling,
                RegistersOf, Asking, InPages
  <2> QED BY <1>1, <1>2, <2>1, <2>2 DEF SameOthers, Keeps
<1>6. HeldOK' /\ HeldBlocks' \subseteq HeldBlocks
  <2>1. HeldOK /\ held'[t] \subseteq held[t] /\ HeapMoved(t) /\ ClaimMoved(t)
    BY <1>3, <1>5 DEF IInv, SameOthers, Keeps
  <2> QED BY <1>1, <1>2, <2>1, HeldKept
<1>7. FreeingOK'
  <2>1. FreeingOK /\ HeapMoved(t)
    BY <1>5 DEF IInv, SameOthers
  <2>2. \A u \in Threads : Frees(u) => block[u] \notin HeldBlocks'
    BY <1>6, <2>1 DEF FreeingOK, FreeOne
  <2> QED BY <1>1, <1>2, <1>4, <2>1, <2>2, FreeingKept
<1>8. \A q \in Pools : FreeOf(q)' = FreeOf(q)
  <2>1. BeingFreed' = BeingFreed
    BY <1>2, <1>4, SameFreed
  <2>2. ASSUME NEW b \in HeldBlocks, b \notin HeldBlocks'
        PROVE  b = it.mem - Header
    <3>1. PICK u \in Threads : \E jt \in held[u] : b = jt.mem - Header
      BY DEF HeldBlocks
    <3>2. PICK jt \in held[u] : b = jt.mem - Header
      BY <3>1
    <3>3. jt \notin held'[u]
      BY <2>2, <3>2 DEF HeldBlocks
    <3> QED BY <1>3, <3>2, <3>3
  <2>3. \A b \in HeldBlocks \ HeldBlocks' : b \notin Blocks(header, "small")
    BY <1>1, <2>2 DEF Blocks
  <2>4. \A q \in Pools : SizedBlocks(header, q) \subseteq Blocks(header, "small")
    BY DEF SizedBlocks
  <2>5. \A q \in Pools : FreeOf(q)' = SizedBlocks(header, q) \ (HeldBlocks' \union BeingFreed)
    BY <1>1, <2>1 DEF FreeOf
  <2> QED BY <1>6, <2>3, <2>4, <2>5 DEF FreeOf
<1>9. ListsOK'
  <2>1. ListsOK /\ head' = head /\ header' = header
    BY <1>1 DEF IInv
  <2> QED BY <1>8, <2>1, ListsKept
<1>10. HeapOK(frames', header')
  BY <1>1
<1> QED BY <1>5, <1>6, <1>7, <1>9, <1>10, StepKeeps

(* The block is linked to what is the first of the list, ...               *)
LEMMA FreeLinkKeeps ==
  ASSUME IInv, NEW t \in Threads, FreeLink(t)
  PROVE  IInv'
<1> SUFFICES ASSUME NEW a, a = block[t], NEW p, p = pool[t]
             PROVE  IInv'
  OBVIOUS
<1>1. /\ TypesOK /\ pc[t] = "freeLink" /\ HeapOK(frames, header) /\ HeadersTyped(header)
      /\ p \in Pools /\ head[p] \in Nat \union {NoBlock}
      /\ header' = [header EXCEPT ![a].next = head[p]]
      /\ pc' = [pc EXCEPT ![t] = "freeHead"]
      /\ UNCHANGED <<map, frames, pageLock, head, poolLock, want, pool, block, run, held>>
  BY DEF IInv, TypesOK, HeapOK, FreeLink, At, Go, database, registers
<1>2. a \in Blocks(header, "small") /\ a \in DOMAIN header /\ Frees(t) /\ a \in BeingFreed
      /\ poolLock[p] = t
  BY <1>1, FreedOf DEF IInv, FreeingOK, FreeOne, Frees, InFree, Blocks, LocksOK, LocksOf,
                      HasPool
<1>3. /\ DOMAIN header' = DOMAIN header
      /\ header'[a].type = header[a].type /\ header'[a].size = header[a].size
      /\ header'[a].next = head[p] /\ header'[a] \in Headers
      /\ \A b \in DOMAIN header : b # a => header'[b] = header[b]
      /\ header' = [b \in DOMAIN header |-> header'[b]]
  <2>1. header[a] \in Headers
    BY <1>1, <1>2 DEF HeadersTyped
  <2> QED BY <1>1, <1>2, <2>1 DEF Headers
<1>4. SameShape(header', header) /\ HeadersTyped(header')
  <2>1. SameShape(header', header)
    BY <1>3 DEF SameShape
  <2>2. \A b \in DOMAIN header : header'[b] \in Headers
    BY <1>1, <1>3 DEF HeadersTyped
  <2> QED BY <1>1, <1>3, <2>1, <2>2 DEF HeadersTyped
<1>5. HeapOK(frames, header')
  BY <1>1, <1>4, ShapeKeepsHeap
<1>6. HeapMoved(t) /\ \A q : SizedBlocks(header', q) = SizedBlocks(header, q)
  <2>1. /\ \A type : Blocks(header', type) = Blocks(header, type)
        /\ \A b \in DOMAIN header : RunIn(header', b) = RunIn(header, b)
        /\ \A b, l \in DOMAIN header : Inside(header', b, l) <=> Inside(header, b, l)
        /\ \A q : SizedBlocks(header', q) = SizedBlocks(header, q)
    BY <1>4, ShapeDecides
  <2>2. \A type : Blocks(header, type) \subseteq DOMAIN header
    BY DEF Blocks
  <2>3. \A b \in DOMAIN header : header'[b].size = header[b].size
    BY <1>4 DEF SameShape
  <2> QED BY <2>1, <2>2, <2>3 DEF HeapMoved
<1>7. TypesOK' /\ OnlyThread(t) /\ pc'[t] = "freeHead"
  BY <1>1 DEF TypesOK, NumFrames, Labels, OnlyThread
<1>8. LinksKept(t)
  <2>1. ASSUME NEW u \in Threads, u # t, pc[u] = "freeHead"
        PROVE  block[u] \in DOMAIN header /\ block[u] # a
    <3>1. Frees(u)
      BY <2>1 DEF Frees, InFree
    <3> QED BY <1>2, <2>1, <3>1 DEF IInv, FreeingOK, FreeOne, Blocks
  <2> QED BY <1>3, <2>1 DEF LinksKept
<1>9. /\ HeadsMoved(t) /\ LocksMoved(t) /\ FramesMoved(t) /\ ClaimMoved(t) /\ ClaimOf(t)'
  BY <1>1, <1>7, SameFramesAreMoved DEF HeadsMoved, LocksMoved, ClaimMoved, Claims, ClaimOf
<1>10. LocksOf(t)' /\ RegistersOf(t)'
  BY <1>1, <1>2, <1>3, <1>7 DEF LocksOf, HasPool, RegistersOf, Asking, Refilling, InPages
<1>11. SameOthers(t)
  BY <1>1, <1>6, <1>7, <1>8, <1>9, <1>10 DEF SameOthers, Keeps
<1>12. KeepsHeld(t)
  BY <1>1, <1>2, <1>7 DEF KeepsHeld, Frees, InFree
<1>13. HeldBlocks' = HeldBlocks /\ BeingFreed' = BeingFreed
  BY <1>7, <1>12, HeldStays
<1>14. HeldOK'
  <2>1. HeldOK /\ held'[t] \subseteq held[t]
    BY <1>1 DEF IInv
  <2> QED BY <1>1, <1>6, <1>7, <1>9, <2>1, HeldKept
<1>15. FreeingOK'
  <2>1. FreeingOK
    BY DEF IInv
  <2>2. \A u \in Threads : Frees(u) => block[u] \notin HeldBlocks'
    BY <1>13, <2>1 DEF FreeingOK, FreeOne
  <2>3. Frees(t)' => Frees(t) /\ block'[t] = block[t] /\ pool'[t] = pool[t]
    BY <1>12 DEF KeepsHeld
  <2> QED BY <1>1, <1>6, <1>7, <2>1, <2>2, <2>3, FreeingKept
<1>16. ListsOK'
  <2>1. \A q \in Pools : FreeOf(q)' = FreeOf(q)
    BY <1>6, <1>13 DEF FreeOf
  <2>2. \A q \in Pools : \A b \in FreeOf(q) : header'[b].next = header[b].next
    BY <1>2, <1>3 DEF FreeOf, SizedBlocks, Blocks
  <2>3. ListsOK /\ head' = head
    BY <1>1 DEF IInv
  <2> QED BY <2>1, <2>2, <2>3, ListsKept
<1> QED BY <1>1, <1>5, <1>11, <1>14, <1>15, <1>16, StepKeeps

(* ... and becomes the first of it.                                        *)
LEMMA FreeHeadKeeps ==
  ASSUME IInv, NEW t \in Threads, FreeHead(t)
  PROVE  IInv'
<1> SUFFICES ASSUME NEW a, a = block[t], NEW p, p = pool[t]
             PROVE  IInv'
  OBVIOUS
<1>1. /\ TypesOK /\ pc[t] = "freeHead" /\ HeapOK(frames, header) /\ HeadersTyped(header)
      /\ p \in Pools
      /\ head' = [head EXCEPT ![p] = a]
      /\ poolLock' = [poolLock EXCEPT ![p] = NoThread]
      /\ pc' = [pc EXCEPT ![t] = "idle"]
      /\ want' = [want EXCEPT ![t] = 0]
      /\ pool' = [pool EXCEPT ![t] = 1]
      /\ block' = [block EXCEPT ![t] = NoBlock]
      /\ run' = [run EXCEPT ![t] = NoRun]
      /\ UNCHANGED <<map, frames, pageLock, header, held>>
  BY DEF IInv, TypesOK, HeapOK, FreeHead, Done, At, Go, Set, database
<1>2. /\ Frees(t) /\ a \in Blocks(header, "small") /\ header[a].size = BlockSizes[p]
      /\ a \notin HeldBlocks /\ a \in BeingFreed
      /\ poolLock[p] = t /\ header[a].next = head[p]
  BY <1>1, FreedOf DEF IInv, FreeingOK, FreeOne, Frees, InFree, LocksOK, LocksOf, HasPool,
                      RegistersOK, RegistersOf
<1>3. a \in Nat
  BY <1>1, <1>2 DEF HeadersTyped, Blocks
<1>4. TypesOK' /\ OnlyThread(t) /\ pc'[t] = "idle"
  <2>1. 1 \in Pools
    BY SizesAscend
  <2> QED BY <1>1, <1>3, <2>1 DEF TypesOK, NumFrames, Labels, OnlyThread
<1>5. /\ head'[p] = a /\ \A q \in Pools : q # p => head'[q] = head[q]
      /\ \A q \in Pools : q # p => poolLock'[q] = poolLock[q]
  BY <1>1 DEF TypesOK
<1>6. HeadsMoved(t) /\ LocksMoved(t)
  BY <1>1, <1>2, <1>5 DEF HeadsMoved, LocksMoved
<1>7. /\ ClaimMoved(t) /\ ClaimOf(t)' /\ LocksOf(t)' /\ RegistersOf(t)' /\ ~ Frees(t)'
  BY <1>4 DEF ClaimMoved, Claims, ClaimOf, LocksOf, HasPool, Refilling, RegistersOf,
              Asking, InPages, Frees, InFree
<1>8. SameOthers(t)
  <2>1. LinksKept(t) /\ FramesMoved(t) /\ HeapMoved(t)
    BY <1>1, SameFramesAreMoved, SameHeapIsMoved DEF LinksKept
  <2> QED BY <1>1, <1>4, <1>6, <1>7, <2>1 DEF SameOthers, Keeps
<1>9. HeldOK' /\ HeldBlocks' = HeldBlocks
  <2>1. HeldOK /\ held'[t] \subseteq held[t] /\ HeapMoved(t)
    BY <1>1, <1>8 DEF IInv, SameOthers
  <2>2. HeldOK'
    BY <1>1, <1>4, <1>7, <2>1, HeldKept
  <2> QED BY <1>1, <2>2 DEF HeldBlocks
<1>10. FreeingOK'
  <2>1. FreeingOK /\ HeapMoved(t)
    BY <1>8 DEF IInv, SameOthers
  <2>2. \A u \in Threads : Frees(u) => block[u] \notin HeldBlocks'
    BY <1>9, <2>1 DEF FreeingOK, FreeOne
  <2> QED BY <1>1, <1>4, <1>7, <2>1, <2>2, FreeingKept
<1>11. BeingFreed' = BeingFreed \ {a}
  <2>1. \A u \in Threads : u # t => (Frees(u)' <=> Frees(u)) /\ block'[u] = block[u]
    BY <1>4, OthersStay DEF OnlyThread
  <2>2. \A u \in Threads : u # t /\ Frees(u) => block[u] # a
    BY <1>2 DEF IInv, FreeingOK
  <2>3. {block'[u] : u \in {w \in Threads : Frees(w)'}}
          = {block[u] : u \in {w \in Threads : Frees(w)}} \ {a}
    BY <1>7, <2>1, <2>2
  <2> QED BY <2>3, FreedOf, FreedThen
<1>12. ListsOK'
  <2>1. a \in SizedBlocks(header, p) /\ \A q \in Pools : q # p => a \notin SizedBlocks(header, q)
    BY <1>1, <1>2, SizesAscend DEF SizedBlocks
  <2>2. /\ FreeOf(p)' = FreeOf(p) \union {a} /\ a \notin FreeOf(p)
        /\ \A q \in Pools : q # p => FreeOf(q)' = FreeOf(q)
    <3>1. \A q \in Pools : FreeOf(q)' = SizedBlocks(header, q)
                                          \ (HeldBlocks \union (BeingFreed \ {a}))
      BY <1>1, <1>9, <1>11 DEF FreeOf
    <3> QED BY <1>1, <1>2, <2>1, <3>1 DEF FreeOf
  <2>3. ASSUME NEW q \in Pools
        PROVE  HasList(header', head'[q], FreeOf(q)')
    <3>1. HasList(header, head[q], FreeOf(q))
      BY DEF IInv, ListsOK
    <3>2. CASE q = p
      <4>1. HasList(header, a, FreeOf(p) \union {a})
        BY <1>2, <1>3, <2>2, <3>1, <3>2, PushedOnList
      <4> QED BY <1>1, <1>5, <2>2, <3>2, <4>1
    <3>3. CASE q # p
      BY <1>1, <1>5, <2>2, <3>1, <3>3
    <3> QED BY <3>2, <3>3
  <2> QED BY <2>3 DEF ListsOK
<1>13. HeapOK(frames', header')
  BY <1>1
<1> QED BY <1>8, <1>9, <1>10, <1>12, <1>13, StepKeeps

-----------------------------------------------------------------------------
(* The invariant, and what follows from it.                                *)

(* No operation of the allocator breaks the invariant.                     *)
THEOREM NextKeeps ==
  ASSUME IInv, [Next]_vars
  PROVE  IInv'
<1>1. ASSUME NEW t \in Threads, Proceed(t)
      PROVE  IInv'
  <2>1. CASE PoolLock(t)
    BY <2>1, PoolLockKeeps
  <2>2. CASE PoolTest(t)
    BY <2>2, PoolTestKeeps
  <2>3. CASE PoolTake(t)
    BY <2>3, PoolTakeKeeps
  <2>4. CASE PageLock(t)
    BY <2>4, PageLockKeeps
  <2>5. CASE PageFound(t)
    BY <2>5, PageFoundKeeps
  <2>6. CASE PageMark(t)
    BY <2>6, PageMarkKeeps
  <2>7. CASE OutOfMemory(t)
    BY <2>7, OutOfMemoryKeeps
  <2>8. CASE WriteLargeHeader(t)
    BY <2>8, WriteLargeHeaderKeeps
  <2>9. CASE PoolFill(t)
    BY <2>9, PoolFillKeeps
  <2>10. CASE FreeLock(t)
    BY <2>10, FreeLockKeeps
  <2>11. CASE FreeLink(t)
    BY <2>11, FreeLinkKeeps
  <2>12. CASE FreeHead(t)
    BY <2>12, FreeHeadKeeps
  <2>13. CASE PageBeyond(t)
    BY <2>13, PageBeyondKeeps
  <2> QED
    BY <1>1, <2>1, <2>2, <2>3, <2>4, <2>5, <2>6, <2>7, <2>8, <2>9, <2>10, <2>11,
       <2>12, <2>13
    DEF Proceed
<1>2. ASSUME NEW t \in Threads, Call(t)
      PROVE  IInv'
  <2>1. ASSUME NEW bytes \in Requests, Request(t, bytes)
        PROVE  IInv'
    BY <2>1, RequestKeeps
  <2>2. ASSUME NEW it \in held[t], Free(t, it)
        PROVE  IInv'
    BY <2>2, FreeKeeps
  <2>3. ASSUME NEW it \in held[t], FreeLarge(t, it)
        PROVE  IInv'
    BY <2>3, FreeLargeKeeps
  <2> QED BY <1>2, <2>1, <2>2, <2>3 DEF Call
<1>3. CASE UNCHANGED vars
  BY <1>3, MemoryStaysKeeps DEF vars
<1> QED BY <1>1, <1>2, <1>3 DEF Next

(* The invariant holds in every state that the kernel's memory reaches.    *)
THEOREM Invariant == Spec => []IInv
<1>1. Init => IInv
  BY InitInvariant
<1>2. IInv /\ [Next]_vars => IInv'
  BY NextKeeps
<1> QED BY <1>1, <1>2, PTL DEF Spec

-----------------------------------------------------------------------------
(* The properties of PoolMemory.tla in the words of the invariant.         *)
LEMMA RunsAreRunIn ==
  /\ SmallBlocks = Blocks(header, "small")
  /\ LargeBlocks = Blocks(header, "large")
  /\ \A a : RunOf(a) = RunIn(header, a)
BY DEF SmallBlocks, LargeBlocks, Blocks, RunOf, RunIn

(* A block behind the header of a run ends on a frame of it.               *)
LEMMA EndsInRun ==
  ASSUME HeapOK(frames, header), NEW l \in Blocks(header, "large"), NEW x \in Nat,
         NEW n \in Nat \ {0}, l + Header <= x, x + n <= RunEnd(header, l)
  PROVE  (x + n - 1) \div PageSize \in RunIn(header, l)
<1> DEFINE s == l \div PageSize
           m == header[l].size \div PageSize
           q == (x + n - 1) \div PageSize
<1>1. /\ s \in Nat /\ m \in Nat \ {0} /\ l + Header = (s + 1) * PageSize
      /\ PageSize \in Nat \ {0}
  BY LargeIsTyped, Constants
<1>2. RunEnd(header, l) = (s + m) * PageSize /\ RunIn(header, l) = s..(s + m - 1)
  BY DEF RunEnd, RunIn
<1> HIDE DEF s, m
<1>3. x + n - 1 \in Nat
  OBVIOUS
<1>4. /\ (s + 1) * PageSize \in Nat /\ (s + m) * PageSize \in Nat
      /\ s * PageSize \in Nat /\ s * PageSize <= (s + 1) * PageSize
  BY <1>1, TimesMonotone
<1>5. s * PageSize <= x + n - 1 /\ x + n - 1 < (s + m) * PageSize
  BY <1>1, <1>2, <1>3, <1>4
<1>6. s <= q
  BY <1>1, <1>3, <1>5, DivAtLeast
<1>7. q < s + m
  <2>1. q \in Int /\ q * PageSize <= x + n - 1
    BY <1>1, <1>3, DivBounds
  <2> HIDE DEF q
  <2>2. SUFFICES ASSUME s + m <= q
                 PROVE  FALSE
    BY <1>1, <2>1
  <2>3. (s + m) * PageSize <= q * PageSize
    BY <1>1, <2>1, <2>2, TimesMonotone
  <2>4. q * PageSize \in Int
    BY <1>1, <2>1
  <2> QED BY <1>3, <1>4, <1>5, <2>1, <2>3, <2>4
<1>8. q \in Int
  BY <1>1, <1>3, DivBounds
<1> HIDE DEF q
<1>9. q \in s..(s + m - 1)
  BY <1>1, <1>6, <1>7, <1>8
<1> QED BY <1>2, <1>9 DEF q

(* No two runs share a frame and no two small blocks a byte, in whatever   *)
(* order any number of threads search, mark and cut (pfndb.c,              *)
(* MemoryPoolFillBuffer).                                                  *)
THEOREM RunsAndBlocksAreApart == Spec => []BlocksApart
<1>1. IInv => BlocksApart
  <2> SUFFICES ASSUME IInv
               PROVE  BlocksApart
    OBVIOUS
  <2>1. HeapOK(frames, header)
    BY DEF IInv
  <2>2. \A a, b \in LargeBlocks : a # b => RunOf(a) \intersect RunOf(b) = {}
    BY <2>1, RunsAreRunIn DEF HeapOK, RunsApart
  <2>3. \A a, b \in SmallBlocks : a < b => a + Header + header[a].size <= b
    BY <2>1, RunsAreRunIn DEF HeapOK, SmallApart
  <2>4. ASSUME NEW a \in SmallBlocks
        PROVE  \E l \in LargeBlocks :
                 /\ l + Header <= a
                 /\ (a + Header + header[a].size - 1) \div PageSize \in RunOf(l)
    <3>1. /\ a \in Nat /\ header[a].size \in Nat \ {0}
          /\ \E l \in Blocks(header, "large") : Inside(header, a, l)
      BY <2>1, SmallIsTyped, RunsAreRunIn
    <3>2. PICK l \in Blocks(header, "large") : Inside(header, a, l)
      BY <3>1
    <3>3. l + Header <= a /\ a + (Header + header[a].size) <= RunEnd(header, l)
      <4>1. a + Header + header[a].size = a + (Header + header[a].size)
        BY <3>1, Constants
      <4> QED BY <3>2, <4>1 DEF Inside
    <3>4. Header + header[a].size \in Nat \ {0}
      BY <3>1, Constants
    <3>5. (a + (Header + header[a].size) - 1) \div PageSize \in RunIn(header, l)
      BY <2>1, <3>1, <3>3, <3>4, EndsInRun
    <3>6. a + (Header + header[a].size) - 1 = a + Header + header[a].size - 1
      BY <3>1, Constants
    <3> QED BY <3>2, <3>3, <3>5, <3>6, RunsAreRunIn
  <2> QED BY <2>2, <2>3, <2>4 DEF BlocksApart
<1> QED BY <1>1, Invariant, PTL

(* For every map and whatever the frame table held before, no run ever has *)
(* a frame of the kernel's image or of the frame table, nor one of a page- *)
(* aligned reserved block that no later usable block covers, nor one that  *)
(* only blocks cover that are not usable (PfnDatabaseInitialize).  Frames  *)
(* without a block, as are those of entries that Visits passes over, are   *)
(* as the memory was; the theorem says nothing of them.                    *)
THEOREM KernelIsUntouched == Spec => []KernelUntouched
<1>1. IInv => KernelUntouched
  BY RunsAreRunIn DEF IInv, UntouchedOK, Kept, Untouchable, KernelUntouched
<1> QED BY <1>1, Invariant, PTL

(* Every small block is on the list of its pool, which ends, or with one   *)
(* client, or on its way back: none is lost and none is handed out twice   *)
(* (MemoryPoolAlloc, MemoryPoolFree).                                      *)
THEOREM BlocksStayInPlace == Spec => []EveryBlockInItsPlace
<1>1. IInv => EveryBlockInItsPlace
  <2> SUFFICES ASSUME IInv
               PROVE  EveryBlockInItsPlace
    OBVIOUS
  <2>1. /\ TypesOK /\ HeapOK(frames, header) /\ ListsOK
        /\ HeldOK /\ FreeingOK
    BY DEF IInv
  <2>2. IsFiniteSet(SmallBlocks)
    <3>1. NumFrames \in Nat /\ DOMAIN frames = 0..(NumFrames - 1)
      BY <2>1, FrameCountIsPositive DEF TypesOK, NumFrames
    <3> QED BY <2>1, <3>1, SmallBlocksAreFinite, RunsAreRunIn
  <2>3. ASSUME NEW p \in Pools
        PROVE  /\ Follow(p)[Cardinality(SmallBlocks)] = NoBlock
               /\ ListOf(p) = {a \in SmallBlocks : header[a].size = BlockSizes[p]}
                                \ (HeldBlocks \union BeingFreed)
    <3>1. PICK s \in Seq(Nat) : IsList(header, head[p], s, FreeOf(p))
      BY <2>1 DEF ListsOK, HasList
    <3>2. /\ FreeOf(p) \subseteq SmallBlocks
          /\ FreeOf(p) = {a \in SmallBlocks : header[a].size = BlockSizes[p]}
                           \ (HeldBlocks \union BeingFreed)
      BY RunsAreRunIn DEF FreeOf, SizedBlocks
    <3> QED BY <2>2, <3>1, <3>2, ListIsFollowed
  <2>4. HeldBlocks \intersect BeingFreed = {}
    BY <2>1, FreedOf DEF FreeingOK, FreeOne
  <2>5. \A t, u \in Threads : t # u => held[t] \intersect held[u] = {}
    BY <2>1 DEF HeldOK
  <2> QED BY <2>3, <2>4, <2>5 DEF EveryBlockInItsPlace
<1> QED BY <1>1, Invariant, PTL

(* What a client asked for lies within the block or the run that it got    *)
(* (MmAllocatePoolMemory).                                                 *)
THEOREM RequestsAreMet == Spec => []RequestsAreServed
<1>1. IInv => RequestsAreServed
  <2> SUFFICES ASSUME IInv, NEW t \in Threads, NEW it \in held[t],
                      NEW a, a = it.mem - Header
               PROVE  CASE header[a].type = "small" -> it.bytes <= header[a].size
                        [] header[a].type = "large" ->
                             \A i \in RunOf(a) : frames[i] = "mapped"
                               /\ (it.mem + it.bytes - 1) \div PageSize \in RunOf(a)
    BY DEF RequestsAreServed
  <2>1. Served(it) /\ HeapOK(frames, header)
    BY DEF IInv, HeldOK
  <2>2. a \in DOMAIN header /\ header[a].type \in {"small", "large"}
    BY <2>1 DEF Served, HeapOK, HeadersTyped, Headers
  <2>3. CASE header[a].type = "small"
    BY <2>1, <2>3 DEF Served
  <2>4. CASE header[a].type = "large"
    <3>1. \A i \in RunIn(header, a) : frames[i] = "mapped"
      BY <2>1, <2>2, <2>4 DEF HeapOK, RunsInFrames, Blocks
    <3>2. (it.mem + it.bytes - 1) \div PageSize \in RunIn(header, a)
      BY <2>1, <2>4 DEF Served
    <3> QED BY <2>4, <3>1, <3>2, RunsAreRunIn
  <2> QED BY <2>2, <2>3, <2>4
<1> QED BY <1>1, Invariant, PTL

-----------------------------------------------------------------------------
(* The machine that stops for want of memory, and the abstract allocator.  *)

(* A machine that stopped for want of memory stays as it was: the thread   *)
(* whose search found nothing is still there, and so are the frames.       *)
StoppedOK == machine = "bugcheck" =>
               \E t \in Threads : /\ pc[t] = "bugcheck"
                                  /\ FindRun(frames, PagesOf(t)) = NoRun

(* OutOfMemory leaves the thread and the frames that it looked at.         *)
LEMMA OutOfMemoryStops ==
  ASSUME TypesOK, NEW t \in Threads, OutOfMemory(t)
  PROVE  StoppedOK'
<1>1. /\ pc'[t] = "bugcheck" /\ UNCHANGED <<frames, want>>
      /\ FindRun(frames, PagesOf(t)) = NoRun
  BY DEF TypesOK, OutOfMemory, Go, registers
<1>2. PagesOf(t)' = PagesOf(t)
  BY <1>1 DEF PagesOf, Filling
<1> QED BY <1>1, <1>2 DEF StoppedOK

(* Nothing else stops the machine for want of memory.                      *)
LEMMA OthersDoNotStop ==
  ASSUME NEW t \in Threads, Proceed(t) \/ Call(t), ~ OutOfMemory(t)
  PROVE  machine' # "bugcheck"
BY DEF Proceed, Call, At, PoolLock, PoolTest, PoolTake, PageLock, PageFound, PageBeyond,
       PageMark, WriteLargeHeader, PoolFill, FreeLock, FreeLink, FreeHead, Request, Free, FreeLarge

(* A machine that has stopped does nothing.                                *)
LEMMA StoppedStays ==
  ASSUME IInv, StoppedOK, [Next]_vars
  PROVE  StoppedOK'
<1>1. CASE UNCHANGED vars
  <2>1. UNCHANGED <<machine, pc, frames, want>>
    BY <1>1 DEF vars, database, registers
  <2>2. \A t : PagesOf(t)' = PagesOf(t)
    BY <2>1 DEF PagesOf, Filling
  <2> QED BY <2>1, <2>2 DEF StoppedOK
<1>2. ASSUME NEW t \in Threads, Proceed(t) \/ Call(t)
      PROVE  StoppedOK'
  <2>1. CASE OutOfMemory(t)
    BY <2>1, OutOfMemoryStops DEF IInv
  <2>2. CASE ~ OutOfMemory(t)
    BY <1>2, <2>2, OthersDoNotStop DEF StoppedOK
  <2> QED BY <2>1, <2>2
<1> QED BY <1>1, <1>2 DEF Next

(* The machine stops for want of memory only if no run of free frames is   *)
(* long enough, but for one that ends at the last frame (pfndb.c:225).     *)
THEOREM SearchGivesUpNearlyNothing == Spec => []SearchIsNearlyComplete
<1>1. Init => StoppedOK
  BY DEF Init, StoppedOK
<1>2. IInv /\ StoppedOK /\ [Next]_vars => StoppedOK'
  BY StoppedStays
<1>3. IInv /\ StoppedOK => SearchIsNearlyComplete
  <2> SUFFICES ASSUME IInv, StoppedOK, machine = "bugcheck"
               PROVE  \E t \in Threads :
                        /\ pc[t] = "bugcheck"
                        /\ \A start \in DOMAIN frames :
                             LET end == start + PagesOf(t)
                             IN  (\A i \in start..(end - 1) :
                                    i \in DOMAIN frames /\ frames[i] = "free")
                                   => end = Cardinality(DOMAIN frames)
    BY DEF SearchIsNearlyComplete
  <2>1. PICK t \in Threads : /\ pc[t] = "bugcheck"
                             /\ FindRun(frames, PagesOf(t)) = NoRun
    BY DEF StoppedOK
  <2> DEFINE N == NumFrames
  <2>2. /\ N \in Nat \ {0} /\ frames \in [0..(N - 1) -> Attributes]
        /\ PagesOf(t) \in Nat \ {0} /\ DOMAIN frames = 0..(N - 1)
    BY FrameCountIsPositive, PagesAreTyped DEF IInv, TypesOK, NumFrames
  <2> HIDE DEF N
  <2>3. Cardinality(0..(N - 1)) = N
    <3>1. Cardinality(0..(N - 1)) = IF 0 > N - 1 THEN 0 ELSE (N - 1) - 0 + 1
      BY <2>2, FS_Interval
    <3> QED BY <2>2, <3>1
  <2>4. ASSUME NEW start \in DOMAIN frames,
               \A i \in start..((start + PagesOf(t)) - 1) :
                 i \in DOMAIN frames /\ frames[i] = "free"
        PROVE  start + PagesOf(t) = Cardinality(DOMAIN frames)
    <3>1. start + PagesOf(t) = N
      <4>1. /\ start \in 0..(N - 1)
            /\ AllFree(frames, N, start, PagesOf(t))
        <5>1. start \in Int /\ (start + PagesOf(t)) - 1 = start + PagesOf(t) - 1
          BY <2>2
        <5> QED BY <2>2, <2>4, <5>1 DEF AllFree
      <4>2. FindRun(frames, PagesOf(t)) = NoRun
        BY <2>1
      <4> QED BY <2>2, <4>1, <4>2, NotFoundIsNearlyNone
    <3> QED BY <2>2, <2>3, <3>1
  <2> QED BY <2>1, <2>4
<1> QED BY <1>1, <1>2, <1>3, Invariant, PTL DEF Spec

-----------------------------------------------------------------------------
(* What Allocator.tla calls given.                                         *)
Given == UNION {held[t] : t \in Threads}

(* The memory behind the header of an item lies inside the run, or in the  *)
(* small block, whose header that is.                                      *)
LEMMA LargeItemEnds ==
  ASSUME IInv, NEW t \in Threads, NEW it \in held[t],
         NEW a, a = it.mem - Header, a \in Blocks(header, "large")
  PROVE  a + Header + it.bytes <= RunEnd(header, a)
<1> DEFINE s == a \div PageSize
           m == header[a].size \div PageSize
           x == it.mem + it.bytes - 1
<1>1. /\ HeapOK(frames, header) /\ Served(it)
      /\ it \in [mem : Nat, bytes : Nat \ {0}]
  BY DEF IInv, HeldOK, TypesOK
<1>2. /\ it.mem \in Nat /\ it.bytes \in Nat \ {0} /\ PageSize \in Nat \ {0}
      /\ Header \in Nat
  BY <1>1, Constants
<1>3. s \in Nat /\ m \in Nat \ {0}
  BY <1>1, LargeIsTyped
<1>4. x \div PageSize \in s..(s + m - 1)
  BY <1>1 DEF Served, RunIn, Blocks
<1>5. RunEnd(header, a) = (s + m) * PageSize
  BY DEF RunEnd
<1>6. x \in Nat /\ a + Header + it.bytes = x + 1
  BY <1>2
<1> HIDE DEF s, m, x
<1>7. x < (x \div PageSize) * PageSize + PageSize /\ x \div PageSize \in Int
  BY <1>2, <1>6, DivBounds
<1>8. x \div PageSize + 1 <= s + m
  BY <1>3, <1>4, <1>7
<1>9. (x \div PageSize + 1) * PageSize <= (s + m) * PageSize
  BY <1>2, <1>3, <1>7, <1>8, TimesMonotone
<1>10. /\ (x \div PageSize + 1) * PageSize = (x \div PageSize) * PageSize + PageSize
       /\ (x \div PageSize) * PageSize \in Int /\ (s + m) * PageSize \in Int
  BY <1>2, <1>3, <1>7
<1> QED BY <1>2, <1>5, <1>6, <1>7, <1>9, <1>10

(* A small block is as large as its client wants.                          *)
LEMMA SmallItemEnds ==
  ASSUME IInv, NEW t \in Threads, NEW it \in held[t],
         NEW a, a = it.mem - Header, a \in Blocks(header, "small")
  PROVE  it.bytes <= header[a].size
BY DEF IInv, HeldOK, Served, Blocks

(* What the clients hold overlaps nowhere.                                 *)
LEMMA HeldIsApart ==
  ASSUME IInv, NEW t \in Threads, NEW it \in held[t],
         NEW u \in Threads, NEW jt \in held[u], it # jt
  PROVE  Memory!Apart(it, jt)
<1> SUFFICES ASSUME NEW a, a = it.mem - Header, NEW b, b = jt.mem - Header
             PROVE  Memory!Apart(it, jt)
  OBVIOUS
<1>1. /\ HeapOK(frames, header) /\ Served(it) /\ Served(jt)
      /\ it \in [mem : Nat, bytes : Nat \ {0}] /\ jt \in [mem : Nat, bytes : Nat \ {0}]
      /\ it.mem # jt.mem
  BY DEF IInv, HeldOK, TypesOK
<1>2. /\ it.mem \in Nat /\ it.bytes \in Nat \ {0} /\ jt.mem \in Nat
      /\ jt.bytes \in Nat \ {0} /\ Header \in Nat \ {0}
      /\ it.mem = a + Header /\ jt.mem = b + Header /\ a # b
  BY <1>1, Constants
<1>3. /\ a \in Blocks(header, "small") \/ a \in Blocks(header, "large")
      /\ b \in Blocks(header, "small") \/ b \in Blocks(header, "large")
  BY <1>1 DEF Served, Blocks, HeapOK, HeadersTyped, Headers
<1>4. \/ a + Header + it.bytes <= b + Header
      \/ b + Header + jt.bytes <= a + Header
  <2>1. CASE a \in Blocks(header, "small") /\ b \in Blocks(header, "small")
    <3>1. /\ a \in Nat /\ b \in Nat /\ header[a].size \in Nat /\ header[b].size \in Nat
          /\ it.bytes <= header[a].size /\ jt.bytes <= header[b].size
      BY <1>1, <2>1, SmallIsTyped, SmallItemEnds
    <3>2. a + Header + header[a].size <= b \/ b + Header + header[b].size <= a
      <4>1. a < b \/ b < a
        BY <1>2, <3>1
      <4> QED BY <1>1, <2>1, <4>1 DEF HeapOK, SmallApart
    <3> QED BY <1>2, <3>1, <3>2
  <2>2. CASE a \in Blocks(header, "large") /\ b \in Blocks(header, "large")
    <3>1. /\ a + Header + it.bytes <= RunEnd(header, a) /\ a \in Nat
          /\ b + Header + jt.bytes <= RunEnd(header, b) /\ b \in Nat
      BY <1>1, <2>2, LargeIsTyped, LargeItemEnds
    <3>2. /\ a + Header \in Nat /\ a + Header <= a + Header
          /\ b + Header \in Nat /\ b + Header <= b + Header
          /\ it.bytes \in Nat /\ jt.bytes \in Nat
      BY <1>2, <3>1
    <3>3. HeapOK(frames, header) /\ a # b
      BY <1>1, <1>2
    <3>4. ASSUME NEW x \in Nat, NEW y \in Nat, NEW c \in Nat, NEW d \in Nat,
                 a + Header <= x, x + c <= RunEnd(header, a),
                 b + Header <= y, y + d <= RunEnd(header, b)
          PROVE  x + c <= y \/ y + d <= x
      BY <2>2, <3>3, <3>4, InsidesApart
    <3> QED BY <3>1, <3>2, <3>4
  <2>3. ASSUME NEW x \in Blocks(header, "small"), NEW n \in Nat, n <= header[x].size,
               NEW y \in Blocks(header, "large"), NEW k \in Nat,
               y + Header + k <= RunEnd(header, y),
               ~ Inside(header, x, y)
        PROVE  \/ x + Header + n <= y + Header
               \/ y + Header + k <= x + Header
    <3>1. /\ x \in Nat /\ header[x].size \in Nat /\ y \in Nat
          /\ \E l \in Blocks(header, "large") : Inside(header, x, l)
      BY <1>1, SmallIsTyped, LargeIsTyped
    <3>2. PICK l \in Blocks(header, "large") : Inside(header, x, l)
      BY <3>1
    <3>3. l # y /\ l + Header <= x /\ x + (Header + header[x].size) <= RunEnd(header, l)
      <4>1. x + (Header + header[x].size) = x + Header + header[x].size
        BY <1>2, <3>1
      <4> QED BY <2>3, <3>2, <4>1 DEF Inside
    <3>4. y + Header \in Nat /\ Header + header[x].size \in Nat
      BY <1>2, <3>1
    <3>5. \/ x + (Header + header[x].size) <= y + Header
          \/ (y + Header) + k <= x
      <4>1. y + Header <= y + Header
        BY <3>4
      <4> QED BY <1>1, <2>3, <3>1, <3>2, <3>3, <3>4, <4>1, InsidesApart
    <3> QED BY <1>2, <2>3, <3>1, <3>5
  <2>4. CASE a \in Blocks(header, "small") /\ b \in Blocks(header, "large")
    <3>1. /\ it.bytes <= header[a].size /\ b + Header + jt.bytes <= RunEnd(header, b)
          /\ ~ Inside(header, a, b)
      BY <1>1, <2>4, SmallItemEnds, LargeItemEnds DEF Served, Blocks
    <3> QED BY <1>2, <2>3, <2>4, <3>1
  <2>5. CASE a \in Blocks(header, "large") /\ b \in Blocks(header, "small")
    <3>1. /\ jt.bytes <= header[b].size /\ a + Header + it.bytes <= RunEnd(header, a)
          /\ ~ Inside(header, b, a)
      BY <1>1, <2>5, SmallItemEnds, LargeItemEnds DEF Served, Blocks
    <3> QED BY <1>2, <2>3, <2>5, <3>1
  <2> QED BY <1>3, <2>1, <2>2, <2>4, <2>5
<1> QED BY <1>2, <1>4 DEF Memory!Apart

(* No two items that are given overlap.                                    *)
GivenApart == \A it, jt \in Given : it # jt => Memory!Apart(it, jt)

(* Each step of the allocator is one of Allocator.tla's, or changes        *)
(* nothing that the clients hold.                                          *)
LEMMA GivesStep ==
  ASSUME TypesOK', GivenApart', NEW t \in Threads, NEW mem, NEW bytes,
         held' = [held EXCEPT ![t] = @ \union {[mem |-> mem, bytes |-> bytes]}],
         TypesOK
  PROVE  [Memory!Next]_Given
<1> SUFFICES ASSUME NEW it, it = [mem |-> mem, bytes |-> bytes]
             PROVE  [Memory!Next]_Given
  OBVIOUS
<1>1. it.mem = mem /\ it.bytes = bytes
  OBVIOUS
<1>2. /\ held'[t] = held[t] \union {it}
      /\ \A u \in Threads : u # t => held'[u] = held[u]
  BY DEF TypesOK
<1>3. Given' = Given \union {it}
  BY <1>2 DEF Given
<1>4. CASE it \in Given
  BY <1>3, <1>4
<1>5. CASE it \notin Given
  <2>1. it \in Given' \ Given
    BY <1>3, <1>5
  <2>2. it.bytes > 0
    <3>1. it \in [mem : Nat, bytes : Nat \ {0}]
      BY <1>2 DEF TypesOK
    <3> QED BY <3>1
  <2>3. \A other \in Given : Memory!Apart(it, other)
    BY <1>3, <1>5, <2>1 DEF GivenApart, Memory!Apart
  <2>4. Memory!Give(it.mem, it.bytes)
    BY <1>1, <1>3, <2>2, <2>3 DEF Memory!Give, Given
  <2> QED BY <2>1, <2>4 DEF Memory!Next, Given
<1> QED BY <1>4, <1>5

(* To take an item back is a step of Allocator.tla.                        *)
LEMMA TakesStep ==
  ASSUME IInv, NEW t \in Threads, NEW it \in held[t],
         held' = [held EXCEPT ![t] = @ \ {it}]
  PROVE  [Memory!Next]_Given
<1>1. /\ held'[t] = held[t] \ {it}
      /\ \A u \in Threads : u # t => held'[u] = held[u]
  BY DEF IInv, TypesOK
<1>2. \A u \in Threads : u # t => it \notin held[u]
  BY DEF IInv, HeldOK
<1>3. Given' = Given \ {it}
  BY <1>1, <1>2 DEF Given
<1>4. it \in Given
  BY DEF Given
<1> QED BY <1>3, <1>4 DEF Memory!Next, Memory!TakeBack, Given

(* Each step of the kernel's memory is a step of Allocator.tla or gives and*)
(* takes nothing.                                                          *)
LEMMA StepImplements ==
  ASSUME IInv, IInv', GivenApart', [Next]_vars
  PROVE  [Memory!Next]_Given
<1>0. TypesOK /\ TypesOK'
  BY DEF IInv
<1>1. CASE UNCHANGED held
  BY <1>1 DEF Given
<1>2. ASSUME NEW t \in Threads, Proceed(t)
      PROVE  [Memory!Next]_Given
  <2>1. CASE PoolTake(t)
    BY <1>0, <2>1, GivesStep DEF PoolTake, Return
  <2>2. CASE WriteLargeHeader(t) /\ ~ Filling(t)
    BY <1>0, <2>2, GivesStep DEF WriteLargeHeader, Return
  <2>3. CASE WriteLargeHeader(t) /\ Filling(t)
    BY <1>1, <2>3 DEF WriteLargeHeader
  <2>4. CASE ~ PoolTake(t) /\ ~ WriteLargeHeader(t)
    BY <1>1, <1>2, <2>4
    DEF Proceed, PoolLock, PoolTest, PageLock, PageFound, PageBeyond, PageMark,
        OutOfMemory, PoolFill, FreeLock, FreeLink, FreeHead
  <2> QED BY <2>1, <2>2, <2>3, <2>4
<1>3. ASSUME NEW t \in Threads, Call(t)
      PROVE  [Memory!Next]_Given
  <2>1. ASSUME NEW bytes \in Requests, Request(t, bytes)
        PROVE  [Memory!Next]_Given
    BY <1>1, <2>1 DEF Request
  <2>2. ASSUME NEW it \in held[t], Free(t, it) \/ FreeLarge(t, it)
        PROVE  [Memory!Next]_Given
    BY <2>2, TakesStep DEF Free, FreeLarge
  <2> QED BY <1>3, <2>1, <2>2 DEF Call
<1>4. CASE UNCHANGED vars
  BY <1>1, <1>4 DEF vars
<1> QED BY <1>2, <1>3, <1>4 DEF Next

(* The pools and the frame database, with their locks and their refills,   *)
(* are an allocator: what is handed out overlaps nothing that is held.     *)
THEOREM AllocatorIsImplemented == Spec => ImplementsAllocator
<1>1. Init => Memory!Init
  BY DEF Init, Memory!Init
<1>2. IInv => GivenApart
  BY HeldIsApart DEF GivenApart, Given
<1>3. IInv /\ IInv' /\ GivenApart' /\ [Next]_vars => [Memory!Next]_Given
  BY StepImplements
<1>4. Spec => [][Memory!Next]_Given
  BY <1>2, <1>3, Invariant, PTL DEF Spec
<1>5. Spec => Memory!Init
  BY <1>1 DEF Spec
<1> QED BY <1>4, <1>5, PTL DEF ImplementsAllocator, Memory!Spec, Given
=============================================================================
