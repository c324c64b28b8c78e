----------------------------- MODULE HeapGrowth -----------------------------
(***************************************************************************)
(* The kernel heap and a user heap with their rescue callbacks             *)
(* (src/kernel/src/allocator.rs) over the buddy allocator of the           *)
(* buddy_system_allocator crate (LockedHeapWithRescue<38>).                *)
(*                                                                         *)
(* An allocation the buddy cannot serve calls the rescue closure, which    *)
(* sizes a growth, maps the pages at the heap's end under MEMORY and       *)
(* feeds them to the buddy with add_to_heap; the allocation is then tried  *)
(* once more, and a second failure returns null.  The whole call runs      *)
(* under the heap's own lock, so each alloc and dealloc is one step.  The  *)
(* interleaving of the heap lock with the other locks is MainLoop's.       *)
(*                                                                         *)
(* Addresses are in units of Word bytes (size_of::<usize>()), and a page   *)
(* is Page words.  The heaps' virtual bases are aligned far beyond any     *)
(* size the model reaches, as KERNEL_HEAP_START (an L4 slot) and           *)
(* USER_HEAP_START (an L3 slot) are.                                       *)
(***************************************************************************)
EXTENDS Naturals, Sequences, SequencesExt

CONSTANTS
  Page,          \* words per 4 KiB page
  Order,         \* the buddy's ORDER: free lists 0..Order-1
  HeapBase,      \* heap -> virtual base (v::KERNEL_HEAP_START, v::USER_HEAP_START)
  Layouts,       \* [size, align] of the requests (in words)
  FreeFrames,    \* frames the frame allocator can still hand out
  MaxOps         \* bound on alloc/dealloc calls

Heaps == DOMAIN HeapBase

\* The buddy's smallest block is one word (size_of::<usize>()).
Word == 1

MaxOf(a, b) == IF a >= b THEN a ELSE b
MinOf(a, b) == IF a <= b THEN a ELSE b

\* u64::next_power_of_two: the smallest power of two >= n (1 for n = 0).
RECURSIVE NextPowerOfTwo(_)
NextPowerOfTwo(n) == IF n <= 1 THEN 1 ELSE 2 * NextPowerOfTwo((n + 1) \div 2)

\* The largest power of two <= n, for n >= 1 (prev_power_of_two).
RECURSIVE PrevPowerOfTwo(_)
PrevPowerOfTwo(n) == IF n < 2 THEN 1 ELSE 2 * PrevPowerOfTwo(n \div 2)

\* x & (!x + 1): the lowest set bit of x >= 1.
RECURSIVE LowBit(_)
LowBit(x) == IF x % 2 = 1 THEN 1 ELSE 2 * LowBit(x \div 2)

RECURSIVE Log2(_)
Log2(p) == IF p <= 1 THEN 0 ELSE 1 + Log2(p \div 2)

AlignUp(x, a) == ((x + a - 1) \div a) * a

VARIABLES
  freeList,      \* heap -> class -> stack of free block addresses
  total,         \* heap -> stats_total_bytes
  mapped,        \* pages mapped by the rescues, all heaps
  frames,        \* frames left in the frame allocator
  live,          \* allocations handed out and not yet freed
  ops,           \* alloc/dealloc calls made
  state          \* "running", "null" (alloc returned null) or "panic"

vars == <<freeList, total, mapped, frames, live, ops, state>>

Addr == Nat
Alloc == [heap : Heaps, addr : Addr, layout : Layouts]

TypeOK ==
  /\ freeList \in [Heaps -> [0..(Order - 1) -> Seq(Addr)]]
  /\ total \in [Heaps -> Nat]
  /\ mapped \subseteq Nat
  /\ frames \in 0..FreeFrames
  /\ live \subseteq Alloc
  /\ ops \in 0..MaxOps
  /\ state \in {"running", "null", "panic"}

\* Both heaps start empty: the kernel heap is created lazily, a user heap by
\* create_user_heap, and neither maps anything before its first rescue.
Init ==
  /\ freeList = [h \in Heaps |-> [k \in 0..(Order - 1) |-> <<>>]]
  /\ total = [h \in Heaps |-> 0]
  /\ mapped = {}
  /\ frames = FreeFrames
  /\ live = {}
  /\ ops = 0
  /\ state = "running"

-----------------------------------------------------------------------------
(* The buddy allocator (buddy_system_allocator::Heap).                     *)

\* The block a layout takes: size rounded up to a power of two, at least
\* the alignment and a word.
BlockSize(l) == MaxOf(NextPowerOfTwo(l.size), MaxOf(l.align, Word))

\* The smallest class >= k with a free block, or Order if none.
FreeClass(fl, k) ==
  IF \E i \in k..(Order - 1) : fl[i] # <<>>
    THEN CHOOSE i \in k..(Order - 1) : fl[i] # <<>> /\ \A j \in k..(i - 1) : fl[j] = <<>>
    ELSE Order

\* Heap::alloc's split: pop a block of class i, push its upper then its
\* lower half on class i - 1, down to class k.
RECURSIVE SplitDown(_, _, _)
SplitDown(fl, i, k) ==
  IF i = k THEN fl
  ELSE LET b == Head(fl[i])
       IN  SplitDown([fl EXCEPT ![i] = Tail(@),
                                ![i - 1] = <<b, b + 2^(i - 1)>> \o @], i - 1, k)

CanAlloc(fl, l) == FreeClass(fl, Log2(BlockSize(l))) < Order

\* Heap::alloc when CanAlloc: the address and the free lists after it.
AllocAddr(fl, l) == Head(SplitDown(fl, FreeClass(fl, Log2(BlockSize(l))), Log2(BlockSize(l)))[Log2(BlockSize(l))])
AllocLists(fl, l) ==
  LET k == Log2(BlockSize(l))
      s == SplitDown(fl, FreeClass(fl, k), k)
  IN  [s EXCEPT ![k] = Tail(@)]

\* Heap::dealloc: push the block, then while its buddy is free in the same
\* class, take both out and push their union one class up.
RECURSIVE Merge(_, _, _)
Merge(fl, cur, k) ==
  LET buddy == IF (cur \div 2^k) % 2 = 0 THEN cur + 2^k ELSE cur - 2^k
  IN  IF k < Order - 1 /\ Contains(fl[k], buddy)
        THEN Merge([fl EXCEPT ![k] = Remove(Tail(@), buddy),
                              ![k + 1] = Cons(MinOf(cur, buddy), @)],
                   MinOf(cur, buddy), k + 1)
        ELSE fl

FreeLists(fl, a, l) ==
  LET k == Log2(BlockSize(l)) IN Merge([fl EXCEPT ![k] = Cons(a, @)], a, k)

\* Heap::add_to_heap(start, end): carve [start, end) into the largest blocks
\* that the lowest bit of the current address and the remaining length allow.
RECURSIVE AddToHeap(_, _, _)
AddToHeap(fl, cur, end) ==
  IF cur + Word > end THEN fl
  ELSE LET size == MinOf(LowBit(cur), PrevPowerOfTwo(end - cur))
       IN  AddToHeap([fl EXCEPT ![Log2(size)] = Cons(cur, @)], cur + size, end)

-----------------------------------------------------------------------------
(* The rescue closures of allocator.rs.                                    *)

\* min_size_to_add and new_total_size (allocator.rs:21-25, 66-74).
MinSizeToAdd(old, l) == NextPowerOfTwo(AlignUp(old, l.align) - old + l.size)
\* Mutant: only the needed size added, not grown to a power of two.
NewTotalSize_min_only(old, l) == old + MinSizeToAdd(old, l)

NewTotalSize(old, l) ==
  MaxOf(NextPowerOfTwo(MinSizeToAdd(old, l) + old), MinSizeToAdd(old, l) * 2)

\* The page range of the growth: from the page of the heap's end through
\* the page of its last new word (allocator.rs:27-35).
\* Mutant: the user closure copied with v::KERNEL_HEAP_START as its base.
StartAddr_kernel_base(h) == HeapBase["kernel"] + total[h]

\* start = HEAP_START + heap.stats_total_bytes()
StartAddr(h) == HeapBase[h] + total[h]

GrowthFirst(h, l) == StartAddr(h) \div Page
GrowthLast(h, l) == (StartAddr(h) + NewTotalSize(total[h], l) - total[h] - 1) \div Page

\* The rescue: map each page of the range with a fresh frame under MEMORY
\* (map_ram_kernel / map_ram_user panic when frames run out, and map_to
\* panics on a page already mapped), then add_to_heap from the first page
\* to the end of the last one.
\* Mutant: the frame allocator's None not turned into a panic.
Rescue_no_oom(h, l) ==
  LET first == GrowthFirst(h, l)
      last  == GrowthLast(h, l)
      pages == first..last
      fl    == AddToHeap(freeList[h], first * Page, (last + 1) * Page)
  IN  IF pages \cap mapped # {}
        THEN state' = "panic" /\ UNCHANGED <<freeList, total, mapped, frames, live>>
      ELSE
        /\ mapped' = mapped \cup pages
        /\ frames' = frames - Cardinality(pages)
        /\ total' = [total EXCEPT ![h] = @ + (last + 1 - first) * Page]
        /\ IF CanAlloc(fl, l)
             THEN /\ freeList' = [freeList EXCEPT ![h] = AllocLists(fl, l)]
                  /\ live' = live \cup {[heap |-> h, addr |-> AllocAddr(fl, l), layout |-> l]}
                  /\ UNCHANGED state
             ELSE /\ freeList' = [freeList EXCEPT ![h] = fl]
                  /\ state' = "null"
                  /\ UNCHANGED live

Rescue(h, l) ==
  LET first == GrowthFirst(h, l)
      last  == GrowthLast(h, l)
      pages == first..last
      fl    == AddToHeap(freeList[h], first * Page, (last + 1) * Page)
  IN  IF Cardinality(pages) > frames \/ pages \cap mapped # {}
        THEN state' = "panic" /\ UNCHANGED <<freeList, total, mapped, frames, live>>
      ELSE
        /\ mapped' = mapped \cup pages
        /\ frames' = frames - Cardinality(pages)
        /\ total' = [total EXCEPT ![h] = @ + (last + 1 - first) * Page]
        /\ IF CanAlloc(fl, l)
             THEN /\ freeList' = [freeList EXCEPT ![h] = AllocLists(fl, l)]
                  /\ live' = live \cup {[heap |-> h, addr |-> AllocAddr(fl, l), layout |-> l]}
                  /\ UNCHANGED state
             ELSE /\ freeList' = [freeList EXCEPT ![h] = fl]
                  /\ state' = "null"
                  /\ UNCHANGED live

\* KernelAllocatorWrapper::alloc / alloc_zeroed (kernel heap) and the
\* user program's alloc system call (user heap): LockedHeapWithRescue::alloc
\* under the heap lock: the buddy, else the rescue and one retry.
HeapAlloc(h, l) ==
  /\ state = "running" /\ ops < MaxOps
  /\ ops' = ops + 1
  /\ IF CanAlloc(freeList[h], l)
       THEN /\ freeList' = [freeList EXCEPT ![h] = AllocLists(@, l)]
            /\ live' = live \cup {[heap |-> h, addr |-> AllocAddr(freeList[h], l), layout |-> l]}
            /\ UNCHANGED <<total, mapped, frames, state>>
       ELSE Rescue(h, l)

\* KernelAllocatorWrapper::dealloc and the dealloc system call.
HeapDealloc(a) ==
  /\ state = "running" /\ ops < MaxOps
  /\ a \in live
  /\ ops' = ops + 1
  /\ live' = live \ {a}
  /\ freeList' = [freeList EXCEPT ![a.heap] = FreeLists(@, a.addr, a.layout)]
  /\ UNCHANGED <<total, mapped, frames, state>>

Next ==
  \/ \E h \in Heaps, l \in Layouts : HeapAlloc(h, l)
  \/ \E a \in live : HeapDealloc(a)

Spec == Init /\ [][Next]_vars

-----------------------------------------------------------------------------
(* Properties.                                                             *)

\* The blocks of a heap: its free-list entries and its live allocations,
\* each as <<address, size>>, indexed so that a block listed twice counts
\* twice.
FreeBlocks(h) ==
  UNION {{<<k, i>> : i \in 1..Len(freeList[h][k])} : k \in 0..(Order - 1)}
Covers(h, w) ==
  Cardinality({b \in FreeBlocks(h) :
                 LET a == freeList[h][b[1]][b[2]] IN a <= w /\ w < a + 2^b[1]})
  + Cardinality({a \in live : a.heap = h /\ a.addr <= w /\ w < a.addr + BlockSize(a.layout)})

\* The buddy and the rescues together keep each heap exact: every word from
\* the heap's base to base + stats_total_bytes lies in exactly one free or
\* allocated block, no block reaches past that end, and every page under
\* it was mapped by a rescue.  A growth that starts anywhere but the
\* heap's end, adds more or less than it mapped, or a block handed out
\* twice breaks it.
HeapExact ==
  \A h \in Heaps :
    /\ \A w \in HeapBase[h]..(HeapBase[h] + total[h] - 1) :
          Covers(h, w) = 1 /\ (w \div Page) \in mapped
    /\ \A b \in FreeBlocks(h) :
          HeapBase[h] <= freeList[h][b[1]][b[2]]
          /\ freeList[h][b[1]][b[2]] + 2^b[1] <= HeapBase[h] + total[h]
    /\ \A a \in live : a.heap = h => a.addr + BlockSize(a.layout) <= HeapBase[a.heap] + total[a.heap]

\* The rescue grows the heap enough that the retried allocation succeeds:
\* LockedHeapWithRescue::alloc never returns null while frames last.
RescueSuffices == state # "null"
====
