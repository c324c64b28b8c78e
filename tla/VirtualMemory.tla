---------------------------- MODULE VirtualMemory ----------------------------
(***************************************************************************)
(* Memory (src/kernel/src/memory.rs): the frame allocator and the page     *)
(* tables behind the single MEMORY spin lock.                              *)
(*                                                                         *)
(* Every method of Memory runs with the lock held, so each is one atomic   *)
(* step.  The page tables it edits are those of the *active* address      *)
(* space, i.e. the table CR3 of the calling core points to                 *)
(* (get_active_l4_page_table); CR3 is per core.  An address space is       *)
(* named by the frame of its level-4 table (KernelAS for the boot table).  *)
(* Below level 4 the tree is abstracted to one table per level-4 entry:    *)
(* map_to allocates it from the frame allocator on first use of the entry, *)
(* and it maps pages to [frame, flags].  Level-4 entries of the kernel     *)
(* slice point at the tables the bootloader and the boot code created.    *)
(*                                                                         *)
(* A failed unwrap / expect / ass! panics the calling core while it holds  *)
(* the lock; the panic handler never returns, so MEMORY stays locked and   *)
(* no core performs a memory operation again: halted.                      *)
(***************************************************************************)
EXTENDS Naturals, FiniteSets, Sequences, TLC

CONSTANTS
  PAGE, Regions, RamdiskFrames, NoFrame,   \* see FrameAllocator
  Cores,           \* cores that call into Memory
  KernelAS,        \* the boot level-4 table (Memory.kernel_page_table)
  KernelIdx,       \* KERNEL_L4_PAGE_TABLE_RANGE (the slice shared by all)
  UserIdx,         \* level-4 indices of the user half in use
  BootTable,       \* [KernelIdx -> table] created before Memory::new
  KernelPages,     \* pages in v::KERNEL_START .. v::KERNEL_END
  UserPages,       \* pages in v::USER_START .. v::USER_END
  PageIdx,         \* [pages -> level-4 index of the page]
  TrampolinePage,  \* virtual page 0 (smp.rs)
  TrampolineFrame, \* physical frame 0, never in the free list
  UserFlagChoices, \* flag sets the callers of map_ram_user pass
  NoTable,         \* unused level-4 entry
  NoMapping        \* unused page entry

VARIABLES
  frameAllocator,  \* Memory.frame_allocator
  heldFrames,      \* frames unmap returned to its caller
  l4,              \* [address space -> [level-4 index -> table]]
  tables,          \* [table -> [page -> mapping]]
  cr3,             \* [core -> address space]
  halted           \* a core panicked inside Memory

vars == <<frameAllocator, heldFrames, l4, tables, cr3, halted>>

FA == INSTANCE FrameAllocator WITH held <- heldFrames

L4Idx == KernelIdx \cup UserIdx
Pages == KernelPages \cup UserPages \cup {TrampolinePage}
Flags == {"P", "W", "U", "NX"}
Mapping == [frame : FA!UsableFrames \cup {TrampolineFrame}, flags : SUBSET Flags]
EmptyTable == [p \in Pages |-> NoMapping]

ASSUME PageIdx \in [Pages -> L4Idx]
ASSUME \A p \in KernelPages : PageIdx[p] \in KernelIdx
ASSUME \A p \in UserPages \cup {TrampolinePage} : PageIdx[p] \in UserIdx

Init ==
  /\ frameAllocator = FA!NewFrameAllocator
  /\ heldFrames = {}
  /\ l4 = (KernelAS :> [i \in L4Idx |-> IF i \in KernelIdx THEN BootTable[i] ELSE NoTable])
  /\ tables = [t \in {BootTable[i] : i \in KernelIdx} |-> EmptyTable]
  /\ cr3 = [c \in Cores |-> KernelAS]
  /\ halted = FALSE

-----------------------------------------------------------------------------
\* Mutant: map_to without the PageAlreadyMapped check.
map_to_overwrites(c, p, f, fl, a) ==
  LET as  == cr3[c]
      i   == PageIdx[p]
      new == l4[as][i] = NoTable
      tf  == FA!AllocatedFrame(a)
      t   == IF new THEN tf ELSE l4[as][i]
      tbs == IF new THEN tables @@ (tf :> EmptyTable) ELSE tables
  IN  IF new /\ tf = NoFrame THEN [ok |-> FALSE]
      ELSE [ok     |-> TRUE,
            fa     |-> IF new THEN FA!allocate_frame(a) ELSE a,
            l4     |-> IF new THEN [l4 EXCEPT ![as][i] = tf] ELSE l4,
            tables |-> [tbs EXCEPT ![t][p] = [frame |-> f, flags |-> fl]]]

(* OffsetPageTable::map_to on the active table of core c, with the frame   *)
(* allocator a: the new level-4 entry's table is allocated first, then the *)
(* page entry must be unused.  Result: [ok, fa, l4, tables].               *)
map_to(c, p, f, fl, a) ==
  LET as  == cr3[c]
      i   == PageIdx[p]
      new == l4[as][i] = NoTable
      tf  == FA!AllocatedFrame(a)
      t   == IF new THEN tf ELSE l4[as][i]
      tbs == IF new THEN tables @@ (tf :> EmptyTable) ELSE tables
  IN  IF new /\ tf = NoFrame THEN [ok |-> FALSE]          \* FrameAllocationFailed
      ELSE IF tbs[t][p] # NoMapping THEN [ok |-> FALSE]      \* PageAlreadyMapped
      ELSE [ok     |-> TRUE,
            fa     |-> IF new THEN FA!allocate_frame(a) ELSE a,
            l4     |-> IF new THEN [l4 EXCEPT ![as][i] = tf] ELSE l4,
            tables |-> [tbs EXCEPT ![t][p] = [frame |-> f, flags |-> fl]]]

Panic ==
  /\ halted' = TRUE
  /\ UNCHANGED <<frameAllocator, heldFrames, l4, tables, cr3>>

\* Memory::map_frame: map_to(...).unwrap_or_else(panic).flush()
ApplyMap(r) ==
  IF r.ok THEN /\ frameAllocator' = r.fa
               /\ l4' = r.l4
               /\ tables' = r.tables
               /\ UNCHANGED <<heldFrames, cr3, halted>>
  ELSE Panic

\* Mutant: the None of allocate_frame is not checked.
map_ram_unchecked(c, p, fl) ==
  ApplyMap(map_to(c, p, FA!AllocatedFrame(frameAllocator), fl,
                  FA!allocate_frame(frameAllocator)))

\* map_ram_kernel / map_ram_user: allocate the page's frame (panic on None),
\* then map_frame with the flags the function adds.
map_ram(c, p, fl) ==
  LET f == FA!AllocatedFrame(frameAllocator)
  IN  IF f = NoFrame THEN Panic
      ELSE ApplyMap(map_to(c, p, f, fl, FA!allocate_frame(frameAllocator)))

MapRamKernel(c, p) ==
  /\ ~halted
  /\ p \in KernelPages
  /\ map_ram(c, p, {"W", "NX", "P"})

MapRamUser(c, p, fl) ==
  /\ ~halted
  /\ p \in UserPages
  /\ map_ram(c, p, fl \cup {"U", "P"})

\* map_frame of a frame the allocator does not own (the SMP trampoline).
MapFrame(c, p, f) ==
  /\ ~halted
  /\ cr3[c] = KernelAS    \* init_smp runs on the BSP in the kernel space
  /\ ApplyMap(map_to(c, p, f, {"P", "W"}, frameAllocator))

Mapped(c, p) ==
  /\ l4[cr3[c]][PageIdx[p]] # NoTable
  /\ tables[l4[cr3[c]][PageIdx[p]]][p] # NoMapping

EntryOf(c, p) == tables[l4[cr3[c]][PageIdx[p]]][p]

Unmapped(c, p) == [tables EXCEPT ![l4[cr3[c]][PageIdx[p]]][p] = NoMapping]

\* change_flags: update_flags(...).unwrap_or_else(panic)
ChangeFlags(c, p, fl) ==
  /\ ~halted
  /\ IF Mapped(c, p)
       THEN /\ tables' = [tables EXCEPT ![l4[cr3[c]][PageIdx[p]]][p].flags = fl]
            /\ UNCHANGED <<frameAllocator, heldFrames, l4, cr3, halted>>
       ELSE Panic

\* unmap: the frame goes back to the caller, intermediate tables stay.
Unmap(c, p) ==
  /\ ~halted
  /\ IF Mapped(c, p)
       THEN /\ tables' = Unmapped(c, p)
            /\ heldFrames' = heldFrames \cup {EntryOf(c, p).frame}
            /\ UNCHANGED <<frameAllocator, l4, cr3, halted>>
       ELSE Panic

\* unmap_ram: unmap, then deallocate_frame.
UnmapRam(c, p) ==
  /\ ~halted
  /\ IF Mapped(c, p)
       THEN /\ tables' = Unmapped(c, p)
            /\ frameAllocator' = FA!deallocate_frame(frameAllocator, EntryOf(c, p).frame)
            /\ UNCHANGED <<heldFrames, l4, cr3, halted>>
       ELSE Panic

\* create_new_l4_page_table: a zeroed table from the allocator (expect ->
\* panic) with the kernel slice copied from the ACTIVE level-4 table.
\* Mutant: every entry copied, the user half included.
NewL4_copy_all(c) == [i \in L4Idx |-> l4[cr3[c]][i]]

NewL4(c) == [i \in L4Idx |-> IF i \in KernelIdx THEN l4[cr3[c]][i] ELSE NoTable]

create_user_page_table(c) ==
  LET f == FA!AllocatedFrame(frameAllocator)
  IN  IF f = NoFrame THEN Panic
      ELSE /\ frameAllocator' = FA!allocate_frame(frameAllocator)
           /\ l4' = l4 @@ (f :> NewL4(c))
           /\ UNCHANGED <<heldFrames, tables, cr3, halted>>

CreateUserPageTable(c) ==
  /\ ~halted
  /\ create_user_page_table(c)

\* switch_to_user_page_table / switch_to_kernel_page_table: write CR3.
switch_l4_page_table(c, as) ==
  /\ cr3' = [cr3 EXCEPT ![c] = as]
  /\ UNCHANGED <<frameAllocator, heldFrames, l4, tables, halted>>

SwitchToUser(c, as) ==
  /\ ~halted
  /\ as # KernelAS
  /\ switch_l4_page_table(c, as)

SwitchToKernel(c) ==
  /\ ~halted
  /\ switch_l4_page_table(c, KernelAS)

-----------------------------------------------------------------------------
Next ==
  \E c \in Cores :
    \/ \E p \in KernelPages : MapRamKernel(c, p)
    \/ \E p \in UserPages, fl \in UserFlagChoices : MapRamUser(c, p, fl)
    \/ MapFrame(c, TrampolinePage, TrampolineFrame)
    \/ Unmap(c, TrampolinePage)
    \/ \E p \in KernelPages \cup UserPages : UnmapRam(c, p)
    \/ \E p \in UserPages, fl \in UserFlagChoices : ChangeFlags(c, p, fl \cup {"U", "P"})
    \/ CreateUserPageTable(c)
    \/ \E as \in DOMAIN l4 : SwitchToUser(c, as)
    \/ SwitchToKernel(c)

Spec == Init /\ [][Next]_vars

-----------------------------------------------------------------------------
TypeOK ==
  /\ frameAllocator \in [freeList : Seq(FA!UsableFrames), totalFrames : Nat, freeFrames : Nat]
  /\ heldFrames \subseteq FA!UsableFrames \cup {TrampolineFrame}
  /\ \A as \in DOMAIN l4 : l4[as] \in [L4Idx -> DOMAIN tables \cup {NoTable}]
  /\ \A t \in DOMAIN tables : tables[t] \in [Pages -> Mapping \cup {NoMapping}]
  /\ cr3 \in [Cores -> DOMAIN l4]
  /\ halted \in BOOLEAN

\* How many roles a frame plays: on the free list (once per occurrence), as
\* a level-4 table, as a lower table, as the target of a page entry, or
\* held by the caller of unmap.
Roles(f) ==
  Cardinality({i \in 1 .. Len(frameAllocator.freeList) : frameAllocator.freeList[i] = f})
  + (IF f \in DOMAIN l4 THEN 1 ELSE 0)
  + (IF f \in DOMAIN tables THEN 1 ELSE 0)
  + Cardinality({tp \in (DOMAIN tables) \X Pages :
                   tables[tp[1]][tp[2]] # NoMapping /\ tables[tp[1]][tp[2]].frame = f})
  + (IF f \in heldFrames THEN 1 ELSE 0)

\* Spec 3 and 8.1: while no core has panicked, every frame of the pool has
\* exactly one owner: it is free, or backs one page table, or is mapped by
\* one page, or is held.  A frame that two mappings share, a freed frame
\* still mapped, or a frame lost on the way breaks this.
FrameOwnership ==
  ~halted => \A f \in FA!UsableFrames : Roles(f) = 1

\* Address spaces never share the tables of the user half: user mappings
\* made in one (program code, stack, heap, the trampoline page of the
\* kernel table) are invisible to every other.
UserHalvesPrivate ==
  \A a, b \in DOMAIN l4 : \A i \in UserIdx :
    a # b /\ l4[a][i] # NoTable => l4[a][i] # l4[b][i]
=============================================================================
