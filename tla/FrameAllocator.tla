---------------------------- MODULE FrameAllocator ----------------------------
(***************************************************************************)
(* BootInfoFrameAllocator (src/kernel/src/memory.rs).                      *)
(*                                                                         *)
(* The allocator is built once from the bootloader's memory map: every     *)
(* page-aligned frame of a Usable region that starts above 0 is linked     *)
(* into a singly linked free list, in address order, except the frames     *)
(* that back the RAM disk (bootloader bug mitigation).  A FreeNode lives   *)
(* in the first bytes of the frame it stands for, so the list is modelled  *)
(* as the sequence of frames from free_memory_head onwards.  allocate_frame *)
(* unlinks the head, deallocate_frame pushes a new head; both keep the     *)
(* free_frames counter.  Addresses are scaled: PAGE stands for 4096.       *)
(*                                                                         *)
(* The operators on the allocator record are used by VirtualMemory, which  *)
(* performs several allocations in one locked step.  The actions below     *)
(* drive the allocator alone: "held" is the set of frames callers own.     *)
(***************************************************************************)
EXTENDS Naturals, Sequences, SequencesExt

CONSTANTS
  PAGE,            \* the frame size (4096 in the code)
  Regions,         \* boot_info.memory_regions: <<[kind, start, end]>>
  RamdiskFrames,   \* physical frame of each RAM-disk page, in page order
  NoFrame          \* None

ASSUME PAGE \in Nat \ {0}
ASSUME RamdiskFrames # <<>>

VARIABLES
  frameAllocator,  \* [freeList, totalFrames, freeFrames]
  held             \* frames handed out to callers

faVars == <<frameAllocator, held>>

AlignUp(x)   == ((x + PAGE - 1) \div PAGE) * PAGE
AlignDown(x) == (x \div PAGE) * PAGE

\* align_up(r.start)..align_down(r.end) stepped by one frame.
RegionFrames(r) ==
  LET lo == AlignUp(r.start)
      hi == AlignDown(r.end)
  IN  [i \in 1 .. (IF hi > lo THEN (hi - lo) \div PAGE ELSE 0) |-> lo + (i - 1) * PAGE]

\* The RAM disk's physical pages must be contiguous (the ass! at line 167
\* panics during boot otherwise); the excluded range is first..=last.
RamdiskContiguous ==
  \A i \in 2 .. Len(RamdiskFrames) : RamdiskFrames[i] = RamdiskFrames[i - 1] + PAGE

ASSUME RamdiskContiguous

AlreadyMapped(a) == RamdiskFrames[1] <= a /\ a <= RamdiskFrames[Len(RamdiskFrames)]

\* Mutant: the RAM-disk mitigation filter left out.
initialize_free_memory_unfiltered ==
  LET usable == SelectSeq(Regions, LAMBDA r : r.kind = "Usable" /\ r.start > 0)
  IN  FlattenSeq([i \in 1 .. Len(usable) |-> RegionFrames(usable[i])])

\* initialize_free_memory: the free list in the order it is linked.
initialize_free_memory ==
  LET usable == SelectSeq(Regions, LAMBDA r : r.kind = "Usable" /\ r.start > 0)
      frames == FlattenSeq([i \in 1 .. Len(usable) |-> RegionFrames(usable[i])])
  IN  SelectSeq(frames, LAMBDA a : ~AlreadyMapped(a))

\* BootInfoFrameAllocator::new
NewFrameAllocator ==
  [freeList    |-> initialize_free_memory,
   totalFrames |-> Len(initialize_free_memory),
   freeFrames  |-> Len(initialize_free_memory)]

UsableFrames == ToSet(initialize_free_memory)

\* allocate_frame: the frame it returns (None on an empty list) ...
AllocatedFrame(a) == IF a.freeList = <<>> THEN NoFrame ELSE Head(a.freeList)

\* Mutant: free_frames not decremented.
allocate_frame_keeps_count(a) ==
  IF a.freeList = <<>> THEN a ELSE [a EXCEPT !.freeList = Tail(@)]

\* ... and the allocator after the call.
allocate_frame(a) ==
  IF a.freeList = <<>> THEN a
  ELSE [a EXCEPT !.freeFrames = @ - 1, !.freeList = Tail(@)]

\* Mutant: the counter moves the wrong way.
deallocate_frame_decrements(a, f) ==
  [a EXCEPT !.freeList = <<f>> \o @, !.freeFrames = @ - 1]

\* deallocate_frame: the frame becomes the new head.
deallocate_frame(a, f) ==
  [a EXCEPT !.freeList = <<f>> \o @, !.freeFrames = @ + 1]

-----------------------------------------------------------------------------
FAInit ==
  /\ frameAllocator = NewFrameAllocator
  /\ held = {}

Allocate ==
  /\ AllocatedFrame(frameAllocator) # NoFrame
  /\ frameAllocator' = allocate_frame(frameAllocator)
  /\ held' = held \cup {AllocatedFrame(frameAllocator)}

Deallocate(f) ==
  /\ frameAllocator' = deallocate_frame(frameAllocator, f)
  /\ held' = held \ {f}

FANext ==
  \/ Allocate
  \/ \E f \in held : Deallocate(f)

FASpec == FAInit /\ [][FANext]_faVars

-----------------------------------------------------------------------------
FATypeOK ==
  /\ frameAllocator \in [freeList : Seq(UsableFrames),
                         totalFrames : Nat, freeFrames : Nat]
  /\ held \subseteq UsableFrames

\* The linked list implements the pool of spec 4.1: the frames on the list
\* are the pool's free frames and free_frames is its count.  A head that is
\* not unlinked, a node pushed twice or a counter not kept breaks this.
Pool == INSTANCE FramePool WITH
          Usable    <- UsableFrames,
          free      <- ToSet(frameAllocator.freeList),
          freeCount <- frameAllocator.freeFrames

ImplementsFramePool == Pool!Spec

\* The RAM-disk frames are never handed out, and total = free + in use
\* (spec 8, property 1).
FramesConserved ==
  /\ \A f \in held : ~AlreadyMapped(f)
  /\ frameAllocator.totalFrames = frameAllocator.freeFrames + Cardinality(held)
=============================================================================
