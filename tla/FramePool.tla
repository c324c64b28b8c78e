------------------------------ MODULE FramePool ------------------------------
(***************************************************************************)
(* What the physical frame allocator promises (spec 4.1, 9): a pool of     *)
(* frames out of which any free frame may be handed out, and to which a    *)
(* frame held by a caller may be returned.  The pool keeps a count of its  *)
(* free frames.  Nothing here says which free frame is handed out: the     *)
(* detailed module FrameAllocator (a LIFO list threaded through the free   *)
(* frames themselves) is checked to implement this.                        *)
(***************************************************************************)
EXTENDS Naturals, FiniteSets

CONSTANT Usable          \* the frames the pool is built from

VARIABLES
  free,                  \* frames in the pool
  freeCount,             \* the pool's count of free frames
  held                   \* frames handed out and not yet returned

vars == <<free, freeCount, held>>

Init ==
  /\ free = Usable
  /\ freeCount = Cardinality(Usable)
  /\ held = {}

Allocate(f) ==
  /\ f \in free
  /\ free' = free \ {f}
  /\ freeCount' = freeCount - 1
  /\ held' = held \cup {f}

Deallocate(f) ==
  /\ f \in held
  /\ free' = free \cup {f}
  /\ freeCount' = freeCount + 1
  /\ held' = held \ {f}

Next ==
  \/ \E f \in free : Allocate(f)
  \/ \E f \in held : Deallocate(f)

Spec == Init /\ [][Next]_vars

\* Every frame of the pool is either free or held, never both, and the
\* count is the number of free frames.
PoolConsistent ==
  /\ free \cap held = {}
  /\ free \cup held = Usable
  /\ freeCount = Cardinality(free)
=============================================================================
