--------------------------- MODULE MCFrameAllocator ---------------------------
(* A memory map with a region at address 0 (skipped), a usable region     *)
(* whose ends are not page aligned, a reserved hole and a usable region    *)
(* holding the RAM disk: frames 16 20 24 28 | 40 44 48 with 24 excluded.  *)
EXTENDS FrameAllocator

MCRegions ==
  << [kind |-> "Usable",   start |-> 0,  end |-> 12],
     [kind |-> "Usable",   start |-> 13, end |-> 34],
     [kind |-> "Reserved", start |-> 34, end |-> 40],
     [kind |-> "Usable",   start |-> 40, end |-> 52] >>

MCRamdiskFrames == <<24>>
=============================================================================
