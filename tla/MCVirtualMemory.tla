--------------------------- MODULE MCVirtualMemory ---------------------------
(* Two cores; the kernel slice is the heap entry (108) and the AP-stack    *)
(* entry (109); the user half is entry 0, holding two program pages and    *)
(* the trampoline page.  Frames as in MCFrameAllocator: five to hand out,  *)
(* enough for two address spaces with a table and a page each.            *)
EXTENDS VirtualMemory

MCRegions ==
  << [kind |-> "Usable",   start |-> 0,  end |-> 12],
     [kind |-> "Usable",   start |-> 13, end |-> 34],
     [kind |-> "Reserved", start |-> 34, end |-> 40],
     [kind |-> "Usable",   start |-> 40, end |-> 48] >>
MCRamdiskFrames == <<24>>
MCKernelIdx == {108, 109}
MCUserIdx == {0}
\* The boot tables and the kernel level-4 table lie in memory the
\* bootloader reserved, outside every Usable region.
MCKernelAS == 100
MCBootTable == (108 :> 104) @@ (109 :> 108)
MCPageIdx == ("heap0" :> 108) @@ ("code" :> 0) @@ ("stack" :> 0) @@ ("page0" :> 0)
MCUserFlagChoices == {{"W"}, {"W", "NX"}}
CoreSymmetry == Permutations(Cores)
=============================================================================
