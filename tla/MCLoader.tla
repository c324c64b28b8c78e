------------------------------ MODULE MCLoader ------------------------------
(* Frames 1..26 are usable (PAGE = 1 stands for 4096): six per program     *)
(* instance (level-4 table, user-half table, code, data, stack, heap),     *)
(* four instances for two cores.  The RAM disk is frame 27.               *)
EXTENDS Loader

MCRegions ==
  << [kind |-> "Reserved", start |-> 0, end |-> 1],
     [kind |-> "Usable",   start |-> 1, end |-> 28] >>
MCRamdiskFrames == <<27>>
MCKernelIdx == {108}
MCUserIdx == {0}
MCBootTable == 108 :> 101
MCPageIdx == ("k0" :> 108) @@ ("code" :> 0) @@ ("data" :> 0) @@ ("stack" :> 0)
             @@ ("heap" :> 0) @@ ("page0" :> 0)
MCUserFlagChoices == {{"W"}}

(* Frames are names: two states that differ only in which frames back     *)
(* which pages have the same futures up to renaming the frames, and every *)
(* property checked is invariant under that renaming.  The view keeps,    *)
(* for each program instance of each core, what each user page maps to    *)
(* (flags and the word it holds), and forgets the frame numbers.          *)
PageView(as, p) ==
  LET t == l4[as][PageIdx[p]]
  IN  IF t = NoTable THEN "no table"
      ELSE IF tables[t][p] = NoMapping THEN "unmapped"
      ELSE [flags |-> tables[t][p].flags, word |-> contents[tables[t][p].frame]]

InstanceView(c, a) ==
  IF res[c][a] = NoTable THEN "none" ELSE [p \in UserPages |-> PageView(res[c][a], p)]

ActiveView(c) ==
  IF cr3[c] = KernelAS THEN "kernel" ELSE {a \in Apps : res[c][a] = cr3[c]}

FrameRenamingView ==
  << step, sub, cld, ret, failed, halted, frameAllocator.freeFrames,
     [c \in Cores |-> [a \in Apps |-> InstanceView(c, a)]],
     [c \in Cores |-> ActiveView(c)] >>
=============================================================================
