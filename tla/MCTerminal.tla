----------------------------- MODULE MCTerminal -----------------------------
(* Three cores (ap_count 2): core 0 copies frames, core 1 sets TERM's      *)
(* window and takes the back-buffer lock, core 2 prints through Stdout.    *)
(* An 8 x 4 framebuffer holds three Size20 glyphs (width 2) or two Size24  *)
(* glyphs (width 3) per line and four lines; core 0's window is 2 wide.    *)
EXTENDS Terminal, TLC

MCCharWidth == ("Size20" :> 2) @@ ("Size24" :> 3)
MCLineHeight == ("Size20" :> 1) @@ ("Size24" :> 1)
MCPixelPrints == {[width |-> 3, n |-> 4]}
====
