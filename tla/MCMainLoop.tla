----------------------------- MODULE MCMainLoop -----------------------------
EXTENDS MainLoop

\* ap_count = 2: three cores, so core 0, core 1 and core 2 each take their
\* own branch of main.
MCApCount == 2
MCPrintIterations == 2
====
