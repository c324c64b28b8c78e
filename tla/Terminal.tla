------------------------------ MODULE Terminal ------------------------------
(***************************************************************************)
(* The framebuffer terminal of terminal_out.rs and the panic path that     *)
(* writes to it, after boot, in common_main::main:                         *)
(*                                                                         *)
(*  - a TerminalWriter is a cursor (x_pos, y_pos) in a window with a font; *)
(*    its operations (newline, write_raw_char, tab, print_pixels, clear,   *)
(*    set_window_info) are operators on that cursor;                      *)
(*  - core 0 switches TERM to the double buffer and then copies the back   *)
(*    buffer to the front buffer, row by row, under TERM, BACK_BUFFER_LOCK *)
(*    and SWAP_LOCK (push_to_frame_buffer);                                *)
(*  - core 1 sets TERM's window to core 0's window and then loops on       *)
(*    lock_back_buffer; the other APs print through Stdout (TERM);         *)
(*  - any core may fault at any point of that code, and the panic handler  *)
(*    runs panic_print (PANICKED_STOP_PRINTING, PANIC_PRINT_LOCK, the      *)
(*    SWAP_LOCK try_lock with its time out, the emergency terminal drawing *)
(*    on the front buffer) and then log::error (serial, then TERM).        *)
(*                                                                         *)
(* Pixel rows are scaled so that a glyph row is one unit.  Colours, glyph  *)
(* shapes, the message text and the buffers' contents are abstracted.      *)
(***************************************************************************)
EXTENDS Naturals, FiniteSets

CONSTANTS
  ApCount,       \* ACPI ap_count: cores 0..ApCount
  FbWidth,       \* framebuffer width (pixels)
  FbHeight,      \* framebuffer height (rows)
  CharWidth,     \* font size -> get_raster_width
  LineHeight,    \* font size -> raster height (= line height, LINE_SPACING 0)
  MsgChars,      \* glyphs in a panic message "\n{info}\n"
  PixelPrints,   \* [width, n] arguments of print_pixels
  TimeOut,       \* panic_print's try_lock spin count (1_000_000)
  NoCore         \* owner of a free lock

Cores == 0..ApCount
StdoutCores == 2..ApCount
Fonts == DOMAIN CharWidth
Rows == 0..(FbHeight - 1)

LINE_SPACING == 0
LETTER_SPACING == 0
SIDE_PADDING == 0
TAB_SIZE == 4

-----------------------------------------------------------------------------
(* Window layout.                                                          *)

WindowInfo(x, y, w, h) == [x0 |-> x, y0 |-> y, width |-> w, height |-> h]

\* WindowInfo::new: its two ass! checks, as written (the second compares
\* the bottom edge with the framebuffer's width).
NewWindowOk(win) ==
  /\ win.x0 + win.width <= FbWidth
  /\ win.y0 + win.height <= FbWidth

\* WindowInfo::from_placement.
FromPlacement(p) ==
  LET sx == (p.x_index * FbWidth) \div p.x_div
      ex == ((p.x_index + p.x_size) * FbWidth) \div p.x_div
      sy == (p.y_index * FbHeight) \div p.y_div
      ey == ((p.y_index + p.y_size) * FbHeight) \div p.y_div
  IN  WindowInfo(sx, sy, ex - sx, ey - sy)

FULL_SCREEN_PLACEMENT ==
  [x_div |-> 1, y_div |-> 1, x_index |-> 0, y_index |-> 0, x_size |-> 1, y_size |-> 1]

\* common_main::get_window_info_for_core.
get_window_info_for_core(id, count) ==
  FromPlacement([x_div |-> 4, y_div |-> (count + 4 - 1) \div 4,
                 x_index |-> id % 4, y_index |-> id \div 4,
                 x_size |-> 1, y_size |-> 1])

-----------------------------------------------------------------------------
(* TerminalWriter operations, as what they do to the cursor.  The pixels   *)
(* they draw (glyphs, the striped clear below a new line, pixel blocks)    *)
(* lie on the cursor's line and the one after it.                          *)

LH(w) == LineHeight[w.font] + LINE_SPACING
CW(w) == CharWidth[w.font]

\* (mutant) the wrap test forgets the height of the new line itself
Newline_off_by_one(w) ==
  LET y1 == w.y + LH(w)
  IN  [w EXCEPT !.x = 0, !.y = IF y1 > w.win.height THEN 0 ELSE y1]

\* newline: next line, back to the top when the next one would not fit.
Newline(w) ==
  LET y1 == w.y + LH(w)
  IN  [w EXCEPT !.x = 0, !.y = IF y1 + LH(w) > w.win.height THEN 0 ELSE y1]

carriage_return(w) == [w EXCEPT !.x = 0]

\* (mutant) no wrap at the right edge
write_raw_char_no_wrap(w) ==
  LET w0 == [w EXCEPT !.x = IF @ = 0 THEN SIDE_PADDING ELSE @]
  IN  [w0 EXCEPT !.x = @ + CW(w) + LETTER_SPACING]

\* write_raw_char: wrap when the glyph would reach the right edge, draw it
\* at the cursor, advance.
write_raw_char(w) ==
  LET w0 == [w EXCEPT !.x = IF @ = 0 THEN SIDE_PADDING ELSE @]
      w1 == IF w0.x + CW(w) >= w.win.width - SIDE_PADDING THEN Newline(w0) ELSE w0
  IN  [w1 EXCEPT !.x = @ + CW(w) + LETTER_SPACING]

RECURSIVE RawChars(_, _)
RawChars(w, n) == IF n = 0 THEN w ELSE RawChars(write_raw_char(w), n - 1)

\* tab: spaces up to the next multiple of TAB_SIZE characters.
TabSpaces(w) ==
  IF w.x = 0 THEN 4
  ELSE LET count == (w.x - SIDE_PADDING) \div (CW(w) + LETTER_SPACING)
       IN  (((count + 1 + TAB_SIZE - 1) \div TAB_SIZE) * TAB_SIZE) - count

write_char(w, c) ==
  CASE c = "\n" -> Newline(w)
    [] c = "\r" -> carriage_return(w)
    [] c = "\t" -> RawChars(w, TabSpaces(w))
    [] OTHER    -> write_raw_char(w)

\* print_pixels: rows of `width` colours below the cursor, a newline each
\* line_height rows, and one more if the colours run out inside a line
\* (n colours left, yOff is y_offset).
RECURSIVE PixelRows(_, _, _, _)
PixelRows(w, width, n, yOff) ==
  IF n < width
    THEN IF yOff # 0 THEN Newline(w) ELSE w
  ELSE IF yOff + 1 >= LH(w)
    THEN PixelRows(Newline(w), width, n - width, 0)
  ELSE PixelRows(w, width, n - width, yOff + 1)

print_pixels(w, width, n) == PixelRows(w, width, n, 0)

\* clear: cursor home, the window painted, optionally a new font.
clear(w, font) ==
  [w EXCEPT !.x = 0, !.y = 0, !.font = IF font = "None" THEN @ ELSE font]

set_window_info(w, win, font) == clear([w EXCEPT !.win = win], font)

-----------------------------------------------------------------------------
(* The cores.                                                              *)

Locks == {"TERM", "BACK_BUFFER", "SWAP", "PANIC_PRINT"}
FullWindow == FromPlacement(FULL_SCREEN_PLACEMENT)
Chars == {"a", "\n", "\r", "\t"}

\* The code a fault can interrupt: core 0's frame loop, core 1's branch,
\* the Stdout printers.  A fault inside the panic path is not modelled.
RunPcs == {"switch", "wait", "check", "term", "back", "swap", "copy",
           "setwin", "lockback", "print", "idle", "stdout"}
PanicPcs == {"p_flag", "p_lock", "p_swap", "p_term", "p_render", "p_log",
             "p_logterm", "halt"}

VARIABLES
  pc,               \* each core's place in its code
  row,              \* the row core 0's copy loop is at
  owner,            \* spin lock -> holding core, or NoCore
  term,             \* TERM's TerminalWriter
  emerg,            \* EMERGENCY_PANIC_TERM's TerminalWriter
  doubleBuffer,     \* DOUBLE_BUFFER is initialised
  stopPrinting,     \* PANICKED_STOP_PRINTING
  timeOut,          \* panic_print's try_lock counter, per core
  swapGuard,        \* cores whose panic_print holds a SWAP_LOCK guard
  logged            \* cores whose panic log::error reached the serial sink

vars == <<pc, row, owner, term, emerg, doubleBuffer, stopPrinting, timeOut,
          swapGuard, logged>>

Free(l) == owner[l] = NoCore
Take(l, c) == [owner EXCEPT ![l] = c]
Goto(c, p) == pc' = [pc EXCEPT ![c] = p]

Writer(win, font) == [x : 0..win.width + CharWidth[font], y : 0..win.height,
                      font : {font}, win : {win}]

Init ==
  /\ pc = [c \in Cores |-> IF c = 0 THEN "switch"
                           ELSE IF c = 1 THEN "setwin" ELSE "idle"]
  /\ row = 0
  /\ owner = [l \in Locks |-> NoCore]
  \* boot logging leaves TERM (font Size20, main.rs:81) at some line start
  /\ term \in {[x |-> 0, y |-> y, font |-> "Size20", win |-> FullWindow] :
                 y \in 0..(FbHeight - LineHeight["Size20"])}
  /\ emerg = [x |-> 0, y |-> 0, font |-> "Size24", win |-> FullWindow]
  /\ doubleBuffer = FALSE
  /\ stopPrinting = FALSE
  /\ timeOut = [c \in Cores |-> 0]
  /\ swapGuard = {}
  /\ logged = {}

\* switch_to_double_buffer: under TERM, TERM's buffer becomes the back buffer.
SwitchToDoubleBuffer ==
  /\ pc[0] = "switch" /\ Free("TERM")
  /\ doubleBuffer' = TRUE
  /\ Goto(0, "wait")
  /\ UNCHANGED <<row, owner, term, emerg, stopPrinting, timeOut, swapGuard,
                 logged>>

\* The frame loop: wait for NEW_FRAME_REQUESTED, then push_to_frame_buffer.
WaitFrame ==
  /\ pc[0] = "wait"
  /\ Goto(0, "check")
  /\ UNCHANGED <<row, owner, term, emerg, doubleBuffer, stopPrinting, timeOut,
                 swapGuard, logged>>

PushCheck ==
  /\ pc[0] = "check"
  /\ Goto(0, IF stopPrinting THEN "wait" ELSE "term")
  /\ UNCHANGED <<row, owner, term, emerg, doubleBuffer, stopPrinting, timeOut,
                 swapGuard, logged>>

PushLock(at, l, next) ==
  /\ pc[0] = at /\ Free(l)
  /\ owner' = Take(l, 0)
  /\ Goto(0, next)
  /\ row' = 0
  /\ UNCHANGED <<term, emerg, doubleBuffer, stopPrinting, timeOut, swapGuard,
                 logged>>

\* One row of the copy with interrupts off; the last row drops the guards.
PushCopy ==
  /\ pc[0] = "copy"
  /\ IF row = FbHeight - 1
       THEN /\ owner' = [l \in Locks |-> IF l = "PANIC_PRINT" THEN owner[l]
                                         ELSE NoCore]
            /\ Goto(0, "wait")
            /\ row' = 0
       ELSE /\ row' = row + 1
            /\ UNCHANGED <<owner, pc>>
  /\ UNCHANGED <<term, emerg, doubleBuffer, stopPrinting, timeOut, swapGuard,
                 logged>>

\* Core 1: TERM.lock().set_window_info(get_window_info_for_core(0, ..)),
\* once its local writer found the double buffer.  WindowInfo::new's ass!
\* panics with TERM held.
SetWindowInfo ==
  LET win == get_window_info_for_core(0, ApCount)
  IN  /\ pc[1] = "setwin" /\ doubleBuffer /\ Free("TERM")
      /\ IF NewWindowOk(win)
           THEN /\ term' = set_window_info(term, win, "None")
                /\ Goto(1, "lockback")
                /\ UNCHANGED owner
           ELSE /\ owner' = Take("TERM", 1)
                /\ Goto(1, "p_flag")
                /\ UNCHANGED term
      /\ UNCHANGED <<row, emerg, doubleBuffer, stopPrinting, timeOut,
                     swapGuard, logged>>

\* Core 1's loop: lock_back_buffer, print on its local writer, unlock.
BackLock ==
  /\ pc[1] = "lockback" /\ Free("BACK_BUFFER")
  /\ owner' = Take("BACK_BUFFER", 1)
  /\ Goto(1, "print")
  /\ UNCHANGED <<row, term, emerg, doubleBuffer, stopPrinting, timeOut,
                 swapGuard, logged>>

BackPrint ==
  /\ pc[1] = "print"
  /\ owner' = Take("BACK_BUFFER", NoCore)
  /\ Goto(1, "lockback")
  /\ UNCHANGED <<row, term, emerg, doubleBuffer, stopPrinting, timeOut,
                 swapGuard, logged>>

\* Stdout: acquire TERM, print (nothing once PANICKED_STOP_PRINTING is
\* set), drop.
StdoutAcquire(c) ==
  /\ pc[c] = "idle" /\ Free("TERM")
  /\ owner' = Take("TERM", c)
  /\ Goto(c, "stdout")
  /\ UNCHANGED <<row, term, emerg, doubleBuffer, stopPrinting, timeOut,
                 swapGuard, logged>>

StdoutPrint(c, ch) ==
  /\ pc[c] = "stdout"
  /\ term' = IF stopPrinting THEN term ELSE write_char(term, ch)
  /\ UNCHANGED <<pc, row, owner, emerg, doubleBuffer, stopPrinting, timeOut,
                 swapGuard, logged>>

StdoutPrintPixels(c, p) ==
  /\ pc[c] = "stdout"
  /\ term' = IF stopPrinting THEN term ELSE print_pixels(term, p.width, p.n)
  /\ UNCHANGED <<pc, row, owner, emerg, doubleBuffer, stopPrinting, timeOut,
                 swapGuard, logged>>

StdoutRelease(c) ==
  /\ pc[c] = "stdout"
  /\ owner' = Take("TERM", NoCore)
  /\ Goto(c, "idle")
  /\ UNCHANGED <<row, term, emerg, doubleBuffer, stopPrinting, timeOut,
                 swapGuard, logged>>

-----------------------------------------------------------------------------
(* The panic handler: panic_print, then log::error, then loop {}.           *)

\* A fault anywhere in the code above enters the panic handler; the locks
\* the core holds stay held (no unwinding).
Fault(c) ==
  /\ pc[c] \in RunPcs
  /\ Goto(c, "p_flag")
  /\ UNCHANGED <<row, owner, term, emerg, doubleBuffer, stopPrinting, timeOut,
                 swapGuard, logged>>

PanicFlag(c) ==
  /\ pc[c] = "p_flag"
  /\ stopPrinting' = TRUE
  /\ Goto(c, "p_lock")
  /\ UNCHANGED <<row, owner, term, emerg, doubleBuffer, timeOut, swapGuard,
                 logged>>

PanicLock(c) ==
  /\ pc[c] = "p_lock" /\ Free("PANIC_PRINT")
  /\ owner' = Take("PANIC_PRINT", c)
  /\ Goto(c, IF doubleBuffer THEN "p_swap" ELSE "p_term")
  /\ timeOut' = [timeOut EXCEPT ![c] = TimeOut]
  /\ UNCHANGED <<row, term, emerg, doubleBuffer, stopPrinting, swapGuard,
                 logged>>

\* (mutant) SWAP_LOCK.lock() instead of try_lock with a time-out
PanicTrySwap_blocking(c) ==
  /\ pc[c] = "p_swap" /\ Free("SWAP")
  /\ owner' = Take("SWAP", c)
  /\ swapGuard' = swapGuard \cup {c}
  /\ Goto(c, "p_render")
  /\ UNCHANGED <<row, term, emerg, doubleBuffer, stopPrinting, timeOut,
                 logged>>

\* SWAP_LOCK.try_lock() until it succeeds or time_out reaches 0.
PanicTrySwap(c) ==
  /\ pc[c] = "p_swap"
  /\ IF Free("SWAP")
       THEN /\ owner' = Take("SWAP", c)
            /\ swapGuard' = swapGuard \cup {c}
            /\ Goto(c, "p_render")
            /\ UNCHANGED timeOut
       ELSE /\ IF timeOut[c] = 0
                 THEN Goto(c, "p_render") /\ UNCHANGED timeOut
                 ELSE timeOut' = [timeOut EXCEPT ![c] = @ - 1] /\ UNCHANGED pc
            /\ UNCHANGED <<owner, swapGuard>>
  /\ UNCHANGED <<row, term, emerg, doubleBuffer, stopPrinting,
                 logged>>

\* The callback writes "\n{info}\n" with its writer.
PanicMessage(w) == Newline(RawChars(Newline(w), MsgChars))

\* EMERGENCY_PANIC_TERM on the front buffer; the guards drop at the end.
PanicRender(c) ==
  LET m == PanicMessage(emerg)
  IN  /\ pc[c] = "p_render"
      /\ emerg' = m
      /\ owner' = [l \in Locks |->
                     IF l = "PANIC_PRINT" \/ (l = "SWAP" /\ c \in swapGuard)
                       THEN NoCore ELSE owner[l]]
      /\ swapGuard' = swapGuard \ {c}
      /\ Goto(c, "p_log")
      /\ UNCHANGED <<row, term, doubleBuffer, stopPrinting, timeOut,
                     logged>>

\* No double buffer yet: TERM.try_lock(), else the emergency terminal; both
\* draw on the framebuffer itself.
PanicTerm(c) ==
  LET viaTerm == Free("TERM")
      m == PanicMessage(IF viaTerm THEN term ELSE emerg)
  IN  /\ pc[c] = "p_term"
      /\ IF viaTerm THEN term' = m /\ UNCHANGED emerg
                    ELSE emerg' = m /\ UNCHANGED term
      /\ owner' = Take("PANIC_PRINT", NoCore)
      /\ Goto(c, "p_log")
      /\ UNCHANGED <<row, doubleBuffer, stopPrinting, timeOut, swapGuard,
                     logged>>

\* log::error!: the serial record first (SERIAL_WRITE_LOCK is a leaf) ...
PanicLogSerial(c) ==
  /\ pc[c] = "p_log"
  /\ logged' = logged \cup {c}
  /\ Goto(c, "p_logterm")
  /\ UNCHANGED <<row, owner, term, emerg, doubleBuffer, stopPrinting, timeOut,
                 swapGuard>>

\* ... then Stdout::acquire (TERM.lock()) for a print the flag suppresses.
PanicLogTerm(c) ==
  /\ pc[c] = "p_logterm" /\ Free("TERM")
  /\ Goto(c, "halt")
  /\ UNCHANGED <<row, owner, term, emerg, doubleBuffer, stopPrinting, timeOut,
                 swapGuard, logged>>

-----------------------------------------------------------------------------
PushTerm == PushLock("term", "TERM", "back")
PushBack == PushLock("back", "BACK_BUFFER", "swap")
PushSwap == PushLock("swap", "SWAP", "copy")   \* in without_interrupts

Core0 == SwitchToDoubleBuffer \/ WaitFrame \/ PushCheck \/ PushTerm
           \/ PushBack \/ PushSwap \/ PushCopy
Core1 == SetWindowInfo \/ BackLock \/ BackPrint
StdoutCore(c) ==
  \/ StdoutAcquire(c) \/ StdoutRelease(c)
  \/ \E ch \in Chars : StdoutPrint(c, ch)
  \/ \E p \in PixelPrints : StdoutPrintPixels(c, p)
Panic(c) ==
  \/ PanicFlag(c) \/ PanicLock(c) \/ PanicTrySwap(c) \/ PanicRender(c)
  \/ PanicTerm(c) \/ PanicLogSerial(c) \/ PanicLogTerm(c)

\* What core c runs.
Run(c) ==
  \/ c = 0 /\ Core0
  \/ c = 1 /\ Core1
  \/ c \in StdoutCores /\ StdoutCore(c)
  \/ Panic(c)

Next ==
  \/ SwitchToDoubleBuffer \/ WaitFrame \/ PushCheck
  \/ PushTerm \/ PushBack \/ PushSwap \/ PushCopy
  \/ SetWindowInfo \/ BackLock \/ BackPrint
  \/ \E c \in StdoutCores :
       \/ StdoutAcquire(c) \/ StdoutRelease(c)
       \/ \E ch \in Chars : StdoutPrint(c, ch)
       \/ \E p \in PixelPrints : StdoutPrintPixels(c, p)
  \/ \E c \in Cores :
       \/ Fault(c)
       \/ PanicFlag(c) \/ PanicLock(c) \/ PanicTrySwap(c) \/ PanicRender(c)
       \/ PanicTerm(c) \/ PanicLogSerial(c) \/ PanicLogTerm(c)

\* Every core is its own CPU and keeps running its code; faults are not
\* obliged to happen.
Spec == Init /\ [][Next]_vars /\ \A c \in Cores : WF_vars(Run(c))

-----------------------------------------------------------------------------
TypeOK ==
  /\ pc \in [Cores -> RunPcs \cup PanicPcs]
  /\ row \in Rows
  /\ owner \in [Locks -> Cores \cup {NoCore}]
  /\ term \in Writer(FullWindow, "Size20")
              \cup Writer(get_window_info_for_core(0, ApCount), "Size20")
  /\ emerg \in Writer(FullWindow, "Size24")
  /\ timeOut \in [Cores -> 0..TimeOut]
  /\ swapGuard \subseteq Cores
  /\ logged \subseteq Cores
\* Both terminals keep their cursor where the next glyph line fits: the line
\* at y_pos lies inside the window and x_pos has not passed its right edge,
\* through any mix of newlines, tabs, wrapped glyphs, pixel blocks and the
\* window change of set_window_info.  write_pixel has no clipping, so a
\* cursor outside the window draws into other cores' windows or past the
\* buffer.
CursorFitsWindow ==
  \A w \in {term, emerg} :
    /\ w.y + LH(w) <= w.win.height
    /\ w.x <= w.win.width

\* Every core that panics gets its message to the serial sink, even when it
\* faulted holding SWAP_LOCK (the try_lock times out), another core is in
\* panic_print, or core 0 holds the terminal locks.
PanicLogged == \A c \in Cores : pc[c] = "p_flag" ~> c \in logged
=============================================================================
