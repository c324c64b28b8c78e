------------------------------ MODULE MainLoop ------------------------------
(***************************************************************************)
(* The kernel's common main flow after the loader self-test, run by every *)
(* core at once (common_main.rs main, timer_test, print_logo), with the    *)
(* pieces it calls that touch shared state: the reusable start-up barrier  *)
(* (smp.rs sync_cores_barrier), the APs' one-shot barrier! , the local     *)
(* APIC timer (apic.rs start_timer) and its interrupt handler              *)
(* (interrupts.rs timer_interrupt), the kernel logger (logging.rs log),    *)
(* the kernel heap's rescue path (allocator.rs), and the double-buffered   *)
(* terminal (terminal_out.rs switch_to_double_buffer, push_to_frame_buffer,*)
(* lock_back_buffer, set_window_info).                                     *)
(*                                                                         *)
(* Every spin lock a step can hold across another step is in Locks; owner  *)
(* maps it to the core holding it.  SERIAL.1 and SERIAL_WRITE_LOCK are     *)
(* leaves (nothing is taken while they are held) and are taken and        *)
(* released inside one step, so they never block anyone across a step and  *)
(* are left out; a log call is therefore one step needing TERM (Stdout).   *)
(* A call of log, print_logo or the allocator is a subroutine: pc goes to  *)
(* its first label and the label to return to is pushed on stack.          *)
(***************************************************************************)
EXTENDS Naturals, Sequences, FiniteSets, TLC

LOCAL G == INSTANCE Graphs
LOCAL SE == INSTANCE SequencesExt
S == INSTANCE Serial

CONSTANTS
  ApCount,          \* ACPI ap_count: cores are 0 (BSP) .. ApCount
  TickTarget,       \* timer_test stops once its counter reaches 5
  RefreshTarget,    \* the APs wait for REFRESH_COUNTER >= 2
  PrintIterations,  \* bound on core 1's back-buffer print loop (0..100_000_000)
  MaxInput,         \* bound on the characters the serial line delivers
  NoCore            \* owner of a free lock

Cores == 0 .. ApCount
APs   == 1 .. ApCount

Locks == {"TERM", "BACK_BUFFER", "SWAP", "MEMORY", "HEAP", "SERIAL_READ"}

\* The four calls of sync_cores_barrier in main.
SyncCalls == 4

VARIABLES
  pc,            \* [core -> label of its next step]
  stack,         \* [core -> labels to return to]
  owner,         \* [lock -> core holding it, or NoCore]
  barCount,      \* SYNC_STARTUP_BARRIER: cores waiting in this generation
  barGen,        \* SYNC_STARTUP_BARRIER: generation id
  myGen,         \* [core -> wait()'s local_gen; 0 once wait() returned]
  arrived,       \* [core -> sync_cores_barrier calls that reached wait()]
  passed,        \* [core -> sync_cores_barrier calls that returned]
  apArrived,     \* cores that reached barrier!(ap_count)
  stuff,         \* [core -> CoreLocalData.stuff is Some]
  callback,      \* [core -> apic_timer_interrupt_function]
  timerOn,       \* [core -> local APIC timer armed (periodic)]
  count,         \* [core -> timer_test's AtomicU64, saturating at TickTarget]
  lastCount,     \* [core -> timer_test's last_count; 0 once it returned]
  seen,          \* [core -> the count timer_test read, until checked]
  newFrame,      \* NEW_FRAME_REQUESTED
  refresh,       \* REFRESH_COUNTER, saturating at RefreshTarget
  doubleBuffer,  \* DOUBLE_BUFFER is initialised
  iter,          \* [core -> iterations of core 1's back-buffer loop]
  regs,          \* COM1's register file after SERIAL's lazy init
  rx,            \* COM1's receiver: RBR, DATA_READY, latched LSR errors
  input,         \* history: [k -> character k arrived with a line error]
  delivered,     \* history: the characters read() returned Ok, in order
  latched,       \* history: characters whose error bits LSR still latches
  reported       \* history: characters whose error a read() returned as Err

vars == <<pc, stack, owner, barCount, barGen, myGen, arrived, passed,
          apArrived, stuff, callback, timerOn, count, lastCount, seen,
          newFrame, refresh, doubleBuffer, iter,
          regs, rx, input, delivered, latched, reported>>

barrierVars == <<barCount, barGen, myGen, arrived, passed, apArrived>>
timerVars   == <<stuff, callback, timerOn, count, lastCount, seen>>
frameVars   == <<newFrame, refresh, doubleBuffer, iter>>
serialVars  == <<regs, rx, input, delivered, latched, reported>>

-----------------------------------------------------------------------------
(* Control helpers.                                                        *)

Goto(c, l) == /\ pc' = [pc EXCEPT ![c] = l]
              /\ UNCHANGED stack

Call(c, sub, ret) == /\ pc' = [pc EXCEPT ![c] = sub]
                     /\ stack' = [stack EXCEPT ![c] = <<ret>> \o @]

Return(c) == /\ pc' = [pc EXCEPT ![c] = Head(stack[c])]
             /\ stack' = [stack EXCEPT ![c] = Tail(@)]

Free(l) == owner[l] = NoCore

Acquire(c, l) == /\ Free(l)
                 /\ owner' = [owner EXCEPT ![l] = c]

Release(c, ls) == owner' = [l \in Locks |-> IF l \in ls THEN NoCore ELSE owner[l]]

\* Interrupts are off on core 0 inside without_interrupts in
\* push_to_frame_buffer (and while a handler runs, which is one step).
IntEnabled(c) == pc[c] \notin {"push_swap", "push_copy"}

Min2(a, b) == IF a < b THEN a ELSE b

-----------------------------------------------------------------------------
Init ==
  /\ pc = [c \in Cores |-> "sync"]
  /\ stack = [c \in Cores |-> <<>>]
  /\ owner = [l \in Locks |-> NoCore]
  /\ barCount = 0
  /\ barGen = 0
  /\ myGen = [c \in Cores |-> 0]
  /\ arrived = [c \in Cores |-> 0]
  /\ passed = [c \in Cores |-> 0]
  /\ apArrived = {}
  /\ stuff = [c \in Cores |-> FALSE]
  /\ callback = [c \in Cores |-> "none"]
  /\ timerOn = [c \in Cores |-> FALSE]
  /\ count = [c \in Cores |-> 0]
  /\ lastCount = [c \in Cores |-> 0]
  /\ seen = [c \in Cores |-> 0]
  /\ newFrame = TRUE
  /\ refresh = 0
  /\ doubleBuffer = FALSE
  /\ iter = [c \in Cores |-> 0]
  /\ regs \in {S!SerialInit(r, S!BAUD_115200) : r \in S!BootRegs}
  /\ rx = S!IdleReceiver
  /\ input = <<>>
  /\ delivered = <<>>
  /\ latched = {}
  /\ reported = {}

-----------------------------------------------------------------------------
(* logging.rs KernelLogger::log: the serial sink (SERIAL_WRITE_LOCK, then  *)
(* SERIAL.1 per serial_print!) and then the graphics sink through          *)
(* Stdout::acquire, which spins on TERM.  Both levels are Trace (main.rs), *)
(* so every record goes to both sinks.                                     *)

LogRecord(c) ==
  /\ pc[c] = "log"
  /\ Free("TERM")
  /\ Return(c)
  /\ UNCHANGED <<owner, barrierVars, timerVars, frameVars>>

\* A step whose whole effect is one log record: it waits for TERM.
LogStep(c, next) == /\ Free("TERM")
                    /\ Goto(c, next)

-----------------------------------------------------------------------------
(* Kernel heap (allocator.rs INNER_KERNEL_ALLOC): the heap lock, and the   *)
(* rescue closure run under it when the heap must grow: a trace record,    *)
(* then MEMORY.lock() to map the pages and log utilisation and stats.      *)
(* Whether an allocation needs growth depends on heap state the model does *)
(* not track, so both outcomes are possible.                               *)

\* KernelAllocatorWrapper::alloc logs "Kernel allocating" before it
\* takes the heap lock.
AllocLog(c) ==
  /\ pc[c] = "alloc"
  /\ LogStep(c, "alloc_heap")
  /\ UNCHANGED <<owner, barrierVars, timerVars, frameVars>>

AllocLock(c) ==
  /\ pc[c] = "alloc_heap"
  /\ Acquire(c, "HEAP")
  /\ Goto(c, "alloc_in")
  /\ UNCHANGED <<barrierVars, timerVars, frameVars>>

AllocFits(c) ==
  /\ pc[c] = "alloc_in"
  /\ Release(c, {"HEAP"})
  /\ Return(c)
  /\ UNCHANGED <<barrierVars, timerVars, frameVars>>

AllocGrow(c) ==
  /\ pc[c] = "alloc_in"
  /\ LogStep(c, "alloc_map")
  /\ UNCHANGED <<owner, barrierVars, timerVars, frameVars>>

AllocMap(c) ==
  /\ pc[c] = "alloc_map"
  /\ Acquire(c, "MEMORY")
  /\ Call(c, "log", "alloc_done")
  /\ UNCHANGED <<barrierVars, timerVars, frameVars>>

AllocDone(c) ==
  /\ pc[c] = "alloc_done"
  /\ Release(c, {"MEMORY", "HEAP"})
  /\ Return(c)
  /\ UNCHANGED <<barrierVars, timerVars, frameVars>>

\* KernelAllocatorWrapper::dealloc: a trace record, then the heap lock for
\* the duration of the buddy free.
DeallocLog(c) ==
  /\ pc[c] = "dealloc"
  /\ LogStep(c, "dealloc_heap")
  /\ UNCHANGED <<owner, barrierVars, timerVars, frameVars>>

DeallocHeap(c) ==
  /\ pc[c] = "dealloc_heap"
  /\ Free("HEAP")
  /\ Return(c)
  /\ UNCHANGED <<owner, barrierVars, timerVars, frameVars>>

-----------------------------------------------------------------------------
(* smp.rs sync_cores_barrier: a trace record, then wait() on the reusable  *)
(* spin::Barrier of width ap_count + 1; the core whose arrival completes   *)
(* the generation is the leader, resets the count, bumps the generation    *)
(* and logs "All cores synced"; the others spin until the generation       *)
(* changes.                                                                *)

SyncStart(c) ==
  /\ pc[c] = "sync"
  /\ LogStep(c, "sync_arrive")
  /\ UNCHANGED <<owner, barrierVars, timerVars, frameVars>>

\* Mutant: the leader test off by one (count compared with ap_count).
IsLeader_off_by_one(cnt) == ~(cnt + 1 < ApCount)

\* wait(): lock.count += 1; leader iff !(lock.count < num_threads).
IsLeader(cnt) == ~(cnt + 1 < ApCount + 1)

SyncArrive(c) ==
  /\ pc[c] = "sync_arrive"
  /\ arrived' = [arrived EXCEPT ![c] = @ + 1]
  /\ IF IsLeader(barCount)
       THEN /\ barCount' = 0
            /\ barGen' = barGen + 1
            /\ passed' = [passed EXCEPT ![c] = @ + 1]
            /\ Call(c, "log", "sync_exit")
            /\ UNCHANGED myGen
       ELSE /\ barCount' = barCount + 1
            /\ myGen' = [myGen EXCEPT ![c] = barGen]
            /\ Goto(c, "sync_wait")
            /\ UNCHANGED <<barGen, passed>>
  /\ UNCHANGED <<owner, apArrived, timerVars, frameVars>>

SyncWait(c) ==
  /\ pc[c] = "sync_wait"
  /\ barGen # myGen[c]
  /\ passed' = [passed EXCEPT ![c] = @ + 1]
  /\ myGen' = [myGen EXCEPT ![c] = 0]
  /\ Goto(c, "sync_exit")
  /\ UNCHANGED <<owner, barCount, barGen, arrived, apArrived,
                 timerVars, frameVars>>

\* main: what follows the k-th sync_cores_barrier call.
SyncExit(c) ==
  /\ pc[c] = "sync_exit"
  /\ LET k == passed[c] IN
       \/ k \in {1, 3} /\ c = 0 /\ Goto(c, "memlog")
       \/ k \in {1, 3} /\ c # 0 /\ Goto(c, "sync")
       \/ k = 2 /\ Call(c, "logo", "tt_stuff")
       \/ k = 4 /\ c = 0 /\ Call(c, "log", "fbinfo")
       \/ k = 4 /\ c # 0 /\ Goto(c, "ap_db")
  /\ UNCHANGED <<owner, barrierVars, timerVars, frameVars>>

\* MEMORY.lock().log_memory_utilization(Debug) on core 0.
MemLog(c) ==
  /\ pc[c] = "memlog"
  /\ Acquire(c, "MEMORY")
  /\ Call(c, "log", "memlog_unlock")
  /\ UNCHANGED <<barrierVars, timerVars, frameVars>>

MemUnlock(c) ==
  /\ pc[c] = "memlog_unlock"
  /\ Release(c, {"MEMORY"})
  /\ Goto(c, "sync")
  /\ UNCHANGED <<barrierVars, timerVars, frameVars>>

-----------------------------------------------------------------------------
(* print_logo: decode the JPEG (heap allocations), then                    *)
(* Stdout::acquire().print_pixels, then the decoded pixels are dropped     *)
(* (a heap deallocation) on the way out.                                   *)

Logo(c) ==
  /\ pc[c] = "logo"
  /\ Call(c, "alloc", "logo_print")
  /\ UNCHANGED <<owner, barrierVars, timerVars, frameVars>>

LogoPrint(c) ==
  /\ pc[c] = "logo_print"
  /\ Free("TERM")
  /\ Goto(c, "dealloc")
  /\ UNCHANGED <<owner, barrierVars, timerVars, frameVars>>

-----------------------------------------------------------------------------
(* apic.rs start_timer: the callback is stored in the core-local data     *)
(* first, then the LVT is programmed periodic; the intervals of main       *)
(* (200_000 * (id + 1) and 30_000 us) fit in 32 bits, so it succeeds.      *)

StartTimer(c, cb) ==
  /\ callback' = [callback EXCEPT ![c] = cb]
  /\ timerOn' = [timerOn EXCEPT ![c] = TRUE]

(* timer_test: stuff = Some(Vec::new()), push a boxed AtomicU64 (a heap    *)
(* allocation), start the periodic timer with timer_interrupt, then spin:  *)
(* read the counter once; if it grew, last_count += 1 and log; break once  *)
(* the value read is >= 5.  print_logo follows, then the third barrier.    *)

\* Mutant: the Vec stored in a copy of the core-local data, not in it.
TtStuff_no_stuff(c) ==
  /\ pc[c] = "tt_stuff"
  /\ Call(c, "alloc", "tt_start")
  /\ UNCHANGED <<owner, barrierVars, timerVars, frameVars>>

TtStuff(c) ==
  /\ pc[c] = "tt_stuff"
  /\ stuff' = [stuff EXCEPT ![c] = TRUE]
  /\ Call(c, "alloc", "tt_start")
  /\ UNCHANGED <<owner, barrierVars, callback, timerOn, count, lastCount,
                 seen, frameVars>>

TtStart(c) ==
  /\ pc[c] = "tt_start"
  /\ StartTimer(c, "timer_interrupt")
  /\ Goto(c, "tt_loop")
  /\ UNCHANGED <<owner, barrierVars, stuff, count, lastCount, seen,
                 frameVars>>

\* One iteration that does something: the counter grew, or it is past 5.
TtLoop(c) ==
  /\ pc[c] = "tt_loop"
  /\ \/ /\ count[c] > lastCount[c]
        /\ lastCount' = [lastCount EXCEPT ![c] = @ + 1]
        /\ seen' = [seen EXCEPT ![c] = count[c]]
        /\ Call(c, "log", "tt_check")
     \/ /\ count[c] <= lastCount[c]
        /\ count[c] >= TickTarget
        /\ Call(c, "logo", "sync")
        /\ lastCount' = [lastCount EXCEPT ![c] = 0]
        /\ UNCHANGED seen
  /\ UNCHANGED <<owner, barrierVars, stuff, callback, timerOn, count,
                 frameVars>>

TtCheck(c) ==
  /\ pc[c] = "tt_check"
  /\ IF seen[c] >= TickTarget
       THEN /\ Call(c, "logo", "sync")
            /\ lastCount' = [lastCount EXCEPT ![c] = 0]
       ELSE /\ Goto(c, "tt_loop")
            /\ UNCHANGED lastCount
  /\ seen' = [seen EXCEPT ![c] = 0]
  /\ UNCHANGED <<owner, barrierVars, stuff, callback, timerOn, count,
                 frameVars>>

(* interrupts.rs timer_interrupt: call the core's callback if set, then    *)
(* EOI.  common_main timer_interrupt does                                   *)
(* get_cld().stuff.as_mut().unwrap()[0].fetch_add(1): a None panics.       *)
(* The closure of core 0 stores NEW_FRAME_REQUESTED = true.  The counter   *)
(* saturates at TickTarget: timer_test behaves the same for every value    *)
(* >= 5 it can read.  A pending interrupt is delivered when IF is set.     *)

TimerInterrupt(c) ==
  /\ timerOn[c]
  /\ IntEnabled(c)
  /\ pc[c] # "panic"
  /\ \/ /\ callback[c] = "timer_interrupt"
        /\ IF stuff[c]
             THEN /\ count[c] < TickTarget
                  /\ count' = [count EXCEPT ![c] = @ + 1]
                  /\ UNCHANGED pc
             ELSE /\ pc' = [pc EXCEPT ![c] = "panic"]
                  /\ UNCHANGED count
        /\ UNCHANGED newFrame
     \/ /\ callback[c] = "int"
        /\ ~newFrame
        /\ newFrame' = TRUE
        /\ UNCHANGED <<pc, count>>
  /\ UNCHANGED <<stack, owner, barrierVars, stuff, callback, timerOn,
                 lastCount, seen, refresh, doubleBuffer, iter, serialVars>>

-----------------------------------------------------------------------------
(* Core 0 after the fourth barrier: "Hello" and framebuffer records,       *)
(* switch_to_double_buffer (DOUBLE_BUFFER.call_once: a trace record, the   *)
(* back buffer allocation, TERM.lock() to redirect the terminal), a        *)
(* record, start_timer(30_000, true, int), then forever: wait for          *)
(* NEW_FRAME_REQUESTED.fetch_and(false), REFRESH_COUNTER += 1,             *)
(* push_to_frame_buffer.                                                   *)

FbInfo(c) ==
  /\ pc[c] = "fbinfo"
  /\ LogStep(c, "switch")
  /\ UNCHANGED <<owner, barrierVars, timerVars, frameVars>>

Switch(c) ==
  /\ pc[c] = "switch"
  /\ LogStep(c, "switch_alloc")
  /\ UNCHANGED <<owner, barrierVars, timerVars, frameVars>>

SwitchAlloc(c) ==
  /\ pc[c] = "switch_alloc"
  /\ Call(c, "alloc", "switch_term")
  /\ UNCHANGED <<owner, barrierVars, timerVars, frameVars>>

\* The closure ends (TERM dropped), call_once publishes DOUBLE_BUFFER, and
\* main logs "Switched to double buffer".
SwitchTerm(c) ==
  /\ pc[c] = "switch_term"
  /\ Free("TERM")
  /\ doubleBuffer' = TRUE
  /\ Call(c, "log", "start_int")
  /\ UNCHANGED <<owner, barrierVars, timerVars, newFrame, refresh, iter>>

StartInt(c) ==
  /\ pc[c] = "start_int"
  /\ StartTimer(c, "int")
  /\ Goto(c, "wait_frame")
  /\ UNCHANGED <<owner, barrierVars, stuff, count, lastCount, seen,
                 frameVars>>

\* The hlt loop ends when fetch_and(false) returns true; REFRESH_COUNTER is
\* then incremented and push_to_frame_buffer entered (PANICKED_STOP_PRINTING
\* is never set: no panic path is taken in this flow).
WaitFrame(c) ==
  /\ pc[c] = "wait_frame"
  /\ newFrame
  /\ newFrame' = FALSE
  /\ refresh' = Min2(refresh + 1, RefreshTarget)
  /\ Goto(c, "push_term")
  /\ UNCHANGED <<owner, barrierVars, timerVars, doubleBuffer, iter>>

\* push_to_frame_buffer: TERM, then BACK_BUFFER_LOCK, then interrupts off
\* and SWAP_LOCK, copy back to front, drop all.
PushTerm(c) ==
  /\ pc[c] = "push_term"
  /\ Acquire(c, "TERM")
  /\ Goto(c, "push_back")
  /\ UNCHANGED <<barrierVars, timerVars, frameVars>>

PushBack(c) ==
  /\ pc[c] = "push_back"
  /\ Acquire(c, "BACK_BUFFER")
  /\ Goto(c, "push_swap")
  /\ UNCHANGED <<barrierVars, timerVars, frameVars>>

PushSwap(c) ==
  /\ pc[c] = "push_swap"
  /\ Acquire(c, "SWAP")
  /\ Goto(c, "push_copy")
  /\ UNCHANGED <<barrierVars, timerVars, frameVars>>

PushCopy(c) ==
  /\ pc[c] = "push_copy"
  /\ Release(c, {"SWAP", "BACK_BUFFER", "TERM"})
  /\ Goto(c, "wait_frame")
  /\ UNCHANGED <<barrierVars, timerVars, frameVars>>

-----------------------------------------------------------------------------
(* The APs after the fourth barrier: set_to_double_buffer spins until      *)
(* DOUBLE_BUFFER is set, then the local writer clears its window (in the   *)
(* back buffer, with no lock); spin while REFRESH_COUNTER < 2; core 1      *)
(* moves TERM to core 0's window (TERM.lock().set_window_info, whose       *)
(* serial_mark! takes the leaf SERIAL.1 and whose clear draws under TERM); *)
(* barrier!(ap_count); a local clear; then core 1 prints under             *)
(* lock_back_buffer in a loop, core 2 prints locally and calls print_logo, *)
(* the others print locally; finally every AP loops on                     *)
(* SERIAL.0.lock().read() and prints what it read.                         *)

ApDoubleBuffer(c) ==
  /\ pc[c] = "ap_db"
  /\ doubleBuffer
  /\ Goto(c, "ap_clear")
  /\ UNCHANGED <<owner, barrierVars, timerVars, frameVars>>

ApClear(c) ==
  /\ pc[c] = "ap_clear"
  /\ Goto(c, "ap_refresh")
  /\ UNCHANGED <<owner, barrierVars, timerVars, frameVars>>

ApRefresh(c) ==
  /\ pc[c] = "ap_refresh"
  /\ refresh >= RefreshTarget
  /\ Goto(c, IF c = 1 THEN "ap_window" ELSE "ap_barrier")
  /\ UNCHANGED <<owner, barrierVars, timerVars, frameVars>>

ApWindow(c) ==
  /\ pc[c] = "ap_window"
  /\ Acquire(c, "TERM")
  /\ Goto(c, "ap_window_mark")
  /\ UNCHANGED <<barrierVars, timerVars, frameVars>>

ApWindowMark(c) ==
  /\ pc[c] = "ap_window_mark"
  /\ Release(c, {"TERM"})
  /\ Goto(c, "ap_barrier")
  /\ UNCHANGED <<barrierVars, timerVars, frameVars>>

ApBarrier(c) ==
  /\ pc[c] = "ap_barrier"
  /\ apArrived' = apArrived \cup {c}
  /\ Goto(c, "ap_barrier_wait")
  /\ UNCHANGED <<owner, barCount, barGen, myGen, arrived, passed,
                 timerVars, frameVars>>

ApBarrierWait(c) ==
  /\ pc[c] = "ap_barrier_wait"
  /\ apArrived = APs
  /\ Goto(c, "ap_clear2")
  /\ UNCHANGED <<owner, barrierVars, timerVars, frameVars>>

\* local_writer.clear(None) and the branch on the core index; a core
\* above 2 draws its 200 lines locally within this same step.
ApClear2(c) ==
  /\ pc[c] = "ap_clear2"
  /\ Goto(c, CASE c = 1 -> "back_lock"
               [] c = 2 -> "core2_print"
               [] OTHER -> "serial_lock")
  /\ UNCHANGED <<owner, barrierVars, timerVars, frameVars>>

BackLock(c) ==
  /\ pc[c] = "back_lock"
  /\ Acquire(c, "BACK_BUFFER")
  /\ Goto(c, "back_print")
  /\ UNCHANGED <<barrierVars, timerVars, frameVars>>

\* Mutant: the loop runs 0..=n instead of 0..n.
BackPrint_inclusive(c) ==
  /\ pc[c] = "back_print"
  /\ Release(c, {"BACK_BUFFER"})
  /\ iter' = [iter EXCEPT ![c] = @ + 1]
  /\ Goto(c, IF iter[c] + 1 <= PrintIterations THEN "back_lock" ELSE "serial_lock")
  /\ UNCHANGED <<barrierVars, timerVars, newFrame, refresh, doubleBuffer>>

\* Mutant: the back-buffer guard outlives the loop iteration.
BackPrint_keeps_guard(c) ==
  /\ pc[c] = "back_print"
  /\ iter' = [iter EXCEPT ![c] = @ + 1]
  /\ Goto(c, IF iter[c] + 1 < PrintIterations THEN "back_lock" ELSE "serial_lock")
  /\ UNCHANGED <<owner, barrierVars, timerVars, newFrame, refresh, doubleBuffer>>

\* End of one iteration: the guard is dropped.
BackPrint(c) ==
  /\ pc[c] = "back_print"
  /\ Release(c, {"BACK_BUFFER"})
  /\ iter' = [iter EXCEPT ![c] = @ + 1]
  /\ Goto(c, IF iter[c] + 1 < PrintIterations THEN "back_lock" ELSE "serial_lock")
  /\ UNCHANGED <<barrierVars, timerVars, newFrame, refresh, doubleBuffer>>

Core2Print(c) ==
  /\ pc[c] = "core2_print"
  /\ Call(c, "logo", "serial_lock")
  /\ UNCHANGED <<owner, barrierVars, timerVars, frameVars>>

(* The APs' echo loop: `if let Ok(c) = SERIAL.0.lock().read() { print }`. *)
(* The guard is a temporary of the if-let scrutinee, so SERIAL.0 stays     *)
(* held while the character is printed.  read() loops on try_read, whose   *)
(* LSR read and RBR read are two port accesses; a character can arrive     *)
(* between them.  A Busy status is the spin, not a step.                   *)

SerialLock(c) ==
  /\ pc[c] = "serial_lock"
  /\ Acquire(c, "SERIAL_READ")
  /\ Goto(c, "serial_read")
  /\ UNCHANGED <<barrierVars, timerVars, frameVars, serialVars>>

\* try_read reads LSR (clearing its error bits): an error ends read() with
\* Err, which main ignores, and the guard is dropped; DATA_READY goes on to
\* the RBR read.
SerialRead(c) ==
  /\ pc[c] = "serial_read"
  /\ LET status == S!TryReadStatus(rx) IN
       /\ status # "Busy"
       /\ rx' = S!AfterStatusRead(rx)
       /\ latched' = {}
       /\ IF status = "Ready"
            THEN /\ Goto(c, "serial_data")
                 /\ UNCHANGED <<owner, reported>>
            ELSE /\ Release(c, {"SERIAL_READ"})
                 /\ Goto(c, "serial_lock")
                 /\ reported' = reported \cup latched
  /\ UNCHANGED <<barrierVars, timerVars, frameVars, regs, input, delivered>>

\* Ok(rr(RECEIVE_BUFFER_REGISTER)): whatever character RBR holds now.
SerialData(c) ==
  /\ pc[c] = "serial_data"
  /\ delivered' = Append(delivered, rx.rbr)
  /\ rx' = S!AfterDataRead(rx)
  /\ Goto(c, "serial_print")
  /\ UNCHANGED <<owner, barrierVars, timerVars, frameVars, regs, input,
                 latched, reported>>

\* The character is printed locally; then the guard is dropped.
SerialPrint(c) ==
  /\ pc[c] = "serial_print"
  /\ Release(c, {"SERIAL_READ"})
  /\ Goto(c, "serial_lock")
  /\ UNCHANGED <<barrierVars, timerVars, frameVars, serialVars>>

EchoLoop == {"serial_lock", "serial_read", "serial_data", "serial_print"}

\* The line delivers the next character, possibly with a parity or
\* framing error.  Input comes from outside: not fair, and bounded.  No
\* core touches COM1's receiver before an AP enters the echo loop, so a
\* character arriving earlier leaves the receiver as it would arriving
\* just then: arrivals are taken from that point on.
LineReceive ==
  /\ \E c \in APs : pc[c] \in EchoLoop
  /\ Len(input) < MaxInput
  /\ \E err \in S!LineErrors \cup {"none"} :
       LET k == Len(input) + 1 IN
       /\ input' = Append(input, err # "none")
       /\ rx' = S!Receive(rx, k, err)
       /\ latched' = latched \cup (IF err # "none" THEN {k} ELSE {})
  /\ UNCHANGED <<pc, stack, owner, barrierVars, timerVars, frameVars,
                 regs, delivered, reported>>

-----------------------------------------------------------------------------
\* The steps of main before the echo loop, which leave the UART alone.
MainStep(c) ==
  \/ LogRecord(c)
  \/ AllocLog(c) \/ AllocLock(c) \/ AllocFits(c) \/ AllocGrow(c) \/ AllocMap(c) \/ AllocDone(c)
  \/ DeallocLog(c) \/ DeallocHeap(c)
  \/ SyncStart(c) \/ SyncArrive(c) \/ SyncWait(c) \/ SyncExit(c)
  \/ MemLog(c) \/ MemUnlock(c)
  \/ Logo(c) \/ LogoPrint(c)
  \/ TtStuff(c) \/ TtStart(c) \/ TtLoop(c) \/ TtCheck(c)
  \/ FbInfo(c) \/ Switch(c) \/ SwitchAlloc(c) \/ SwitchTerm(c) \/ StartInt(c)
  \/ WaitFrame(c) \/ PushTerm(c) \/ PushBack(c) \/ PushSwap(c) \/ PushCopy(c)
  \/ ApDoubleBuffer(c) \/ ApClear(c) \/ ApRefresh(c) \/ ApWindow(c)
  \/ ApWindowMark(c) \/ ApBarrier(c) \/ ApBarrierWait(c) \/ ApClear2(c)
  \/ BackLock(c) \/ BackPrint(c) \/ Core2Print(c)

Step(c) ==
  \/ MainStep(c) /\ UNCHANGED serialVars
  \/ SerialLock(c) \/ SerialRead(c) \/ SerialData(c) \/ SerialPrint(c)

Next ==
  \/ \E c \in Cores : Step(c) \/ TimerInterrupt(c)
  \/ LineReceive

\* Every core keeps running its own code (weak fairness); a spin lock gives
\* no fairness beyond that.  A pending timer interrupt is latched by the
\* local APIC and delivered once interrupts are enabled again, so timer
\* delivery is strongly fair.  Serial input is not fair.
Fairness ==
  \A c \in Cores : WF_vars(Step(c)) /\ SF_vars(TimerInterrupt(c))

Spec == Init /\ [][Next]_vars /\ Fairness

-----------------------------------------------------------------------------
(* Properties.                                                             *)

Labels ==
  {"sync", "sync_arrive", "sync_wait", "sync_exit", "memlog", "memlog_unlock",
   "log", "alloc", "alloc_heap", "alloc_in", "dealloc", "dealloc_heap", "alloc_map", "alloc_done", "logo", "logo_print",
   "tt_stuff", "tt_start", "tt_loop", "tt_check", "fbinfo", "switch",
   "switch_alloc", "switch_term", "start_int", "wait_frame", "push_term",
   "push_back", "push_swap", "push_copy", "ap_db", "ap_clear", "ap_refresh",
   "ap_window", "ap_window_mark", "ap_barrier", "ap_barrier_wait", "ap_clear2",
   "back_lock", "back_print", "core2_print", "serial_lock",
   "serial_read", "serial_data", "serial_print", "panic"}

\* Every variable of main's flow keeps its type; the loop counters stay
\* within the bounds the code gives them.
TypeOK ==
  /\ pc \in [Cores -> Labels]
  /\ stack \in [Cores -> Seq(Labels)]
  /\ owner \in [Locks -> Cores \cup {NoCore}]
  /\ barCount \in 0 .. ApCount
  /\ barGen \in 0 .. SyncCalls
  /\ arrived \in [Cores -> 0 .. SyncCalls] /\ passed \in [Cores -> 0 .. SyncCalls]
  /\ apArrived \subseteq APs
  /\ callback \in [Cores -> {"none", "timer_interrupt", "int"}]
  /\ count \in [Cores -> 0 .. TickTarget] /\ lastCount \in [Cores -> 0 .. TickTarget]
  /\ refresh \in 0 .. RefreshTarget
  /\ iter \in [Cores -> 0 .. PrintIterations]
  /\ rx \in [rbr : 0 .. MaxInput, dr : BOOLEAN,
             errs : SUBSET ({"overrun"} \cup S!LineErrors)]
  /\ input \in Seq(BOOLEAN) /\ Len(input) <= MaxInput
  /\ delivered \in Seq(1 .. MaxInput)
  /\ latched \cup reported \subseteq 1 .. Len(input)

\* S6 (barrier): no core returns from its k-th sync_cores_barrier before
\* every core has called wait() for the k-th time, even though a fast core
\* re-enters the same spin::Barrier for the next phase while slow ones are
\* still spinning in the previous generation; and no AP leaves
\* barrier!(ap_count) before every AP reached it.
BarrierPhases ==
  /\ \A c, d \in Cores : passed[c] <= arrived[d]
  /\ \A c \in APs : pc[c] \in {"ap_clear2", "back_lock", "back_print",
                               "core2_print", "serial_lock",
                               "serial_read", "serial_data", "serial_print"}
                      => apArrived = APs

\* The spin lock the next step of core c waits for.
WantedLock ==
  ("log" :> "TERM") @@ ("logo_print" :> "TERM") @@ ("switch_term" :> "TERM")
  @@ ("push_term" :> "TERM") @@ ("ap_window" :> "TERM")
  @@ ("alloc" :> "TERM") @@ ("dealloc" :> "TERM") @@ ("sync" :> "TERM")
  @@ ("fbinfo" :> "TERM") @@ ("switch" :> "TERM")
  @@ ("memlog" :> "MEMORY") @@ ("alloc_map" :> "MEMORY")
  @@ ("alloc_heap" :> "HEAP") @@ ("dealloc_heap" :> "HEAP") @@ ("push_back" :> "BACK_BUFFER")
  @@ ("back_lock" :> "BACK_BUFFER") @@ ("push_swap" :> "SWAP")
  @@ ("serial_lock" :> "SERIAL_READ")

WaitsFor ==
  {<<c, owner[WantedLock[pc[c]]]>> :
     c \in {d \in Cores : pc[d] \in DOMAIN WantedLock
                          /\ ~Free(WantedLock[pc[d]])}}

NoTimerPanic == \A c \in Cores : pc[c] # "panic"

\* Core 0 copies the back buffer to the screen again and again: every
\* periodic NEW_FRAME_REQUESTED is eventually served by a complete
\* push_to_frame_buffer, whatever the APs do with TERM and the back buffer.
FramesKeepComing == []<>(pc[0] = "push_copy")

\* Steps in which an AP draws into the back buffer through its own
\* TerminalWriter without BACK_BUFFER_LOCK.
UnlockedBackWrites ==
  {"ap_clear", "ap_clear2", "core2_print", "serial_print"}

\* Spec 5 (concurrency): the back-buffer lock coordinates the writers of
\* the back buffer with its single reader: while push_to_frame_buffer
\* copies it to the screen, no core is drawing into it.
NoTearing ==
  pc[0] = "push_copy" => \A c \in APs : pc[c] \notin UnlockedBackWrites
\* SERIAL's lazy initialiser leaves COM1 at 115200 baud, 8N1, with the
\* divisor latch closed and its interrupts off, whatever state firmware
\* left the register file in: init must close DLAB before it writes the
\* interrupt enable register, which shares offset 1 with the divisor.
UartProgrammed ==
  /\ S!Divisor(regs) = S!BAUD_115200
  /\ ~S!DLAB(regs)
  /\ regs.lcr = 3
  /\ regs.ier = 0

CorruptFlagged ==
  \A i \in 1 .. Len(delivered) :
     input[delivered[i]] => delivered[i] \in reported \cup latched
====
