------------------------------- MODULE SmpBoot -------------------------------
(***************************************************************************)
(* SMP bring-up (src/kernel/src/smp.rs, main.rs, apic.rs, pit.rs).        *)
(*                                                                         *)
(* The BSP runs init_smp: it allocates the AP stacks, maps the trampoline  *)
(* page 0, sends INIT, waits 10 ms on the PIT, sends SIPI, waits 200 us on *)
(* the PIT, sends SIPI again, spins on AP_STARTUP_DONE_COUNTER with a      *)
(* bounded count, unmaps page 0 and panics if the count ran out.  It then  *)
(* enables interrupts and meets the APs at two sync_cores_barrier calls.   *)
(*                                                                         *)
(* An AP woken by a SIPI runs the trampoline from page 0 (which takes its  *)
(* index from AP_CORE_COUNTER), then ap_entry_fn: the done counter, GDT,   *)
(* core-local data, apic::init (timer calibration: the PIT waits 50 ms     *)
(* under AP_TIMER_INIT_LOCK), interrupts on, two barrier waits.            *)
(*                                                                         *)
(* PIT channel 2 is one device: pit::set reprograms it and                 *)
(* wait_for_timeout returns at the terminal count of whatever was          *)
(* programmed last.  pitOwner is the core that programmed it last.         *)
(* spin::Barrier is a count and a generation id under a lock; the core     *)
(* that brings the count to the width resets it and opens a generation.    *)
(***************************************************************************)
EXTENDS Naturals, FiniteSets

CONSTANTS
  BSP,        \* the bootstrap processor
  APs,        \* the application processors that answer the SIPI
  ApCount,    \* ACPI.ap_count
  TimeOut,    \* the spin bound of init_smp (1_000_000 in the code)
  NoCore      \* nobody

Cores == {BSP} \cup APs

ASSUME ApCount = Cardinality(APs)
ASSUME TimeOut \in Nat \ {0}

VARIABLES
  bspPc,          \* where init_smp / kernel_main is
  apPc,           \* [APs -> where the AP is]
  sipis,          \* startup IPIs sent so far
  apCoreCounter,  \* AP_CORE_COUNTER (trampoline)
  apIndex,        \* [APs -> index the trampoline fetched]
  doneCounter,    \* AP_STARTUP_DONE_COUNTER
  timeOut,        \* time_out of init_smp
  trampolineMapped,
  pitOwner,       \* the core that last programmed the PIT
  timerLock,      \* holder of AP_TIMER_INIT_LOCK
  calibrated,     \* cores whose ticks_per_second was measured over their own PIT window
  barrier,        \* [count, gen] of SYNC_STARTUP_BARRIER
  localGen,       \* [Cores -> generation a waiting core saw]
  waiting,        \* [Cores -> inside Barrier::wait]
  passed          \* [Cores -> barrier waits completed]

vars == <<bspPc, apPc, sipis, apCoreCounter, apIndex, doneCounter, timeOut,
          trampolineMapped, pitOwner, timerLock, calibrated, barrier, localGen,
          waiting, passed>>

\* The BSP's control points in the order init_smp and kernel_main reach them.
BspPcs == {"stacks", "map", "init", "sipi1", "wait200", "sipi2", "spin",
           "unmap", "check", "enable", "barrier", "main", "panicked"}
ApPcs  == {"halted", "tramp", "entry", "apic", "calib", "enable", "barrier", "main"}

\* sync_cores_barrier is called twice on every core before main.
Barriers == 2
Width == ApCount + 1

Init ==
  /\ bspPc = "stacks"
  /\ apPc = [p \in APs |-> "halted"]
  /\ sipis = 0
  /\ apCoreCounter = 0
  /\ apIndex = [p \in APs |-> 0]
  /\ doneCounter = 0
  /\ timeOut = TimeOut
  /\ trampolineMapped = FALSE
  /\ pitOwner = NoCore
  /\ timerLock = NoCore
  /\ calibrated = {}
  /\ barrier = [count |-> 0, gen |-> 0]
  /\ localGen = [c \in Cores |-> 0]
  /\ waiting = [c \in Cores |-> FALSE]
  /\ passed = [c \in Cores |-> 0]

-----------------------------------------------------------------------------
(* The BSP.                                                                *)

\* allocate_stacks (map_ram_kernel under MEMORY, see VirtualMemory).
AllocateStacks ==
  /\ bspPc = "stacks"
  /\ bspPc' = "map"
  /\ UNCHANGED <<apPc, sipis, apCoreCounter, apIndex, doneCounter, timeOut,
                 trampolineMapped, pitOwner, timerLock, calibrated, barrier,
                 localGen, waiting, passed>>

\* map_frame of page 0 to frame 0, the copy of the blob and its patches.
MapTrampoline ==
  /\ bspPc = "map"
  /\ trampolineMapped' = TRUE
  /\ bspPc' = "init"
  /\ UNCHANGED <<apPc, sipis, apCoreCounter, apIndex, doneCounter, timeOut,
                 pitOwner, timerLock, calibrated, barrier, localGen, waiting, passed>>

\* startup_aps: INIT, pit::delay(10_000), SIPI.  No AP runs before the
\* first SIPI, so the 10 ms delay is the BSP's alone.
SendInitSipi ==
  /\ bspPc = "init"
  /\ sipis' = 1
  /\ bspPc' = "sipi1"
  /\ pitOwner' = BSP
  /\ UNCHANGED <<apPc, apCoreCounter, apIndex, doneCounter, timeOut,
                 trampolineMapped, timerLock, calibrated, barrier, localGen, waiting, passed>>

\* pit::delay(200): pit::set, taken without AP_TIMER_INIT_LOCK ...
BspPitSet ==
  /\ bspPc = "sipi1"
  /\ pitOwner' = BSP
  /\ bspPc' = "wait200"
  /\ UNCHANGED <<apPc, sipis, apCoreCounter, apIndex, doneCounter, timeOut,
                 trampolineMapped, timerLock, calibrated, barrier, localGen, waiting, passed>>

\* ... then wait_for_timeout, and the second SIPI.
BspSecondSipi ==
  /\ bspPc = "wait200"
  /\ sipis' = 2
  /\ bspPc' = "spin"
  /\ UNCHANGED <<apPc, apCoreCounter, apIndex, doneCounter, timeOut,
                 trampolineMapped, pitOwner, timerLock, calibrated, barrier,
                 localGen, waiting, passed>>

\* Mutant: the loop stops one AP short.
BspSpin_one_short ==
  /\ bspPc = "spin"
  /\ IF doneCounter + 1 < ApCount /\ timeOut > 0
       THEN /\ timeOut' = timeOut - 1
            /\ UNCHANGED bspPc
       ELSE /\ bspPc' = "unmap"
            /\ UNCHANGED timeOut
  /\ UNCHANGED <<apPc, sipis, apCoreCounter, apIndex, doneCounter,
                 trampolineMapped, pitOwner, timerLock, calibrated, barrier,
                 localGen, waiting, passed>>

\* while DONE < ap_core_count && time_out > 0 { time_out -= 1 }
BspSpin ==
  /\ bspPc = "spin"
  /\ IF doneCounter < ApCount /\ timeOut > 0
       THEN /\ timeOut' = timeOut - 1
            /\ UNCHANGED bspPc
       ELSE /\ bspPc' = "unmap"
            /\ UNCHANGED timeOut
  /\ UNCHANGED <<apPc, sipis, apCoreCounter, apIndex, doneCounter,
                 trampolineMapped, pitOwner, timerLock, calibrated, barrier,
                 localGen, waiting, passed>>

\* mem.unmap(page 0)
UnmapTrampoline ==
  /\ bspPc = "unmap"
  /\ trampolineMapped' = FALSE
  /\ bspPc' = "check"
  /\ UNCHANGED <<apPc, sipis, apCoreCounter, apIndex, doneCounter, timeOut,
                 pitOwner, timerLock, calibrated, barrier, localGen, waiting, passed>>

\* if time_out == 0 { panic!("AP startup timed out") }
CheckTimeOut ==
  /\ bspPc = "check"
  /\ bspPc' = IF timeOut = 0 THEN "panicked" ELSE "enable"
  /\ UNCHANGED <<apPc, sipis, apCoreCounter, apIndex, doneCounter, timeOut,
                 trampolineMapped, pitOwner, timerLock, calibrated, barrier,
                 localGen, waiting, passed>>

\* kernel_main: interrupts::enable, then the barriers.
BspEnable ==
  /\ bspPc = "enable"
  /\ bspPc' = "barrier"
  /\ UNCHANGED <<apPc, sipis, apCoreCounter, apIndex, doneCounter, timeOut,
                 trampolineMapped, pitOwner, timerLock, calibrated, barrier,
                 localGen, waiting, passed>>

-----------------------------------------------------------------------------
(* An AP.                                                                  *)

\* Mutant: the second SIPI restarts an AP still in the trampoline.
ApWake_rewake(p) ==
  /\ apPc[p] \in {"halted", "tramp"}
  /\ sipis > 0
  /\ apIndex' = [apIndex EXCEPT ![p] = apCoreCounter]
  /\ apCoreCounter' = apCoreCounter + 1
  /\ apPc' = [apPc EXCEPT ![p] = "tramp"]
  /\ UNCHANGED <<bspPc, sipis, doneCounter, timeOut, trampolineMapped,
                 pitOwner, timerLock, calibrated, barrier, localGen, waiting, passed>>

\* A SIPI wakes the AP in the trampoline, which fetch-adds AP_CORE_COUNTER.
ApWake(p) ==
  /\ apPc[p] = "halted"
  /\ sipis > 0
  /\ apIndex' = [apIndex EXCEPT ![p] = apCoreCounter]
  /\ apCoreCounter' = apCoreCounter + 1
  /\ apPc' = [apPc EXCEPT ![p] = "tramp"]
  /\ UNCHANGED <<bspPc, sipis, doneCounter, timeOut, trampolineMapped,
                 pitOwner, timerLock, calibrated, barrier, localGen, waiting, passed>>

\* The trampoline reads the page-table, stack and entry addresses from
\* page 0 and jumps to ap_entry_fn.  Without page 0 it faults.
ApTrampoline(p) ==
  /\ apPc[p] = "tramp"
  /\ trampolineMapped
  /\ apPc' = [apPc EXCEPT ![p] = "entry"]
  /\ UNCHANGED <<bspPc, sipis, apCoreCounter, apIndex, doneCounter, timeOut,
                 trampolineMapped, pitOwner, timerLock, calibrated, barrier,
                 localGen, waiting, passed>>

\* ap_entry_fn: AP_STARTUP_DONE_COUNTER.fetch_add(1), GDT and IDT,
\* initialize_own_core_local_data.
ApEntry(p) ==
  /\ apPc[p] = "entry"
  /\ doneCounter' = doneCounter + 1
  /\ apPc' = [apPc EXCEPT ![p] = "apic"]
  /\ UNCHANGED <<bspPc, sipis, apCoreCounter, apIndex, timeOut, trampolineMapped,
                 pitOwner, timerLock, calibrated, barrier, localGen, waiting, passed>>

\* init_timer: take AP_TIMER_INIT_LOCK, start the APIC count, pit::set(50_000).
ApCalibrationStart(p) ==
  /\ apPc[p] = "apic"
  /\ timerLock = NoCore
  /\ timerLock' = p
  /\ pitOwner' = p
  /\ apPc' = [apPc EXCEPT ![p] = "calib"]
  /\ UNCHANGED <<bspPc, sipis, apCoreCounter, apIndex, doneCounter, timeOut,
                 trampolineMapped, calibrated, barrier, localGen, waiting, passed>>

\* Mutant: the lock guard is leaked.
ApCalibrationEnd_keeps_lock(p) ==
  /\ apPc[p] = "calib"
  /\ calibrated' = IF pitOwner = p THEN calibrated \cup {p} ELSE calibrated
  /\ apPc' = [apPc EXCEPT ![p] = "enable"]
  /\ UNCHANGED <<bspPc, sipis, apCoreCounter, apIndex, doneCounter, timeOut,
                 trampolineMapped, pitOwner, timerLock, barrier, localGen, waiting, passed>>

\* wait_for_timeout, stop the APIC timer, store ticks_per_second, unlock.
\* The window measured is the AP's own only if nobody reprogrammed the PIT.
ApCalibrationEnd(p) ==
  /\ apPc[p] = "calib"
  /\ calibrated' = IF pitOwner = p THEN calibrated \cup {p} ELSE calibrated
  /\ timerLock' = NoCore
  /\ apPc' = [apPc EXCEPT ![p] = "enable"]
  /\ UNCHANGED <<bspPc, sipis, apCoreCounter, apIndex, doneCounter, timeOut,
                 trampolineMapped, pitOwner, barrier, localGen, waiting, passed>>

\* interrupts::enable
ApEnable(p) ==
  /\ apPc[p] = "enable"
  /\ apPc' = [apPc EXCEPT ![p] = "barrier"]
  /\ UNCHANGED <<bspPc, sipis, apCoreCounter, apIndex, doneCounter, timeOut,
                 trampolineMapped, pitOwner, timerLock, calibrated, barrier,
                 localGen, waiting, passed>>

-----------------------------------------------------------------------------
(* sync_cores_barrier: spin::Barrier::wait of a core c at a barrier pc.    *)

PcOf(c) == IF c = BSP THEN bspPc ELSE apPc[c]
AtBarrier(c) == PcOf(c) = "barrier"

\* Mutant: the leader does not reset the count.
Arrive_no_reset(c) ==
  IF barrier.count + 1 < Width
    THEN barrier' = [barrier EXCEPT !.count = @ + 1]
    ELSE barrier' = [barrier EXCEPT !.count = @ + 1, !.gen = @ + 1]

\* Under the barrier's lock: count += 1; the one that reaches the width
\* resets the count and opens the next generation.
Arrive(c) ==
  IF barrier.count + 1 < Width
    THEN barrier' = [barrier EXCEPT !.count = @ + 1]
    ELSE barrier' = [count |-> 0, gen |-> barrier.gen + 1]

\* lock, local_gen = generation, count += 1, ...
BarrierArrive(c) ==
  /\ AtBarrier(c)
  /\ ~waiting[c]
  /\ passed[c] < Barriers
  /\ localGen' = [localGen EXCEPT ![c] = barrier.gen]
  /\ waiting' = [waiting EXCEPT ![c] = TRUE]
  /\ Arrive(c)
  /\ passed' = passed
  /\ UNCHANGED <<bspPc, apPc, sipis, apCoreCounter, apIndex, doneCounter, timeOut,
                 trampolineMapped, pitOwner, timerLock, calibrated>>

\* ... spin while local_gen == generation, then return; after the second
\* barrier the core goes on to common_main::main.
BarrierLeave(c) ==
  /\ AtBarrier(c)
  /\ waiting[c]
  /\ localGen[c] # barrier.gen
  /\ waiting' = [waiting EXCEPT ![c] = FALSE]
  /\ passed' = [passed EXCEPT ![c] = @ + 1]
  /\ IF passed[c] + 1 = Barriers
       THEN IF c = BSP THEN bspPc' = "main" /\ UNCHANGED apPc
                       ELSE apPc' = [apPc EXCEPT ![c] = "main"] /\ UNCHANGED bspPc
       ELSE UNCHANGED <<bspPc, apPc>>
  /\ UNCHANGED <<sipis, apCoreCounter, apIndex, doneCounter, timeOut,
                 trampolineMapped, pitOwner, timerLock, calibrated, barrier, localGen>>

-----------------------------------------------------------------------------
BspNext ==
  \/ AllocateStacks \/ MapTrampoline \/ SendInitSipi \/ BspPitSet
  \/ BspSecondSipi \/ BspSpin \/ UnmapTrampoline \/ CheckTimeOut \/ BspEnable

ApNext(p) ==
  \/ ApWake(p) \/ ApTrampoline(p) \/ ApEntry(p) \/ ApCalibrationStart(p)
  \/ ApCalibrationEnd(p) \/ ApEnable(p)

BarrierNext(c) == BarrierArrive(c) \/ BarrierLeave(c)

Next ==
  \/ BspNext
  \/ \E p \in APs : ApNext(p)
  \/ \E c \in Cores : BarrierNext(c)

\* Every core is a CPU of its own that keeps executing: each one's steps
\* are weakly fair (spin loops included).
Fairness ==
  /\ WF_vars(BspNext)
  /\ \A p \in APs : WF_vars(ApNext(p))
  /\ \A c \in Cores : WF_vars(BarrierNext(c))

Spec == Init /\ [][Next]_vars /\ Fairness

-----------------------------------------------------------------------------
TypeOK ==
  /\ bspPc \in BspPcs
  /\ apPc \in [APs -> ApPcs]
  /\ sipis \in 0 .. 2
  /\ apCoreCounter \in 0 .. ApCount
  /\ apIndex \in [APs -> 0 .. ApCount]
  /\ doneCounter \in 0 .. ApCount
  /\ timeOut \in 0 .. TimeOut
  /\ trampolineMapped \in BOOLEAN
  /\ pitOwner \in Cores \cup {NoCore}
  /\ timerLock \in APs \cup {NoCore}
  /\ calibrated \subseteq APs
  /\ barrier \in [count : 0 .. Width, gen : Nat]
  /\ localGen \in [Cores -> Nat]
  /\ waiting \in [Cores -> BOOLEAN]
  /\ passed \in [Cores -> 0 .. Barriers]

\* init_smp unmaps page 0 once every AP has checked in: an AP is never
\* left executing the trampoline without it, except on the path where the
\* spin count ran out and the BSP is about to panic.
TrampolineLive ==
  \A p \in APs : apPc[p] = "tramp" /\ ~trampolineMapped => timeOut = 0

\* spin::Barrier reused for both sync_cores_barrier calls: no core leaves
\* its k-th wait before every core has entered its k-th wait.
Arrived(c) == passed[c] + (IF waiting[c] THEN 1 ELSE 0)
BarrierSafe ==
  \A c, d \in Cores : passed[c] <= Arrived(d)

\* Bring-up ends: unless the BSP panics on the time out, every core gets
\* past both barriers into common_main::main.
BootCompletes ==
  <>(bspPc = "panicked" \/ \A c \in Cores : PcOf(c) = "main")

\* The spin loop of init_smp ends with time_out == 0, which makes it panic
\* with "AP startup timed out", only if some AP has not checked in.
TimeOutMeansMissingAp ==
  [][bspPc = "spin" /\ bspPc' = "unmap" /\ timeOut = 0 => doneCounter < ApCount]_vars

\* Timer calibration (apic.rs init_timer) measures the APIC count over a
\* PIT window nobody else reprograms: while an AP waits on the PIT, it is
\* the one that programmed it last (spec: calibration is serialised).
CalibrationExclusive ==
  \A p \in APs : apPc[p] = "calib" => pitOwner = p
=============================================================================
