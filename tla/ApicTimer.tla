----------------------------- MODULE ApicTimer -----------------------------
(***************************************************************************)
(* The local APIC timer of one core (src/kernel/src/apic.rs) and the      *)
(* timer interrupt handler (src/kernel/src/interrupts.rs).                 *)
(*                                                                         *)
(* The driver runs on the core: Apic::init, then init_timer calibrates    *)
(* ticks_per_second against a PIT delay, then the core's code calls       *)
(* start_timer and stop_timer.  The timer hardware counts down on its own *)
(* (HwTick) and raises vector 32 when the count reaches zero; the handler *)
(* calls the callback stored in the core-local data.  start_timer is a    *)
(* sequence of register writes, and the count may expire, and the         *)
(* interrupt run, between any two of them.                                 *)
(*                                                                         *)
(* Widths are parameters: the code's u32 and u64 are Width32 and          *)
(* 2 * Width32 bits, and the 1_000_000 microseconds of a second is         *)
(* UsPerSecond, with UsPerSecond < 2^Width32 as 10^6 < 2^32.  The u64     *)
(* multiply either panics (overflow checks on) or wraps (off): which one   *)
(* is fixed by the build, chosen in Init.                                  *)
(***************************************************************************)
EXTENDS Naturals

CONSTANTS
  Width32,       \* bits of a u32
  UsPerSecond,   \* the 1_000_000 of apic.rs:90
  Callbacks,     \* the fn() values passed to start_timer
  NoCallback,    \* apic_timer_interrupt_function = None
  MaxCalls,      \* bound on start_timer / stop_timer calls
  ByteBits,      \* bits of a PIT data byte (8); the count register has two
  BaseFrequency, \* BASE_FREQUENCY of pit.rs, in PIT ticks per PitUsPerSecond
  PitUsPerSecond,\* the 1_000_000 of pit.rs:85
  DelayUs,       \* the 50_000 of apic.rs:72
  LeftoverCounts \* counts channel 2 may hold from before the kernel

ASSUME UsPerSecond \in 1..(2^Width32 - 1) /\ NoCallback \notin Callbacks

U32Max == 2^Width32 - 1
U64Mod == 2^(2 * Width32)

ByteMod == 2^ByteBits
MinOf(a, b) == IF a < b THEN a ELSE b
PitMax == ByteMod * ByteMod - 1     \* 0xffff
NoByte == ByteMod                    \* the flip-flop expects the low byte

\* The 50 ms PIT window scaled to one second (apic.rs:77).
CalibrationFactor == 20

VARIABLES
  pc,            \* where the core is in the driver
  overflowChecks,\* the build panics on u64 overflow
  tps,           \* get_cld().apic_timer_ticks_per_second (0 = None)
  callback,      \* get_cld().apic_timer_interrupt_function
  req,           \* the arguments of the start_timer call in progress
  ticks,         \* ticks_in_interval of that call
  masked,        \* LVT timer entry mask bit (1 << 16)
  periodic,      \* LVT timer mode: periodic (0x20000) or one-shot
  initCount,     \* TimerInitialCount register
  curCount,      \* TimerCurrentCount register
  pending,       \* vector 32 raised and not yet handled
  calls,         \* start_timer / stop_timer calls made
  lastCall,      \* the last start_timer call and what it returned
  fired,         \* a callback ran since the last start_timer returned Ok
  pitGate,       \* port 0x61 bit 0: enable_timer_counter2 (gate of channel 2)
  pitOut,        \* port 0x61 bit 5: status_timer_counter2 (OUT of channel 2)
  pitLsb,        \* low byte written since the last mode write, or NoByte
  pitCount,      \* channel 2's counting element
  pitCounting,   \* a complete count is loaded and counting
  pitElapsed     \* PIT ticks since the last complete count was loaded

pitVars == <<pitGate, pitOut, pitLsb, pitCount, pitCounting, pitElapsed>>
vars == <<pc, overflowChecks, tps, callback, req, ticks, masked, periodic,
          initCount, curCount, pending, calls, lastCall, fired, pitVars>>

\* init_timer's steps, with interrupts off.
CalibPcs == {"pit_set", "pit_mode", "pit_lo", "pit_hi", "pit_wait", "calib_wait"}

Requests == [us : 0..U32Max, periodic : BOOLEAN, cb : Callbacks]
Results  == {"none", "ok", "err", "stopped"}

TypeOK ==
  /\ pc \in {"boot", "idle", "mask", "lvt", "count", "panic"} \cup CalibPcs
  /\ overflowChecks \in BOOLEAN
  /\ tps \in 0..(CalibrationFactor * U32Max)
  /\ callback \in Callbacks \cup {NoCallback}
  /\ req \in Requests
  /\ ticks \in 0..U32Max
  /\ masked \in BOOLEAN /\ periodic \in BOOLEAN
  /\ initCount \in 0..U32Max /\ curCount \in 0..U32Max
  /\ pending \in BOOLEAN
  /\ calls \in 0..MaxCalls
  /\ lastCall \in [r : Requests, result : Results, count : 0..U32Max]
  /\ fired \in BOOLEAN
  /\ pitGate \in BOOLEAN /\ pitOut \in BOOLEAN
  /\ pitLsb \in 0..NoByte
  /\ pitCount \in 0..PitMax
  /\ pitCounting \in BOOLEAN
  /\ pitElapsed \in 0..PitMax

\* At reset the LVT timer entry is masked, one-shot, and the count is zero.
Init ==
  /\ pc = "boot"
  /\ overflowChecks \in BOOLEAN
  /\ tps = 0
  /\ callback = NoCallback
  /\ req = CHOOSE r \in Requests : TRUE
  /\ ticks = 0
  /\ masked = TRUE /\ periodic = FALSE
  /\ initCount = 0 /\ curCount = 0
  /\ pending = FALSE
  /\ calls = 0
  /\ lastCall = [r |-> req, result |-> "none", count |-> 0]
  /\ fired = FALSE
  \* channel 2 as firmware left it
  /\ pitGate \in BOOLEAN /\ pitOut \in BOOLEAN
  /\ pitLsb \in {NoByte, 1}        \* possibly mid-count
  /\ pitCount \in LeftoverCounts
  /\ pitCounting \in BOOLEAN
  /\ pitElapsed = 0

-----------------------------------------------------------------------------
(* Apic::init, init_timer (calibration).                                  *)

\* apic::init -> Apic::init: task priority 0, spurious vector 0x11FF, then
\* init_timer: AP_TIMER_INIT_LOCK (other cores: SmpBoot), divider 16,
\* TimerInitialCount = 0xFFFF_FFFF, which starts the count; then
\* pit::delay(50_000).  Interrupts are off (without_interrupts).
ApicInit ==
  /\ pc = "boot"
  /\ pc' = "pit_set"
  /\ initCount' = U32Max /\ curCount' = U32Max
  /\ UNCHANGED <<overflowChecks, tps, callback, req, ticks, masked, periodic,
                 pending, calls, lastCall, fired>>
  /\ UNCHANGED pitVars

-----------------------------------------------------------------------------
(* pit::delay on channel 2 (src/kernel/src/pit.rs).  The 8254 in mode 0    *)
(* with low/high byte access: a mode write resets the byte flip-flop and   *)
(* drives OUT low; a low byte stops the count; the high byte completes it  *)
(* and the channel counts down, OUT going high at the terminal count.      *)

\* BASE_FREQUENCY * us / 1_000_000
PitCounter(us) == (BaseFrequency * us) \div PitUsPerSecond

\* (mutant) the two data bytes in the wrong order
DataBytes_swapped(counter) ==
  <<(counter \div ByteMod) % ByteMod, counter % ByteMod>>

\* the bytes set_data writes: counter & 0xff, then (counter >> 8) & 0xff
DataBytes(counter) ==
  <<counter % ByteMod, (counter \div ByteMod) % ByteMod>>

\* Channel 2 receives a data byte.
PitWriteData(b) ==
  IF pitLsb = NoByte
    THEN /\ pitLsb' = b /\ pitCounting' = FALSE
         /\ UNCHANGED <<pitCount, pitElapsed>>
    ELSE /\ pitCount' = pitLsb + ByteMod * b
         /\ pitLsb' = NoByte /\ pitCounting' = TRUE /\ pitElapsed' = 0

CalibUnchanged == UNCHANGED <<overflowChecks, tps, callback, req, ticks, masked,
                              periodic, initCount, curCount, pending, calls,
                              lastCall, fired>>

\* pit::set: OutOfRange above 0xffff (unwrap panics), else Control: speaker
\* off, gate of channel 2 on.
PitSet ==
  /\ pc = "pit_set"
  /\ IF PitCounter(DelayUs) > PitMax
       THEN pc' = "panic" /\ UNCHANGED pitGate
       ELSE pc' = "pit_mode" /\ pitGate' = TRUE
  /\ UNCHANGED <<pitOut, pitLsb, pitCount, pitCounting, pitElapsed>>
  /\ CalibUnchanged

\* Mode::new(LowAndHighByte, InterruptOnTerminalCount) on channel 2.
PitMode ==
  /\ pc = "pit_mode"
  /\ pc' = "pit_lo"
  /\ pitOut' = FALSE /\ pitLsb' = NoByte /\ pitCounting' = FALSE
  /\ UNCHANGED <<pitGate, pitCount, pitElapsed>>
  /\ CalibUnchanged

\* set_data(2, low byte), then set_data(2, high byte).
PitData(at, next, k) ==
  /\ pc = at
  /\ pc' = next
  /\ PitWriteData(DataBytes(PitCounter(DelayUs))[k])
  /\ UNCHANGED <<pitGate, pitOut>>
  /\ CalibUnchanged

\* wait_for_timeout: Control read; gate off is NotActive (unwrap panics),
\* OUT high is Ok, else spin.
PitWait ==
  /\ pc = "pit_wait"
  /\ IF ~pitGate THEN pc' = "panic"
     ELSE IF pitOut THEN pc' = "calib_wait"
     ELSE UNCHANGED pc
  /\ UNCHANGED pitVars
  /\ CalibUnchanged

\* One clock of channel 2 while its gate is on.
PitTick ==
  /\ pitGate /\ pitCounting /\ pitCount > 0
  /\ pitCount' = pitCount - 1
  /\ pitElapsed' = MinOf(pitElapsed + 1, PitMax)
  /\ pitOut' = (pitOut \/ pitCount = 1)
  /\ UNCHANGED <<pitGate, pitLsb, pitCounting>>
  /\ UNCHANGED <<pc>>
  /\ CalibUnchanged

-----------------------------------------------------------------------------
\* pit::delay(50_000) returns, the LVT is masked ("stop timer": the count
\* runs on), elapsed = 0xFFFF_FFFF - current count, ticks_per_second =
\* elapsed * 20, and NonZeroU64::new(..).expect panics on zero.
InitTimerMeasure ==
  /\ pc = "calib_wait"
  /\ LET elapsed == U32Max - curCount IN
       /\ pc' = IF elapsed = 0 THEN "panic" ELSE "idle"
       /\ tps' = elapsed * CalibrationFactor
  /\ masked' = TRUE
  /\ UNCHANGED <<overflowChecks, callback, req, ticks, periodic, initCount,
                 curCount, pending, calls, lastCall, fired>>
  /\ UNCHANGED pitVars

-----------------------------------------------------------------------------
(* start_timer(interval_us, periodic, interrupt) and stop_timer.          *)

\* ticks_per_second * interval_us as u64, then / 1_000_000: the product
\* wraps at 2^64 when the build has no overflow checks.
TicksInInterval(t, us) == ((t * us) % U64Mod) \div UsPerSecond

\* Mutant: the try_into::<u32>() check left out.
StartTimerStore_no_try_into(r) ==
  /\ pc = "idle" /\ calls < MaxCalls
  /\ callback' = r.cb
  /\ calls' = calls + 1
  /\ req' = r
  /\ fired' = FALSE
  /\ LET t == TicksInInterval(tps, r.us) IN
       IF overflowChecks /\ tps * r.us >= U64Mod
         THEN pc' = "panic" /\ UNCHANGED <<ticks, lastCall>>
       ELSE IF r.periodic /\ t = 0
         THEN pc' = "panic" /\ UNCHANGED <<ticks, lastCall>>
       ELSE /\ pc' = "mask" /\ ticks' = t /\ UNCHANGED lastCall
  /\ UNCHANGED <<overflowChecks, tps, masked, periodic, initCount, curCount,
                 pending>>
  /\ UNCHANGED pitVars

\* Mutant: the periodic check ass!(ticks_in_interval > 0) left out.
StartTimerStore_no_assert(r) ==
  /\ pc = "idle" /\ calls < MaxCalls
  /\ callback' = r.cb
  /\ calls' = calls + 1
  /\ req' = r
  /\ fired' = FALSE
  /\ LET t == TicksInInterval(tps, r.us) IN
       IF overflowChecks /\ tps * r.us >= U64Mod
         THEN pc' = "panic" /\ UNCHANGED <<ticks, lastCall>>
       ELSE IF t > U32Max
         THEN /\ pc' = "idle" /\ UNCHANGED ticks
              /\ lastCall' = [r |-> r, result |-> "err", count |-> 0]
       ELSE /\ pc' = "mask" /\ ticks' = t /\ UNCHANGED lastCall
  /\ UNCHANGED <<overflowChecks, tps, masked, periodic, initCount, curCount,
                 pending>>
  /\ UNCHANGED pitVars

\* apic.rs:88-94: the callback is stored first; ticks are computed; a
\* count that does not fit a u32 returns Err (with the callback already
\* replaced and the old timer still running); a periodic count of zero
\* fails the ass! and panics.
StartTimerStore(r) ==
  /\ pc = "idle" /\ calls < MaxCalls
  /\ callback' = r.cb
  /\ calls' = calls + 1
  /\ req' = r
  /\ fired' = FALSE
  /\ LET t == TicksInInterval(tps, r.us) IN
       IF overflowChecks /\ tps * r.us >= U64Mod
         THEN pc' = "panic" /\ UNCHANGED <<ticks, lastCall>>
       ELSE IF t > U32Max
         THEN /\ pc' = "idle" /\ UNCHANGED ticks
              /\ lastCall' = [r |-> r, result |-> "err", count |-> 0]
       ELSE IF r.periodic /\ t = 0
         THEN pc' = "panic" /\ UNCHANGED <<ticks, lastCall>>
       ELSE /\ pc' = "mask" /\ ticks' = t /\ UNCHANGED lastCall
  /\ UNCHANGED <<overflowChecks, tps, masked, periodic, initCount, curCount,
                 pending>>
  /\ UNCHANGED pitVars

\* apic.rs:96: LVT = 1 << 16, mask the timer.
StartTimerMask ==
  /\ pc = "mask"
  /\ pc' = "lvt"
  /\ masked' = TRUE
  /\ UNCHANGED <<overflowChecks, tps, callback, req, ticks, periodic,
                 initCount, curCount, pending, calls, lastCall,
                 fired>>
  /\ UNCHANGED pitVars

\* apic.rs:98-101: LVT = 32 | (periodic ? 0x20000 : 0x40000): vector 32,
\* unmasked, in the requested mode, while the old count still runs.
StartTimerLvt ==
  /\ pc = "lvt"
  /\ pc' = "count"
  /\ masked' = FALSE
  /\ periodic' = req.periodic
  /\ UNCHANGED <<overflowChecks, tps, callback, req, ticks, initCount,
                 curCount, pending, calls, lastCall, fired>>
  /\ UNCHANGED pitVars

\* apic.rs:102-104: divider 16 (unchanged since calibration), then the
\* initial count, which restarts the countdown (0 stops it); Ok(()).
StartTimerCount ==
  /\ pc = "count"
  /\ pc' = "idle"
  /\ initCount' = ticks /\ curCount' = ticks
  /\ lastCall' = [r |-> req, result |-> "ok", count |-> ticks]
  /\ fired' = FALSE
  /\ UNCHANGED <<overflowChecks, tps, callback, req, ticks, masked, periodic,
                 pending, calls>>
  /\ UNCHANGED pitVars

\* stop_timer: LVT = 1 << 16.
StopTimer ==
  /\ pc = "idle" /\ calls < MaxCalls
  /\ calls' = calls + 1
  /\ masked' = TRUE
  /\ lastCall' = [lastCall EXCEPT !.result = "stopped"]
  /\ UNCHANGED <<pc, overflowChecks, tps, callback, req, ticks, periodic,
                 initCount, curCount, pending, fired>>
  /\ UNCHANGED pitVars

-----------------------------------------------------------------------------
(* The timer hardware and the interrupt handler.                          *)

\* One tick of the countdown.  At zero an unmasked timer raises vector 32;
\* a periodic timer reloads the initial count, a one-shot timer stays at 0.
HwTick ==
  /\ curCount > 0
  /\ LET expired == curCount = 1 IN
       /\ curCount' = IF expired /\ periodic THEN initCount ELSE curCount - 1
       /\ pending' = (pending \/ (expired /\ ~masked))
  /\ UNCHANGED <<pc, overflowChecks, tps, callback, req, ticks, masked,
                 periodic, initCount, calls, lastCall, fired>>
  /\ UNCHANGED pitVars

\* interrupts.rs timer_interrupt: call get_cld().apic_timer_interrupt_function
\* if set, then end of interrupt.  Interrupts are off during Apic::init.
TimerInterrupt ==
  /\ pending
  /\ pc \notin {"boot", "panic"} \cup CalibPcs
  /\ pending' = FALSE
  /\ fired' = (fired \/ callback # NoCallback)
  /\ UNCHANGED <<pc, overflowChecks, tps, callback, req, ticks, masked,
                 periodic, initCount, curCount, calls, lastCall>>
  /\ UNCHANGED pitVars

Next ==
  \/ ApicInit \/ InitTimerMeasure
  \/ PitSet \/ PitMode \/ PitData("pit_lo", "pit_hi", 1)
  \/ PitData("pit_hi", "pit_wait", 2) \/ PitWait \/ PitTick
  \/ \E r \in Requests : StartTimerStore(r)
  \/ StartTimerMask \/ StartTimerLvt \/ StartTimerCount \/ StopTimer
  \/ HwTick \/ TimerInterrupt

\* The core runs its driver code, the timer clock runs, and a raised vector
\* is delivered once interrupts are on: weak fairness for each.  Calls of
\* start_timer and stop_timer are up to the caller and are not fair.
Fairness ==
  /\ WF_vars(ApicInit) /\ WF_vars(InitTimerMeasure)
  /\ WF_vars(PitSet) /\ WF_vars(PitMode) /\ WF_vars(PitData("pit_lo", "pit_hi", 1))
  /\ WF_vars(PitData("pit_hi", "pit_wait", 2)) /\ WF_vars(PitWait)
  /\ WF_vars(PitTick)
  /\ WF_vars(StartTimerMask) /\ WF_vars(StartTimerLvt)
  /\ WF_vars(StartTimerCount)
  /\ WF_vars(HwTick) /\ WF_vars(TimerInterrupt)

Spec == Init /\ [][Next]_vars /\ Fairness

-----------------------------------------------------------------------------
(* Properties.                                                             *)

\* init_timer measures over the window it asked for: when
\* wait_for_timeout returns Ok, channel 2 has counted, since the count
\* pit::set wrote was loaded, exactly BASE_FREQUENCY * 50_000 / 1_000_000
\* ticks, whatever state the firmware left it in.  The factor 20 of
\* apic.rs:77 is only right if it did.
CalibrationWindowExact ==
  pc = "calib_wait" => pitElapsed = PitCounter(DelayUs)

\* A periodic timer that start_timer accepted keeps calling its callback:
\* after the call returns Ok, the callback runs, unless the core panicked or
\* a later start_timer or stop_timer replaced the timer.  The ass! on a zero
\* periodic count (apic.rs:93) is what stops an accepted timer that never
\* fires.
PeriodicKeepsFiring ==
  \A n \in 1..MaxCalls :
    (pc = "idle" /\ calls = n /\ lastCall.result = "ok" /\ lastCall.r.periodic)
      ~> (fired \/ calls # n)

=============================================================================
