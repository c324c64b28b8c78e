----------------------------- MODULE MCApicTimer -----------------------------
(* A 3-bit u32 and a 6-bit u64.  UsPerSecond = 5 keeps the code's shape:  *)
(* below 2^Width32, so a wrapped u64 product can still divide down to a   *)
(* u32, and the calibrated rate (elapsed * 20) reaches past 2^Width32, so *)
(* the product can overflow as it can with a u64.  Two callbacks tell the *)
(* timer_test callback and the frame callback of common_main.rs apart.    *)
(* The PIT's bytes are 2 bits wide, and pit::delay(50_000) loads 13.       *)
EXTENDS ApicTimer

MCCallbacks == {"timer_interrupt", "int"}
====
