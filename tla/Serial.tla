------------------------------- MODULE Serial -------------------------------
(***************************************************************************)
(* serial.rs: the COM1 UART (an 8250/16550 with its FIFO off, as after     *)
(* reset: init never writes the FIFO control register) as the driver sees  *)
(* it through its registers, and the driver's register accesses.  The      *)
(* module has no variables: a component that uses the port keeps the       *)
(* register file and the receiver as values and applies these operators.   *)
(*                                                                         *)
(* Register file: dll/dlm (divisor latch), ier, lcr, mcr as byte values.   *)
(* Receiver: rbr is the character in the receive buffer register, named by *)
(* its position in the line's input history (data values are abstracted    *)
(* to that identity), dr is LSR.DATA_READY and errs the latched LSR error  *)
(* bits OVERRUN_ERROR, PARITY_ERROR and FRAMING_ERROR.                     *)
(***************************************************************************)
EXTENDS Naturals

LOCAL SE == INSTANCE SequencesExt

\* mod ri: register offsets from the COM base port.
RECEIVE_BUFFER_REGISTER   == 0
DIVISOR_LOW_REGISTER      == 0
INTERRUPT_ENABLE_REGISTER == 1
DIVISOR_HIGH_REGISTER     == 1
LINE_CONTROL_REGISTER     == 3
MODEM_CONTROL_REGISTER    == 4

\* BaudRate::BAUD_115200, the divisor SERIAL's initialiser passes.
BAUD_115200 == 1

\* RegisterMask::DIVISOR_LATCH_ACCESS_BIT of the line control register.
DLAB(regs) == (regs.lcr \div 128) % 2 = 1

Divisor(regs) == regs.dlm * 256 + regs.dll

\* A write of `value` at `index` (wr).  With DLAB set, offsets 0 and 1 are
\* the divisor latch; with it clear, offset 1 is IER and offset 0 sends a
\* character (not a register).
WriteRegister(regs, w) ==
  LET index == w[1]
      value == w[2]
  IN  CASE index = DIVISOR_LOW_REGISTER /\ DLAB(regs)  -> [regs EXCEPT !.dll = value]
        [] index = DIVISOR_HIGH_REGISTER /\ DLAB(regs) -> [regs EXCEPT !.dlm = value]
        [] index = INTERRUPT_ENABLE_REGISTER           -> [regs EXCEPT !.ier = value]
        [] index = LINE_CONTROL_REGISTER               -> [regs EXCEPT !.lcr = value]
        [] index = MODEM_CONTROL_REGISTER              -> [regs EXCEPT !.mcr = value]
        [] OTHER                                       -> regs

\* Mutant: disable interrupts before DLAB is cleared.
InitWrites_ier_first(baud) ==
  << <<LINE_CONTROL_REGISTER, 128>>,
     <<DIVISOR_LOW_REGISTER, baud % 256>>,
     <<DIVISOR_HIGH_REGISTER, (baud \div 256) % 256>>,
     <<INTERRUPT_ENABLE_REGISTER, 0>>,
     <<LINE_CONTROL_REGISTER, 3>>,
     <<MODEM_CONTROL_REGISTER, 0>> >>

\* init(com, baud): DLAB on, the divisor's two bytes, 8N1 with DLAB off,
\* interrupts off, loopback off; in this order.
InitWrites(baud) ==
  << <<LINE_CONTROL_REGISTER, 128>>,
     <<DIVISOR_LOW_REGISTER, baud % 256>>,
     <<DIVISOR_HIGH_REGISTER, (baud \div 256) % 256>>,
     <<LINE_CONTROL_REGISTER, 3>>,
     <<INTERRUPT_ENABLE_REGISTER, 0>>,
     <<MODEM_CONTROL_REGISTER, 0>> >>

SerialInit(regs, baud) == SE!FoldLeft(WriteRegister, regs, InitWrites(baud))

\* The register file as the kernel may find it: the 8250's reset values
\* (divisor latch undefined), as a firmware driver leaves it (38400 baud,
\* receive interrupts and OUT2 on), and left with DLAB still set.
BootRegs ==
  { [dll |-> 0, dlm |-> 0, ier |-> 0, lcr |-> 0,   mcr |-> 0],
    [dll |-> 3, dlm |-> 0, ier |-> 1, lcr |-> 3,   mcr |-> 11],
    [dll |-> 1, dlm |-> 1, ier |-> 1, lcr |-> 131, mcr |-> 0] }

-----------------------------------------------------------------------------
(* Receiver.                                                               *)

NoChar == 0

IdleReceiver == [rbr |-> NoChar, dr |-> FALSE, errs |-> {}]

LineErrors == {"parity", "framing"}

\* The line delivers character k, with a parity or framing error or none.
\* With the FIFO off it replaces the unread one (OVERRUN_ERROR).
Receive(rx, k, err) ==
  [rbr  |-> k,
   dr   |-> TRUE,
   errs |-> rx.errs \cup (IF rx.dr THEN {"overrun"} ELSE {})
                    \cup (IF err \in LineErrors THEN {err} ELSE {})]

\* Mutant: DATA_READY is tested before the error bits.
TryReadStatus_ready_first(rx) ==
  CASE rx.dr                  -> "Ready"
    [] "overrun" \in rx.errs  -> "OverrunError"
    [] "parity" \in rx.errs   -> "ParityError"
    [] "framing" \in rx.errs  -> "FramingError"
    [] OTHER                  -> "Busy"

\* ReadPort::try_read's decision on the line status register it read.
TryReadStatus(rx) ==
  CASE "overrun" \in rx.errs  -> "OverrunError"
    [] "parity" \in rx.errs   -> "ParityError"
    [] "framing" \in rx.errs  -> "FramingError"
    [] rx.dr                  -> "Ready"
    [] OTHER                  -> "Busy"

\* Reading LSR clears its latched error bits.
AfterStatusRead(rx) == [rx EXCEPT !.errs = {}]

\* Reading RBR takes the character and clears DATA_READY.
AfterDataRead(rx) == [rx EXCEPT !.dr = FALSE]
=============================================================================
