-------------------------------- MODULE Uart --------------------------------
(***************************************************************************)
(* The firmware's UART (ar100s/driver/uart/uart.c): its baud rate against  *)
(* the clock that feeds it, with the transmitter running beside the code.  *)
(*                                                                         *)
(* A character is modelled by what becomes of it; the receiver has no user *)
(* in this build (CFG_SHELL_USED is not set).  A poll loop gives up after  *)
(* UART_POLL_LIMIT reads: at a low rate that is less than the time of a    *)
(* full FIFO, so it may give up whenever what it waits for is not there.   *)
(***************************************************************************)
EXTENDS Prcm, Devices

CONSTANTS
  MaxWord,       \* 0xffffffff, in the units of the rates
  DivMax,        \* largest divisor, 0xffff
  FifoDepth,     \* characters the transmit FIFO holds
  DefaultRate    \* UART_BAUDRATE

ASSUME UartAssumption == {MaxWord, DivMax, FifoDepth, DefaultRate} \subseteq Nat \ {0}

VARIABLES
  prcm,          \* clock registers, see Prcm
  pins,          \* pin registers, see Devices
  used,          \* ~uart_pin_not_used
  lock,          \* uart_lock
  rate,          \* uart_rate
  dl, act,       \* divisor latch, divisor in effect
  halt,          \* bits of UART_REG_HALT: "chg" (0x2), "upd" (0x4)
  fifo,          \* transmit FIFO: characters of a "line", or of the driver's "own"
  up, arg,       \* where the code is, the rate it is setting
  res,           \* what the last call returned
  failed         \* ghost: calls that failed since the last change that worked

uart == <<pins, used, lock, rate, dl, act, halt, fifo, up, arg, res, failed>>

OK == 0
EACCES == -13
EINVAL == -22
ETIMEOUT == -35
ESRCH == -3

\* R_UART is fed by APBS2
Freq == ccu_get_sclk_freq(prcm, "APBS2")

\* mutant: not rounded
uart_divisor_down(freq, r) ==
  IF freq = 0 \/ r = 0 \/ r > freq \/ r > MaxWord \div 16 THEN 0
  ELSE LET d == r * 16
       IN  IF freq > MaxWord - d \div 2 \/ freq \div d > DivMax THEN 0 ELSE freq \div d

\* the divisor, or 0 where uart_divisor refuses
uart_divisor(freq, r) ==
  IF freq = 0 \/ r = 0 \/ r > freq \/ r > MaxWord \div 16 THEN 0
  ELSE LET d == r * 16
           q == (freq + d \div 2) \div d
       IN  IF freq > MaxWord - d \div 2 \/ q > DivMax THEN 0 ELSE q

UartInit ==
  /\ pins = PinsReset /\ used = FALSE /\ lock = TRUE /\ rate = 0
  /\ dl = 0 /\ act = 0 /\ halt = {} /\ fifo = <<>>
  /\ up = "idle" /\ arg = 0 /\ res = OK /\ failed = {}

\* back in the caller; the rate was an argument
Return(r) == up' = "idle" /\ res' = r /\ arg' = 0

-----------------------------------------------------------------------------
\* uart_init: pins, reset, clock, divisor; then the FIFOs are reset and the
\* UART unlocked
InitUart ==
  /\ rate' = DefaultRate /\ used' = TRUE
  /\ pins' = pin_set_multi_sel(pin_set_multi_sel(pins, "PL2", 3), "PL3", 3)
  /\ prcm' = ccu_set_mclk_onoff(ccu_set_mclk_reset(prcm, "R_UART", TRUE), "R_UART", TRUE)
  /\ LET d == uart_divisor(Freq, DefaultRate)
     IN  IF d = 0
         THEN Return(EINVAL) /\ UNCHANGED <<lock, dl, act, halt, fifo>>
         ELSE /\ dl' = d /\ act' = d /\ halt' = {} /\ fifo' = <<>>
              /\ lock' = FALSE /\ Return(OK)
  /\ UNCHANGED failed

\* refused when locked; a full FIFO is waited for, and given up
uart_putc ==
  \/ (lock \/ ~used) /\ UNCHANGED fifo
  \/ ~lock /\ used /\ fifo' = IF Len(fifo) < FifoDepth THEN Append(fifo, "line") ELSE fifo

\* uart_puts of debugger_printf, one character of it; nobody looks at what it
\* returns
Puts ==
  /\ up = "idle" /\ uart_putc
  /\ UNCHANGED <<prcm, pins, used, lock, rate, dl, act, halt, up, arg, res, failed>>

-----------------------------------------------------------------------------
(* uart_set_baudrate *)

SetBaudrate(r, back) ==
  /\ IF ~used THEN Return(EACCES) ELSE up' = back /\ arg' = r /\ UNCHANGED res
  /\ UNCHANGED <<prcm, pins, used, lock, rate, dl, act, halt, fifo, failed>>

Fails(where, r) ==
  /\ Return(r) /\ failed' = failed \cup {where}
  /\ UNCHANGED <<prcm, pins, used, lock, rate, dl, act, halt, fifo>>

\* the FIFO runs empty and the rate is possible: the change is announced ...
BaudDrained(loud) ==
  /\ up \in {"baud", "done"} /\ fifo = <<>>
  /\ uart_divisor(Freq, arg) # 0
  /\ fifo' = IF loud /\ ~lock THEN <<"own">> ELSE fifo
  /\ up' = IF up = "baud" THEN "baud2" ELSE "done2"
  /\ UNCHANGED <<prcm, pins, used, lock, rate, dl, act, halt, arg, res, failed>>

BaudRefused ==
  /\ up \in {"baud", "done"} /\ fifo = <<>> /\ uart_divisor(Freq, arg) = 0
  /\ Fails(up, EINVAL)

BaudBusy == up \in {"baud", "done"} /\ fifo # <<>> /\ Fails(up, ETIMEOUT)

\* ... the latch written with "change when busy" set, and the update started
BaudLatch ==
  /\ up \in {"baud2", "done2"}
  /\ dl' = uart_divisor(Freq, arg) /\ halt' = {"chg", "upd"}
  /\ up' = IF up = "baud2" THEN "baud3" ELSE "done3"
  /\ UNCHANGED <<prcm, pins, used, lock, rate, act, fifo, arg, res, failed>>

\* mutant: the rate is not recorded
BaudUpdatedForgets ==
  /\ up \in {"baud3", "done3"} /\ "upd" \notin halt
  /\ halt' = {"upd"} /\ failed' = {}
  /\ lock' = IF up = "done3" THEN FALSE ELSE lock
  /\ Return(OK)
  /\ UNCHANGED <<prcm, pins, used, rate, dl, act, fifo>>

\* the update is done: it is started once more, "change when busy" ends, and
\* the rate is recorded; uart_clkchangecb then unlocks
BaudUpdated ==
  /\ up \in {"baud3", "done3"} /\ "upd" \notin halt
  /\ halt' = {"upd"} /\ rate' = arg /\ failed' = {}
  /\ lock' = IF up = "done3" THEN FALSE ELSE lock
  /\ Return(OK)
  /\ UNCHANGED <<prcm, pins, used, dl, act, fifo>>

\* the update takes too long: only the line control register is restored
BaudStalled == up \in {"baud3", "done3"} /\ "upd" \in halt /\ Fails(up, ETIMEOUT)

-----------------------------------------------------------------------------
(* uart_clkchangecb *)

\* CCU_CLK_CLKCHG_REQ, announced
ClkReq(loud) ==
  /\ IF ~used THEN Return(EACCES) /\ UNCHANGED fifo
     ELSE /\ up' = "req" /\ UNCHANGED <<res, arg>>
          /\ \/ loud /\ ~lock /\ Len(fifo) < FifoDepth /\ fifo' = Append(fifo, "line")
             \/ (loud => lock \/ Len(fifo) = FifoDepth) /\ UNCHANGED fifo
  /\ UNCHANGED <<prcm, pins, used, lock, rate, dl, act, halt, failed>>

\* the FIFO is empty (the shift register need not be): locked
ClkReqDrained ==
  /\ up = "req" /\ fifo = <<>> /\ lock' = TRUE /\ Return(OK)
  /\ UNCHANGED <<prcm, pins, used, rate, dl, act, halt, fifo, failed>>

\* it does not run empty in time: not locked
ClkReqBusy == up = "req" /\ fifo # <<>> /\ Fails("req", ETIMEOUT)

\* CCU_CLK_CLKCHG_DONE: the rate once more, for the new clock
ClkDone == SetBaudrate(rate, "done")

-----------------------------------------------------------------------------
(* The transmitter *)

\* the next character goes out, at the divisor in effect
Shift ==
  /\ fifo # <<>> /\ fifo' = Tail(fifo)
  /\ UNCHANGED <<prcm, pins, used, lock, rate, dl, act, halt, up, arg, res, failed>>

\* the divisor of the latch takes effect
Update ==
  /\ "upd" \in halt /\ halt' = halt \ {"upd"} /\ act' = dl
  /\ UNCHANGED <<prcm, pins, used, lock, rate, dl, fifo, up, arg, res, failed>>

UartStep(loud) ==
  \/ BaudDrained(loud)
  \/ BaudRefused \/ BaudBusy \/ BaudLatch \/ BaudUpdated \/ BaudStalled
  \/ ClkReqDrained \/ ClkReqBusy \/ Shift \/ Update
=============================================================================
