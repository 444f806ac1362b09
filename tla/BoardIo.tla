------------------------------ MODULE BoardIo -------------------------------
(***************************************************************************)
(* boot0's pins and first UART (platform_shims.c, early_uart.c).  The      *)
(* layout of the pin registers is written down three times in the code,    *)
(* for the general setter, for the early UART and for the card's pins.  A  *)
(* bank of registers is the set of its bits that are 1, a bit a pair of    *)
(* the register's address and the bit's number.                            *)
(***************************************************************************)
EXTENDS Integers, Sequences

LOCAL INSTANCE SequencesExt

R_PIO == 65536           \* the second controller is somewhere else

Bits(reg, from, n) == {<<reg, from + i>> : i \in 0 .. n - 1}
BitsOf(reg, from, n, v) == {<<reg, from + i>> : i \in {j \in 0 .. n - 1 : (v \div 2^j) % 2 = 1}}

\* val &= ~mask; val |= v << from
Put(regs, reg, from, n, v) == (regs \ Bits(reg, from, n)) \cup BitsOf(reg, from, n, v)

\* the registers of a pin
a7s_gpio_registers(port, pin) ==
  IF port < 12
  THEN LET bank == (port - 1) * 128
       IN  [cfg |-> bank + 128 + (pin \div 8) * 4, pull |-> bank + 176 + (pin \div 16) * 4,
            drv |-> bank + 160 + (pin \div 8) * 4, data |-> bank + 144]
  ELSE LET bank == R_PIO + (port - 12) * 48
       IN  [cfg |-> bank + (pin \div 8) * 4, pull |-> bank + 36 + (pin \div 16) * 4,
            drv |-> bank + 20 + (pin \div 8) * 4, data |-> bank + 16]

\* One pin: function, then pull, drive and level where they are given (-1: not).
SetPin(regs, g, set) ==
  LET at   == a7s_gpio_registers(g.port, g.pin)
      cfg  == Put(regs, at.cfg, (g.pin % 8) * 4, 4, IF set THEN g.mux % 16 ELSE 0)
      pull == IF g.pull < 0 THEN cfg ELSE Put(cfg, at.pull, (g.pin % 16) * 2, 2, g.pull % 4)
      drv  == IF g.drv < 0 THEN pull ELSE Put(pull, at.drv, (g.pin % 8) * 4, 2, g.drv % 4)
  IN  IF g.mux = 1 /\ g.data >= 0 THEN Put(drv, at.data, g.pin, 1, g.data % 2) ELSE drv

\* a7s_boot_set_gpio_v3: entries of port 0 are skipped.
boot_set_gpio(regs, list, set) ==
  FoldLeft(LAMBDA acc, g : IF g.port = 0 THEN acc ELSE SetPin(acc, g, set), regs, list)

\* The early UART's own setters count banks from 0.
a7s_gpio_set_cfg(regs, bank, pin, v)  == Put(regs, bank * 128 + 128 + (pin \div 8) * 4, (pin % 8) * 4, 4, v)
a7s_gpio_set_pull(regs, bank, pin, v) == Put(regs, bank * 128 + 176 + (pin \div 16) * 4, (pin % 16) * 2, 2, v)
a7s_gpio_set_drv(regs, bank, pin, v)  == Put(regs, bank * 128 + 160 + (pin \div 8) * 4, (pin % 8) * 4, 2, v)

\* SDC0 on PF0 .. PF5: function 2, drive 1 and 2 on the clock, pull-ups.
a7s_mmc0_config_pins(regs) ==
  LET cfg == (regs \ Bits(768, 0, 24)) \cup {<<768, 4 * i + 1>> : i \in 0 .. 5}
      drv == (cfg \ Bits(800, 0, 24)) \cup {<<800, IF i = 2 THEN 9 ELSE 4 * i>> : i \in 0 .. 5}
  IN  (drv \ Bits(816, 0, 12)) \cup {<<816, 2 * i>> : i \in 0 .. 5}

-----------------------------------------------------------------------------
(* UART0: [reset, gate, dlab, dll, dlh, ier, fifo, sent].  The divisor's      *)
(* halves share their addresses with the data and interrupt registers.       *)

\* The reset clears the UART, clocked or not.
Bgr(u, reset, gate) ==
  IF reset
  THEN [reset |-> TRUE, gate |-> gate, dlab |-> FALSE, dll |-> 0, dlh |-> 0, ier |-> 0,
        fifo |-> FALSE, sent |-> u.sent]
  ELSE [u EXCEPT !.reset = FALSE, !.gate = gate]

\* A write to the UART, which takes it only clocked and out of reset.
UartWrite(u, addr, v) ==
  IF u.reset \/ ~u.gate THEN u
  ELSE CASE addr = 0 /\ u.dlab  -> [u EXCEPT !.dll = v]
         [] addr = 0 /\ ~u.dlab -> [u EXCEPT !.sent = Append(@, v)]
         [] addr = 4 /\ u.dlab  -> [u EXCEPT !.dlh = v]
         [] addr = 4 /\ ~u.dlab -> [u EXCEPT !.ier = v]
         [] addr = 8            -> [u EXCEPT !.fifo = (v % 2 = 1)]
         [] addr = 12           -> [u EXCEPT !.dlab = (v >= 128)]

\* a7s_uart0_clock_init: into reset and out, then the gate closed and open.
a7s_uart0_clock_init(u) ==
  Bgr(Bgr(Bgr(Bgr(u, TRUE, u.gate), FALSE, u.gate), FALSE, FALSE), FALSE, TRUE)

\* a7s_early_uart_init, behind the pins.
a7s_early_uart_init(u) ==
  FoldLeft(LAMBDA acc, w : UartWrite(acc, w[1], w[2]), a7s_uart0_clock_init(u),
           << <<4, 0>>, <<12, 128>>, <<0, 13>>, <<4, 0>>, <<12, 3>>, <<8, 7>> >>)

\* a7s_early_uart_putc: the character is written also when the transmitter
\* never had room for it.
a7s_early_uart_putc(u, c) == UartWrite(u, 0, c)

\* a7s_early_uart_puts: a line feed gets a carriage return, unless it has one.
a7s_early_uart_puts(u, s) ==
  FoldLeft(LAMBDA acc, c :
             LET cr == IF c = 10 /\ acc.prev # 13 THEN a7s_early_uart_putc(acc.uart, 13) ELSE acc.uart
             IN  [uart |-> a7s_early_uart_putc(cr, c), prev |-> c],
           [uart |-> u, prev |-> 0], s).uart

=============================================================================
