------------------------------ MODULE MCWakeup ------------------------------
(* The two interrupts of a USB port, which share a line, the RTC alarm and a   *)
(* number irq_table does not have; a line beyond isr_table that only a warm     *)
(* reset can leave enabled; a CLIC that reports too few lines, or all.          *)
EXTENDS Wakeup

MCSrc    == {157, 158, 196, 5}
MCLine   == {16, 24, 40}
MCCounts == {34, 80}
MCTimes  == {9, 10, 25, 330}
=============================================================================
