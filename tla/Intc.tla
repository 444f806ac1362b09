-------------------------------- MODULE Intc --------------------------------
(***************************************************************************)
(* The firmware's interrupts: the manager (ar100s/driver/intc/             *)
(* intc_manager.c) over the E902's CLIC (clic.c), the wakeup mask and the  *)
(* trap entry (ar100s/arch/riscv/cpu/e907/e907_com.c), the table between   *)
(* the CLIC's lines and CPU0's numbers (irq_table.h), and the NMI of the   *)
(* power chip (ar100s/driver/pmu/pmu-sun60iw2p1/pmu.c).                    *)
(*                                                                         *)
(* The state is one record:                                                *)
(*   ie    lines whose CLICINTIE bit is set (enable and mask are that bit) *)
(*   isr   isr_table, line to handler                                      *)
(*   wake  lines set in E902_WAKEUP_MASK0/1                                *)
(*   grp   groups configured                                               *)
(*   mie   mstatus.MIE                                                     *)
(*   nmi   the NMI is enabled                                              *)
(* The reset value of a line's register makes it level triggered: its      *)
(* pending bit is its level and a write leaves it alone.                   *)
(***************************************************************************)
EXTENDS Integers, Sequences, FiniteSets

OK     == 0
FAIL   == -1
EINVAL == -22
EFAIL  == -36

IRQ_SOUCE_MAX == 35
CLIC_IRQ_MAX  == 80

\* The rows of irq_table: a line and CPU0's interrupt number (a GIC number less 32).
INTC_R_USB_IRQ  == 16
INTC_R_ALM0_IRQ == 24

GIC_SRC_SPI == 32

irq_table ==
  << <<INTC_R_USB_IRQ, 189>>, <<INTC_R_USB_IRQ, 190>>, <<INTC_R_USB_IRQ, 191>>,
     <<INTC_R_USB_IRQ, 192>>, <<INTC_R_ALM0_IRQ, 228>>, <<25, 229>>, <<26, 230>>,
     <<27, 231>>, <<28, 232>>, <<34, 238>> >>

grp_irq_table == << <<0, 0>> >>

\* The first row of table with key in column from, read in column to.
FirstRow(table, from, key, to) ==
  LET hits == {i \in DOMAIN table : table[i][from] = key}
  IN  IF hits = {} THEN FAIL ELSE table[CHOOSE i \in hits : \A j \in hits : i <= j][to]

CPUS_IRQ_MAPTO_CPUX(line) ==
  LET n == FirstRow(irq_table, 1, line, 2) IN IF n = FAIL THEN FAIL ELSE n - GIC_SRC_SPI

CPUX_IRQ_MAPTO_CPUS(irq) == FirstRow(irq_table, 2, irq + GIC_SRC_SPI, 1)

CPUX_IRQ_MAPTO_CPUS_GRP(irq) == FirstRow(grp_irq_table, 1, irq + GIC_SRC_SPI, 2)

-----------------------------------------------------------------------------
(* The controller. *)

\* isr_default only prints: a level that stays up is taken again and again.
isr_default == "isr_default"

\* mutant: only the lines the firmware has a handler slot for are reset.
IntcInitTable(q, count) ==
  IF count \in IRQ_SOUCE_MAX..CLIC_IRQ_MAX
  THEN [q EXCEPT !.ie = {l \in @ : l >= IRQ_SOUCE_MAX}]
  ELSE q

\* intc_init: a warm reset need not have reset the CLIC, so every implemented
\* line is; a count the firmware cannot use leaves everything as it was.
intc_init(q, count) ==
  IF count \in IRQ_SOUCE_MAX..CLIC_IRQ_MAX
  THEN [q EXCEPT !.ie = {l \in @ : l >= count}]
  ELSE q

interrupt_init(q, count) ==
  IF count \in IRQ_SOUCE_MAX..CLIC_IRQ_MAX
  THEN [intc_init(q, count) EXCEPT !.isr = [l \in DOMAIN @ |-> isr_default]]
  ELSE q

interrupt_init_result(count) ==
  IF count \in IRQ_SOUCE_MAX..CLIC_IRQ_MAX THEN OK ELSE EINVAL

interrupt_enable(q, l)  == [q EXCEPT !.ie = @ \cup {l}]
interrupt_disable(q, l) == [q EXCEPT !.ie = @ \ {l}]

interrupt_set_mask(q, l, mask) ==
  IF mask THEN interrupt_disable(q, l) ELSE interrupt_enable(q, l)

interrupt_get_enabled(q, l) == l \in q.ie

\* The pending bit is the level: read it, and write it in vain.
interrupt_query_pending(raised, l)   == l \in raised
interrupt_clear_pending(raised, l)   == raised

interrupt_set_group_config(q, g, on) ==
  [q EXCEPT !.grp = IF on THEN @ \cup {g} ELSE @ \ {g}]

install_isr(q, l, handler) == [q EXCEPT !.isr[l] = handler]

\* Only the handler that is installed can be uninstalled.
uninstall_isr(q, l, handler) ==
  IF q.isr[l] = handler THEN [q EXCEPT !.isr[l] = isr_default] ELSE q

\* One bit per line over two registers, shifted from 16 and from 48 (the test
\* between them is off by one, for line 47 only, which irq_table does not have).
interrput_arch_set_mask(q, l, on) ==
  [q EXCEPT !.wake = IF on THEN @ \cup {l} ELSE @ \ {l}]

-----------------------------------------------------------------------------
(* The processor. *)

cpu_enable_global_int(q) == [q EXCEPT !.mie = TRUE]

nmi_int_enable(q)  == [q EXCEPT !.nmi = TRUE]
nmi_int_disable(q) == [q EXCEPT !.nmi = FALSE]

\* What hadle_trap is entered for: an interrupt that is pending, enabled and
\* not held off, or the NMI, which mstatus.MIE does not hold off.
TakesInterrupt(q, raised, l) == q.mie /\ interrupt_query_pending(raised, l) /\ interrupt_get_enabled(q, l)
TakesNmi(q, level)           == q.nmi /\ level
=============================================================================
