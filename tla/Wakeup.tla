------------------------------- MODULE Wakeup -------------------------------
(***************************************************************************)
(* Wakeup sources of the AR100S firmware                                   *)
(* (ar100s/service/standby/wakeup_source.c, the soft timer of              *)
(* ar100s/arch/riscv/cpu/e907/time_ticks.c) over the interrupts of module  *)
(* Intc: the firmware starts over whatever a warm reset left in the CLIC,  *)
(* CPU0 arms and clears interrupt and timer sources by messages, an        *)
(* interrupt, the NMI or the timer may come between any two statements,    *)
(* and wait_wakeup dozes until one of them has set wakeup_source.          *)
(*                                                                         *)
(* The rest of the standby transaction is module Standby; here it is the   *)
(* few steps that concern wakeups.  The tick is taken to run while the     *)
(* firmware dozes (TickRuns of Standby says when it does).                 *)
(***************************************************************************)
EXTENDS Intc

CONSTANTS
  Src,           \* interrupt numbers of CPU0 that messages name
  Line,          \* lines of the CLIC that devices drive
  Counts,        \* what CLIC_INFO may report as implemented
  Rate, Base,    \* ticks per Base milliseconds (TICK_PER_SEC per 1000)
  Word,          \* modulus of the 32-bit product in msec_to_ticks
  Times,         \* wakeup times CPU0 asks for, in milliseconds
  MaxOps,        \* bound: messages of a behaviour
  MaxEvents      \* bound: hardware events of a behaviour

ASSUME WakeupAssumption ==
  /\ Src \subseteq Nat /\ Line \subseteq 0..(CLIC_IRQ_MAX - 1) /\ Counts \subseteq Nat
  /\ \A c \in Counts, l \in Line : l < c \/ c < IRQ_SOUCE_MAX
  /\ \A s \in Src : CPUX_IRQ_MAPTO_CPUS(s) \in Line \cup {FAIL}
  /\ Rate \in Nat \ {0} /\ Base \in Nat \ {0} /\ Word \in Nat \ {0}
  /\ Times \subseteq Nat /\ MaxOps \in Nat /\ MaxEvents \in Nat

\* NO_WAKESOURCE, WAKESOURE_TIMER (0x3 << 30 as a signed word), the NMI's number.
No    == 0
Timer == -1073741824
Nmi   == 220 - GIC_SRC_SPI

default_wakeup_handler == "default_wakeup_handler"

Slot == {l \in Line : l < IRQ_SOUCE_MAX}      \* the lines isr_table has a slot for

VARIABLES
  pc,             \* where the firmware's process context is
  arg,            \* the source the message being processed names
  irq,            \* the interrupts, a record of module Intc
  raised,         \* lines whose level is up
  pmic,           \* the power chip holds the NMI
  cycle, expires, start,      \* wakeup_timer
  wakeup_source,
  told,           \* the reason CPU0 was last given
  armed,          \* sources CPU0 was told are armed, and did not clear
  fired,          \* those of them that fired since
  happened,       \* what really happened in this standby
  ops, events

vars == <<pc, arg, irq, raised, pmic, cycle, expires, start, wakeup_source, told, armed,
          fired, happened, ops, events>>

levels == <<raised, pmic>>
timer  == <<cycle, expires, start>>
hist   == <<armed, fired, happened>>

\* Out of reset the firmware's memory is clear and the CLIC as the last run left
\* it.  (So is the wakeup mask; nothing reads it, and it is taken to be clear.)
Init ==
  /\ pc = "reset" /\ arg = 0 /\ raised = {} /\ pmic = FALSE
  /\ \E stale \in SUBSET Line :
       irq = [ie |-> stale, isr |-> [l \in Slot |-> isr_default], wake |-> {}, grp |-> {},
              mie |-> FALSE, nmi |-> FALSE]
  /\ cycle = 0 /\ expires = 0 /\ start = FALSE
  /\ wakeup_source = No /\ told = No
  /\ armed = {} /\ fired = {} /\ happened = {}
  /\ ops = 0 /\ events = 0

Step(from, to) == pc = from /\ pc' = to

-----------------------------------------------------------------------------
(* Startup. *)

\* interrupt_init: cpu0 returns from it with interrupts off, or for good.
InterruptInit ==
  /\ \E c \in Counts :
       /\ Step("reset", IF interrupt_init_result(c) = OK THEN "global" ELSE "returned")
       /\ irq' = interrupt_init(irq, c)
  /\ UNCHANGED <<arg, levels, timer, wakeup_source, told, hist, ops, events>>

EnableGlobal ==
  /\ Step("global", "init") /\ irq' = cpu_enable_global_int(irq)
  /\ UNCHANGED <<arg, levels, timer, wakeup_source, told, hist, ops, events>>

\* wakeup_timer_init: the timer is off and has its slot of the tick's.
wakeup_timer_init ==
  /\ Step("init", "idle") /\ cycle' = 0 /\ expires' = 0 /\ start' = FALSE
  /\ UNCHANGED <<arg, irq, levels, wakeup_source, told, hist, ops, events>>

-----------------------------------------------------------------------------
(* Interrupts.  A handler runs to its end, and ends a doze. *)

Awake == pc' = IF pc = "doze" THEN "check" ELSE pc

Raise(l) ==
  /\ events < MaxEvents /\ l \notin raised
  /\ raised' = raised \cup {l} /\ events' = events + 1
  /\ UNCHANGED <<pc, arg, irq, pmic, timer, wakeup_source, told, hist, ops>>

RaiseNmi ==
  /\ events < MaxEvents /\ ~pmic /\ pmic' = TRUE /\ events' = events + 1
  /\ UNCHANGED <<pc, arg, irq, raised, timer, wakeup_source, told, hist, ops>>

\* Linux serves the device, or the power chip.
Served(l) ==
  /\ pc = "idle" /\ l \in raised /\ raised' = raised \ {l}
  /\ UNCHANGED <<pc, arg, irq, pmic, timer, wakeup_source, told, hist, ops, events>>

ServedNmi ==
  /\ pc = "idle" /\ pmic /\ pmic' = FALSE
  /\ UNCHANGED <<pc, arg, irq, raised, timer, wakeup_source, told, hist, ops, events>>

\* interrupt_entry with default_wakeup_handler: mask the line, record CPU0's
\* number for it.
Handler(l) ==
  /\ TakesInterrupt(irq, raised, l) /\ irq.isr[l] = default_wakeup_handler
  /\ Awake
  /\ irq' = interrupt_set_mask(irq, l, TRUE)
  /\ wakeup_source' = CPUS_IRQ_MAPTO_CPUX(l)
  /\ fired' = fired \cup {s \in armed : CPUX_IRQ_MAPTO_CPUS(s) = l}
  /\ happened' = happened \cup {wakeup_source'}
  /\ UNCHANGED <<arg, levels, timer, told, armed, ops, events>>

\* exception_entry with platform_nmi_handler.
platform_nmi_handler ==
  /\ TakesNmi(irq, pmic)
  /\ Awake
  /\ irq' = nmi_int_disable(irq)
  /\ wakeup_source' = Nmi
  /\ happened' = happened \cup {Nmi}
  /\ UNCHANGED <<arg, levels, timer, told, armed, fired, ops, events>>

\* timer_tick_server: count down; at zero reload and call back.  A count that
\* stop_softtimer has just zeroed calls back too: that is no event.
Tick ==
  /\ start /\ irq.mie
  /\ Awake
  /\ IF expires > 0
     THEN expires' = expires - 1 /\ UNCHANGED <<wakeup_source, happened>>
     ELSE /\ expires' = cycle
          /\ wakeup_source' = Timer
          /\ happened' = IF pc \in {"stop", "clearstop"} THEN happened ELSE happened \cup {Timer}
  /\ UNCHANGED <<arg, irq, levels, cycle, start, told, armed, fired, ops, events>>

\* A tick with the timer off only ends a doze.
IdleTick ==
  /\ pc = "doze" /\ ~start /\ pc' = "check"
  /\ UNCHANGED <<arg, irq, levels, timer, wakeup_source, told, hist, ops, events>>

-----------------------------------------------------------------------------
(* set_wakeup_src and clear_wakeup_src. *)

Message(to) == Step("idle", to) /\ ops < MaxOps /\ ops' = ops + 1

\* msec_to_ticks: the product is 32 bits wide.
MsecToTicks(ms) == ((Rate * ms) % Word) \div Base

SetTimer ==
  /\ Message("idle")
  /\ \E ms \in Times : cycle' = MsecToTicks(ms)
  /\ UNCHANGED <<arg, irq, levels, expires, start, wakeup_source, told, hist, events>>

\* A number that irq_table does not have is refused, by both messages.
Unknown ==
  /\ Message("idle") /\ \E s \in Src : CPUX_IRQ_MAPTO_CPUS(s) = FAIL
  /\ UNCHANGED <<arg, irq, levels, timer, wakeup_source, told, hist, events>>

Known(s) == s \in Src /\ CPUX_IRQ_MAPTO_CPUS(s) # FAIL
line     == CPUX_IRQ_MAPTO_CPUS(arg)

\* group_irq_init and group_irq_exit: no interrupt of irq_table has a group.
group_irq(q, s, on) ==
  LET g == CPUX_IRQ_MAPTO_CPUS_GRP(s)
  IN  IF g = FAIL THEN q ELSE interrupt_set_group_config(q, g, on)

\* set_wakeup_src: an old reason equal to this source is forgotten ...
SetForget ==
  /\ Message("set1")
  /\ \E s \in Src : /\ Known(s) /\ arg' = s
                    /\ wakeup_source' = IF wakeup_source = s THEN No ELSE wakeup_source
  /\ UNCHANGED <<irq, levels, timer, told, hist, events>>

\* ... irq_wakesource_init: the line is masked ...
SetMask ==
  /\ Step("set1", "set2") /\ irq' = interrupt_set_mask(irq, line, TRUE)
  /\ UNCHANGED <<arg, levels, timer, wakeup_source, told, hist, ops, events>>

\* ... taken out of the wakeup mask, disabled, its pending bit cleared, its
\* group set up ...
SetQuiet ==
  /\ Step("set2", "set3")
  /\ irq' = group_irq(interrupt_disable(interrput_arch_set_mask(irq, line, FALSE), line), arg, TRUE)
  /\ raised' = interrupt_clear_pending(raised, line)
  /\ UNCHANGED <<arg, pmic, timer, wakeup_source, told, hist, ops, events>>

\* ... the handler installed ...
SetInstall ==
  /\ Step("set3", "set4") /\ irq' = install_isr(irq, line, default_wakeup_handler)
  /\ UNCHANGED <<arg, levels, timer, wakeup_source, told, hist, ops, events>>

\* ... the line enabled, and unmasked again if its interrupt came at once ...
SetEnable ==
  /\ Step("set4", "set5") /\ irq' = interrupt_enable(irq, line)
  /\ UNCHANGED <<arg, levels, timer, wakeup_source, told, hist, ops, events>>

SetUnmask ==
  /\ Step("set5", "set6") /\ irq' = interrupt_set_mask(irq, line, FALSE)
  /\ UNCHANGED <<arg, levels, timer, wakeup_source, told, hist, ops, events>>

\* ... and put into the wakeup mask.
SetDone ==
  /\ Step("set6", "idle") /\ arg' = 0 /\ irq' = interrput_arch_set_mask(irq, line, TRUE)
  /\ armed' = armed \cup {arg} /\ fired' = IF line \in irq.ie THEN fired \ {arg} ELSE fired \cup {arg}
  /\ UNCHANGED <<levels, timer, wakeup_source, told, happened, ops, events>>

\* clear_wakeup_src, irq_wakesource_exit: mask ...
ClearMask ==
  /\ Message("clear2")
  /\ \E s \in Src : Known(s) /\ arg' = s /\ irq' = interrupt_set_mask(irq, CPUX_IRQ_MAPTO_CPUS(s), TRUE)
  /\ armed' = armed \ {arg'} /\ fired' = fired \ {arg'}
  /\ UNCHANGED <<levels, timer, wakeup_source, told, happened, events>>

\* ... out of the wakeup mask, disable, clear pending ...
ClearQuiet ==
  /\ Step("clear2", "clear3")
  /\ irq' = interrupt_disable(interrput_arch_set_mask(irq, line, FALSE), line)
  /\ raised' = interrupt_clear_pending(raised, line)
  /\ UNCHANGED <<arg, pmic, timer, wakeup_source, told, hist, ops, events>>

\* ... and uninstall; the first error is answered and undoes nothing.
ClearUninstall ==
  /\ Step("clear3", "idle") /\ arg' = 0
  /\ irq' = group_irq(uninstall_isr(irq, line, default_wakeup_handler), arg, FALSE)
  /\ UNCHANGED <<levels, timer, wakeup_source, told, hist, ops, events>>

\* stop_softtimer: the count, then the flag.
ClearTimer ==
  /\ Message("clearstop") /\ expires' = 0
  /\ UNCHANGED <<arg, irq, levels, cycle, start, wakeup_source, told, hist, events>>

ClearTimerDone ==
  /\ Step("clearstop", "idle") /\ start' = FALSE /\ cycle' = 0 /\ expires' = 0
  /\ UNCHANGED <<arg, irq, levels, wakeup_source, told, hist, ops, events>>

-----------------------------------------------------------------------------
(* The standby transaction, as far as wakeups are concerned. *)

\* standby_entry: the reason of the completed transaction is discarded.
Sleep ==
  /\ Message("start") /\ wakeup_source' = No
  /\ happened' = {} /\ told' = No
  /\ UNCHANGED <<arg, irq, levels, timer, armed, fired, events>>

\* device_suspend, pmu_standby_init: the power chip may wake the system.
NmiOn ==
  /\ Step("start", "suspended") /\ irq' = nmi_int_enable(irq)
  /\ UNCHANGED <<arg, levels, timer, wakeup_source, told, hist, ops, events>>

\* The suspend half fails: the resume half runs and the reason is dropped.
Abort ==
  /\ Step("suspended", "idle") /\ irq' = nmi_int_disable(irq) /\ wakeup_source' = No
  /\ UNCHANGED <<arg, levels, timer, told, hist, ops, events>>

\* mutant: the wait discards what it finds (the line that is commented out).
TimerStartDiscards ==
  /\ Step("suspended", "flag") /\ cycle # 0 /\ expires' = cycle /\ wakeup_source' = No
  /\ UNCHANGED <<arg, irq, levels, cycle, start, told, hist, ops, events>>

\* wakeup_timer_start: the count, then the flag; not at all for no time.
TimerStart ==
  /\ Step("suspended", "flag") /\ cycle # 0 /\ expires' = cycle
  /\ UNCHANGED <<arg, irq, levels, cycle, start, wakeup_source, told, hist, ops, events>>

TimerStartFlag ==
  /\ Step("flag", "check") /\ start' = TRUE
  /\ UNCHANGED <<arg, irq, levels, cycle, expires, wakeup_source, told, hist, ops, events>>

NoTimer ==
  /\ Step("suspended", "check") /\ cycle = 0
  /\ UNCHANGED <<arg, irq, levels, timer, wakeup_source, told, hist, ops, events>>

\* mutant: the reason is compared as a signed number, the timer's is negative.
CheckSigned ==
  /\ Step("check", IF wakeup_source \in {No, Timer} THEN "todoze" ELSE "wake")
  /\ UNCHANGED <<arg, irq, levels, timer, wakeup_source, told, hist, ops, events>>

\* wait_wakeup: check, then doze; an interrupt may come in between.
Check ==
  /\ Step("check", IF wakeup_source = No THEN "todoze" ELSE "wake")
  /\ UNCHANGED <<arg, irq, levels, timer, wakeup_source, told, hist, ops, events>>

Doze ==
  /\ Step("todoze", "doze")
  /\ UNCHANGED <<arg, irq, levels, timer, wakeup_source, told, hist, ops, events>>

TimerStop ==
  /\ Step("wake", "stop") /\ expires' = 0
  /\ UNCHANGED <<arg, irq, levels, cycle, start, wakeup_source, told, hist, ops, events>>

TimerStopFlag ==
  /\ Step("stop", "resume") /\ start' = FALSE
  /\ UNCHANGED <<arg, irq, levels, cycle, expires, wakeup_source, told, hist, ops, events>>

\* device_resume, pmu_standby_exit.
NmiOff ==
  /\ Step("resume", "restore") /\ irq' = nmi_int_disable(irq)
  /\ UNCHANGED <<arg, levels, timer, wakeup_source, told, hist, ops, events>>

\* mutant: the reason is cleared with the timer.
TellCleared ==
  /\ Step("restore", "forget") /\ told' = No
  /\ UNCHANGED <<arg, irq, levels, timer, wakeup_source, armed, fired, happened, ops, events>>

\* wait_cpu0_resume: CPU0 is given the reason ...
Tell ==
  /\ Step("restore", "forget") /\ told' = wakeup_source
  /\ UNCHANGED <<arg, irq, levels, timer, wakeup_source, armed, fired, happened, ops, events>>

\* ... or does not ask for it in time, and the reason is dropped ...
TellTimeout ==
  /\ Step("restore", "idle") /\ wakeup_source' = No
  /\ UNCHANGED <<arg, irq, levels, timer, told, armed, fired, happened, ops, events>>

\* ... after an answer it is cleared, with whatever came since.
Forget ==
  /\ Step("forget", "idle") /\ wakeup_source' = No
  /\ UNCHANGED <<arg, irq, levels, timer, told, hist, ops, events>>

Process ==
  \/ InterruptInit \/ EnableGlobal \/ wakeup_timer_init
  \/ SetMask \/ SetQuiet \/ SetInstall \/ SetEnable \/ SetUnmask \/ SetDone
  \/ ClearQuiet \/ ClearUninstall \/ ClearTimerDone
  \/ NmiOn \/ Abort \/ TimerStart \/ TimerStartFlag \/ NoTimer \/ Check \/ Doze
  \/ TimerStop \/ TimerStopFlag \/ NmiOff \/ Tell \/ TellTimeout \/ Forget

Request == SetTimer \/ Unknown \/ SetForget \/ ClearMask \/ ClearTimer \/ Sleep

Next ==
  \/ Process \/ Request \/ Tick \/ IdleTick \/ platform_nmi_handler
  \/ RaiseNmi \/ ServedNmi
  \/ \E l \in Line : Raise(l) \/ Served(l) \/ Handler(l)

\* The firmware keeps executing, the tick keeps coming, and an interrupt that
\* is raised and enabled is taken.
Spec ==
  /\ Init /\ [][Next]_vars
  /\ WF_vars(Process) /\ WF_vars(Tick) /\ WF_vars(IdleTick) /\ WF_vars(platform_nmi_handler)
  /\ \A l \in Line : WF_vars(Handler(l))

-----------------------------------------------------------------------------
\* While interrupts are on, a line is enabled only with the handler that masks
\* it: an interrupt taken through isr_default, or past the end of isr_table,
\* stays up and is taken for ever ("enable before ISR install").  Also what a
\* warm reset left enabled is gone by then.
NoStorm == irq.mie => \A l \in irq.ie : l \in Slot /\ irq.isr[l] = default_wakeup_handler

\* A source CPU0 was told is armed is enabled, in the wakeup mask and has its
\* handler until it fires, unless a source that shares its line is being set
\* or was cleared.
Alone(s) == \A t \in Src \ {s} : CPUX_IRQ_MAPTO_CPUS(t) # CPUX_IRQ_MAPTO_CPUS(s)

Armed ==
  \A s \in armed \ fired :
     Alone(s) /\ ~(arg = s /\ pc \in {"set1", "set2", "set3", "set4", "set5", "set6"})
     => LET l == CPUX_IRQ_MAPTO_CPUS(s)
        IN  l \in irq.ie \cap irq.wake /\ irq.isr[l] = default_wakeup_handler

\* Once standby_entry has discarded the reason of the completed transaction, a
\* wakeup stays on record until CPU0 is answered: one that comes while the
\* system is being suspended is found by the wait.  (One that comes before is
\* discarded with the old reason, and its line stays masked.)
Recorded ==
  pc \in {"start", "suspended", "flag", "check", "todoze", "doze", "wake", "stop", "resume",
          "restore"} /\ happened # {} => wakeup_source # No

\* A wakeup during the wait ends it, also when it comes between the check and
\* the doze (nothing but the next tick gets the firmware out of that doze); a
\* timer that was started ends it if nothing else does.
WakesUp ==
  /\ (pc \in {"check", "todoze", "doze"} /\ wakeup_source # No) ~> (pc = "idle")
  /\ (pc = "flag" /\ cycle > 0) ~> (pc = "idle")

\* CPU0 is told a wakeup of this standby, one that was not cleared by a
\* message or by the next standby in between, or else the timer: a tick
\* between the two stores of stop_softtimer calls its handler.
ToldTrue ==
  [][(pc = "restore" /\ pc' = "forget") => told' \in happened \cup {Timer}]_vars

\* So no wakeup CPU0 may count on is missed: its source stays armed until it
\* fires, and its reason on record until CPU0 is answered.
NotMissed == Armed /\ Recorded
=============================================================================
