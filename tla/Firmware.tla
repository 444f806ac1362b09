----------------------------- MODULE Firmware ------------------------------
(***************************************************************************)
(* The management processor's firmware from its entry to its main loop     *)
(* (ar100s/system/daemon/daemon.c, message_manager.c, para.c), with the    *)
(* drivers its startup sets up: clocks (Prcm), UART (Uart), little-endian  *)
(* windows, pins, watchdog and notifiers (Devices).                        *)
(*                                                                         *)
(* One thread runs startup_entry and then daemon_main; the UART transmits  *)
(* and the tick interrupt counts beside it.  Standby appears by what it    *)
(* does to the UART's clock, the rest of it is module Standby; messages    *)
(* whose handlers are modelled elsewhere are answered with some result.    *)
(***************************************************************************)
EXTENDS Uart

CONSTANTS
  Trees,         \* what boot0 may have published, a subset of AllTrees
  DtbAddr, DtsSize,  \* where, and ARISC_DTS_SIZE
  DramBase, DramEnd, CrcMax, AddrSpace,  \* ARISC_DRAM_BASE, _END, DRAM_CRC_MAX_LEN, 2^32
  DaemonTicks, TickSpace,  \* DAEMON_ONCE_TICKS, 2^32
  Messages,      \* messages the ARM side may send: [type, paras]
  Formats,       \* formats the firmware prints: [kind, tokens]
  Samples        \* readings of the oscillator calibration: <<ht, xt>>

AllTrees == {"none", "outside", "broken", "large", "bare", "good"}

ASSUME FirmwareAssumption ==
  /\ Trees \subseteq AllTrees /\ Trees # {}
  /\ {DtbAddr, DtsSize, DramBase, DramEnd, CrcMax, AddrSpace, DaemonTicks, TickSpace} \subseteq Nat
  /\ 2 * DaemonTicks < TickSpace /\ DramBase < DramEnd /\ DramEnd < AddrSpace
  /\ \A m \in Messages : m.paras \in Seq(Nat)
  /\ \A f \in Formats : f.tokens \in Seq(Token)
  /\ Samples \subseteq Nat \X Nat

\* startup registers two call-backs
ASSUME StartupFits == NotifierMax >= 2

VARIABLES
  stage,         \* stage of startup_entry, or place in daemon_main
  tree,          \* what boot0 published; no longer told apart in the main loop
  cell,          \* the RTC cell: the published address, then the state flag; the
                 \* flags saved in the main loop are not told apart
  dtb_base,      \* dtb_base # 0
  dram,          \* platform_dram_para # NULL
  le, notif, wdog,  \* see Devices
  soft,          \* soft timers registered; timer_lock is TRUE until timer_init
  timerlock,
  status, ready, \* startup_status, msgbox_ready
  level,         \* debug_level
  crc,           \* dram_crc_enable, _src, _len
  tick, next, since,  \* time_ticks, next_daemon_tick; ghost: ticks since the list ran
  answer         \* the result of the message just handled

fw == <<stage, tree, cell, dtb_base, dram, le, notif, wdog, soft, timerlock, status, ready,
        level, crc, tick, next, since, answer>>
firmwareVars == <<prcm, uart, fw>>

EFAIL == -36

PrcmReset == [on |-> {}, nreset |-> {}, cir |-> [src |-> 0, n |-> 0, m |-> 0],
              cpus |-> [src |-> 0, m |-> 0], apbs0 |-> [src |-> 0, m |-> 0],
              apbs1 |-> [src |-> 0, m |-> 0], iosc |-> Iosc, losc |-> Losc, known |-> FALSE]

InitFirmware ==
  /\ UartInit /\ prcm = PrcmReset
  /\ stage = "entry" /\ tree \in Trees /\ cell = tree
  /\ dtb_base = FALSE /\ dram = FALSE
  /\ le = LeReset /\ wdog = WatchdogReset
  /\ notif = [used |-> 0, list |-> [h \in Heads |-> <<>>]]
  /\ soft = <<>> /\ timerlock = TRUE
  /\ status = OK /\ ready = FALSE /\ level = 3
  /\ crc = [enable |-> 0, src |-> DramBase, len |-> 4]
  /\ tick = 0 /\ next = 0 /\ since = 0
  /\ answer = OK

-----------------------------------------------------------------------------
(* startup_entry *)

\* dtb_base_init: the address must leave room for the tree in the window's
\* DRAM; what cannot be a tree gives the window back
dtb_base_init(base, w) ==
  IF base \notin {"broken", "large", "bare", "good"} \/ LeFull(w) THEN [ok |-> FALSE, le |-> w]
  ELSE LET open == cpucfg_set_little_endian_address(w, DtbAddr, DtbAddr + DtsSize)
       IN  IF base \in {"bare", "good"} THEN [ok |-> TRUE, le |-> open]
           ELSE [ok |-> FALSE,
                 le |-> cpucfg_remove_little_endian_address(open, DtbAddr, DtbAddr + DtsSize)]

\* mutant: the first state flag is saved before the address is read
EarlyFlagFirst ==
  LET d == dtb_base_init("b000", cpucfg_init(le))
  IN  /\ stage = "entry" /\ stage' = "intc" /\ cell' = "b003"
      /\ dtb_base' = d.ok /\ le' = d.le
      /\ notif' = notifier_init(notif) /\ prcm' = ccu_init(prcm)
      /\ UNCHANGED <<uart, tree, dram, wdog, soft, timerlock, status, ready,
                     level, crc, tick, next, since, answer>>

\* up to the interrupt controller: the published address is read before the
\* first state flag overwrites its cell
Early ==
  LET d == dtb_base_init(cell, cpucfg_init(le))
  IN  /\ stage = "entry" /\ stage' = "intc" /\ cell' = "b003"
      /\ dtb_base' = d.ok /\ le' = d.le
      /\ notif' = notifier_init(notif) /\ prcm' = ccu_init(prcm)
      /\ UNCHANGED <<uart, tree, dram, wdog, soft, timerlock, status, ready,
                     level, crc, tick, next, since, answer>>

\* all the DRAM parameters are in the tree, or none is used
dram_dts_parse(t) == t = "good"

\* interrupt_init, which fails where the controller has too few or too many
\* lines; startup_entry returns
Interrupts(ok) ==
  /\ stage = "intc"
  /\ IF ok THEN stage' = "debugger" /\ cell' = "b005" ELSE stage' = "returned" /\ UNCHANGED cell
  /\ UNCHANGED <<prcm, uart, tree, dtb_base, dram, le, notif, wdog, soft, timerlock, status, ready,
                 level, crc, tick, next, since, answer>>

\* debugger_init and, where there is a tree, platform_dts_parse_late, which
\* wants all the DRAM parameters; without either the firmware goes on
Debugger ==
  /\ stage = "debugger" /\ stage' = "twi" /\ cell' = "b006"
  /\ InitUart
  /\ status' = IF res' # OK THEN res' ELSE status
  /\ dram' = (dtb_base /\ dram_dts_parse(tree))
  /\ UNCHANGED <<tree, dtb_base, le, notif, wdog, soft, timerlock, ready,
                 level, crc, tick, next, since, answer>>

\* startup_failed: the state flag tells why, the ARM side is told if it can be
\* (that notification saves flags of its own), and the processor sleeps
Failed(ret) ==
  /\ stage' = "doze" /\ status' = ret
  /\ cell' = IF ready THEN "b00e" ELSE "bb24"

TwiPins(p) ==
  LET Pin(q, l) == pin_set_drive(pin_set_pull(pin_set_multi_sel(q, l, 2), l, 1), l, 0)
  IN  Pin(Pin(p, "PL0"), "PL1")

\* twi_init fails where the bus does not come free
TwoWire(ok) ==
  /\ stage = "twi"
  /\ pins' = TwiPins(pins)
  /\ prcm' = ccu_set_mclk_reset(ccu_set_mclk_onoff(prcm, "R_TWI", TRUE), "R_TWI", TRUE)
  /\ IF ok THEN stage' = "msgbox" /\ cell' = "b007" /\ UNCHANGED status ELSE Failed(EFAIL)
  /\ UNCHANGED <<used, lock, rate, dl, act, halt, fifo, up, arg, res, failed, tree, dtb_base, dram,
                 le, notif, wdog, soft, timerlock, ready, level, crc, tick, next, since,
                 answer>>

hwmsgbox_init(r) == ccu_set_mclk_reset(ccu_set_mclk_onoff(r, "MSGBOX", TRUE), "MSGBOX", TRUE)

\* pmu_init, bmu_init, hwmsgbox_init and message_manager_init cannot fail, and
\* nothing depends on amp_msgbox_init
MessageBox ==
  /\ stage = "msgbox" /\ stage' = "timer" /\ cell' = "b00a" /\ ready' = TRUE
  /\ prcm' = hwmsgbox_init(prcm)
  /\ UNCHANGED <<uart, tree, dtb_base, dram, le, notif, wdog, soft, timerlock, status,
                 level, crc, tick, next, since, answer>>

TimerClocks(r) == ccu_set_mclk_reset(ccu_set_mclk_onoff(r, "R_TIMER0_1", TRUE), "R_TIMER0_1", TRUE)

ccu_24mhosc_reg_cb(n, cb) == notifier_insert(n, "hosc", cb)
daemon_register_service(n, cb) == notifier_insert(n, "daemon", cb)
cpu_init(n) == daemon_register_service(n, "cpu_stack_monitor")

\* nothing is added while the timers are locked
add_softtimer(s, locked, t) == IF locked THEN s ELSE Append(s, t)

\* what add_softtimer returns is not looked at
wakeup_timer_init(s, locked) == add_softtimer(s, locked, "wakeup_timer")

\* a timer is free, unless the timers are locked
time_ticks_init(locked) == IF locked THEN EFAIL ELSE OK

\* mutant: the wakeup timer is added before timer_init unlocks the timers
TimersLate ==
  /\ stage = "timer"
  /\ prcm' = TimerClocks(prcm)
  /\ notif' = ccu_24mhosc_reg_cb(notif, "timer_hosc_onoff_cb")
  /\ soft' = wakeup_timer_init(soft, timerlock)
  /\ timerlock' = FALSE /\ stage' = "notify" /\ cell' = "b00c"
  /\ wdog' = watchdog_init(wdog)
  /\ UNCHANGED <<uart, tree, dtb_base, dram, le, status, ready, level, crc, tick, next, since,
                 answer>>

\* timer_init, standby_init, time_ticks_init and watchdog_init
TimersAndStandby ==
  /\ stage = "timer"
  /\ prcm' = TimerClocks(prcm)
  /\ notif' = ccu_24mhosc_reg_cb(notif, "timer_hosc_onoff_cb")
  /\ timerlock' = FALSE
  /\ soft' = wakeup_timer_init(soft, timerlock')
  /\ IF time_ticks_init(timerlock') # OK THEN Failed(EFAIL) /\ UNCHANGED wdog
     ELSE stage' = "notify" /\ cell' = "b00c" /\ wdog' = watchdog_init(wdog) /\ UNCHANGED status
  /\ UNCHANGED <<uart, tree, dtb_base, dram, le, ready, level, crc, tick, next, since,
                 answer>>

\* startup_state_notify, sent or not, and into daemon_main
Notify ==
  /\ stage = "notify" /\ stage' = "loop" /\ cell' = "b00f"
  /\ notif' = cpu_init(notif)
  /\ next' = DaemonTicks /\ tree' = "read"
  /\ UNCHANGED <<prcm, uart, dtb_base, dram, le, wdog, soft, timerlock, status, ready,
                 level, crc, tick, since, answer>>

-----------------------------------------------------------------------------
(* daemon_main: messages, then the daemon list *)

MinCount(type) ==
  CASE type = "CPU_OP" -> 5
    [] type \in {"SYS_OP", "WAKEUP_SRC", "DEBUG_LEVEL", "UART_BAUDRATE", "DDRFREQ"} -> 1
    [] type = "DRAM_CRC" -> 3
    [] OTHER -> 0

\* mutant: the end of the range is computed and may wrap
CrcRangeWraps(src, len) ==
  /\ src % 4 = 0 /\ len % 4 = 0 /\ len # 0 /\ len <= CrcMax
  /\ src >= DramBase /\ (src + len) % AddrSpace <= DramEnd

\* the range check of standby_set_dram_crc_paras
CrcRange(src, len) ==
  /\ src % 4 = 0 /\ len % 4 = 0 /\ len # 0 /\ len <= CrcMax
  /\ src >= DramBase /\ src < DramEnd /\ len <= DramEnd - src

standby_set_dram_crc_paras(c, enable, src, len) ==
  CASE enable > 1 -> [crc |-> c, ret |-> EINVAL]
    [] enable = 0 -> [crc |-> [c EXCEPT !.enable = 0], ret |-> OK]
    [] OTHER -> IF CrcRange(src, len)
                THEN [crc |-> [enable |-> 1, src |-> src, len |-> len], ret |-> OK]
                ELSE [crc |-> c, ret |-> EINVAL]

\* words standby_dram_crc reads before and after the memory sleeps: from src to
\* an end that is a 32-bit sum
CrcWords(c) == {a \in 0 .. AddrSpace - 1 :
                  a % 4 = 0 /\ c.src <= a /\ a < (c.src + c.len) % AddrSpace}

Done(r) == answer' = r /\ stage' = "daemon"

\* cpu_op: an entry point and system state arisc_power_off
StandbyAsked(m) ==
  m.type = "CPU_OP" /\ Len(m.paras) >= MinCount("CPU_OP") /\ m.paras[2] # 0 /\ m.paras[5] = 3

\* sys_op: arisc_system_shutdown, _reboot, _reset and arisc_uboot_shutdown
PowerAsked(m) ==
  m.type = "SYS_OP" /\ Len(m.paras) >= MinCount("SYS_OP") /\ m.paras[1] \in 0 .. 3

\* message_process_loop with nothing there, or a late answer to the startup
\* notification
NoMessage ==
  /\ stage = "loop" /\ up = "idle" /\ stage' = "daemon"
  /\ UNCHANGED <<prcm, uart, tree, cell, dtb_base, dram, le, notif, wdog, soft, timerlock, status,
                 ready, level, crc, tick, next, since, answer>>

\* process_message, for the handlers that take one step
Handle(m) ==
  /\ stage = "loop" /\ up = "idle"
  /\ \/ Len(m.paras) < MinCount(m.type) /\ Done(EINVAL) /\ UNCHANGED <<level, crc>>
     \/ /\ Len(m.paras) >= MinCount(m.type)
        /\ \/ /\ m.type = "DEBUG_LEVEL"
              /\ level' = m.paras[1] /\ Done(OK) /\ UNCHANGED crc
           \/ /\ m.type = "DRAM_CRC"
              /\ LET c == standby_set_dram_crc_paras(crc, m.paras[1], m.paras[2], m.paras[3])
                 IN  crc' = c.crc /\ Done(c.ret)
              /\ UNCHANGED level
           \/ /\ m.type = "DDRFREQ"
              /\ \/ ~dram /\ Done(EFAIL)
                 \/ dram /\ \E r \in {OK, EFAIL} : Done(r)
              /\ UNCHANGED <<level, crc>>
           \/ /\ m.type = "CPU_OP"  \* the DRAM's parameters are missing, or those of standby
              /\ Done(IF StandbyAsked(m) THEN EACCES ELSE EFAIL)
              /\ UNCHANGED <<level, crc>>
           \/ /\ m.type = "SYS_OP"  \* a transfer to the PMIC failed
              /\ Done(IF PowerAsked(m) THEN EFAIL ELSE EINVAL)
              /\ UNCHANGED <<level, crc>>
           \/ /\ m.type = "WAKEUP_SRC"
              /\ \E r \in {OK, EFAIL} : Done(r)
              /\ UNCHANGED <<level, crc>>
           \/ m.type = "FAKE_POWER_OFF" /\ Done(EFAIL) /\ UNCHANGED <<level, crc>>
           \/ m.type = "LOOPBACK" /\ Done(OK) /\ UNCHANGED <<level, crc>>
           \/ m.type = "other" /\ Done(ESRCH) /\ UNCHANGED <<level, crc>>
  /\ UNCHANGED <<prcm, uart, tree, cell, dtb_base, dram, le, notif, wdog, soft, timerlock, status,
                 ready, tick, next, since>>

fw_rest == <<tree, cell, dtb_base, dram, le, notif, wdog, soft, timerlock, status, ready,
             level, crc, tick, next, since>>

\* what the UART returned has been used, or ignored
Forget ==
  /\ res' = OK
  /\ UNCHANGED <<pins, used, lock, rate, dl, act, halt, fifo, up, arg, failed>>

\* SET_UART_BAUDRATE: uart_set_baudrate, and its result when it is back
Baud(m) ==
  /\ stage = "loop" /\ up = "idle" /\ m.type = "UART_BAUDRATE" /\ Len(m.paras) >= 1
  /\ SetBaudrate(m.paras[1], "baud")
  /\ stage' = "baud" /\ UNCHANGED <<fw_rest, answer>>

BaudBack ==
  /\ stage = "baud" /\ up = "idle" /\ Done(res) /\ Forget
  /\ UNCHANGED <<prcm, fw_rest>>

\* sys_op that does not come back: the PMIC has been told, and the processor
\* waits for the end (module Power)
PowerOp(m) ==
  /\ stage = "loop" /\ up = "idle" /\ PowerAsked(m)
  /\ stage' = "off"
  /\ UNCHANGED <<prcm, uart, fw_rest, answer>>

\* standby: the calibration, then clk_suspend and clk_resume, which ignore what
\* uart_clkchangecb returns
Suspend(m) ==
  /\ stage = "loop" /\ up = "idle" /\ dram /\ StandbyAsked(m)
  /\ \E s \in Samples : prcm' = iosc_freq_init(prcm, s[1], s[2])
  /\ stage' = "suspend"
  /\ UNCHANGED <<uart, fw_rest, answer>>

Request ==
  /\ stage \in {"suspend", "resume"} /\ up = "idle"
  /\ ClkReq(0 \in Shown(level))
  /\ stage' = IF stage = "suspend" THEN "slow" ELSE "fast"
  /\ UNCHANGED <<fw_rest, answer>>

\* bus_clock_set of the APBS1 register: the RC oscillator, or what was saved
Switch ==
  /\ stage \in {"slow", "fast"} /\ up = "idle"
  /\ prcm' = [prcm EXCEPT !.apbs1 = [src |-> IF stage = "slow" THEN 2 ELSE 4, m |-> 0]]
  /\ stage' = IF stage = "slow" THEN "slowed" ELSE "fastened"
  /\ Forget /\ UNCHANGED <<fw_rest, answer>>

Changed ==
  /\ stage \in {"slowed", "fastened"} /\ up = "idle" /\ ClkDone
  /\ stage' = IF stage = "slowed" THEN "asleep" ELSE "awake"
  /\ UNCHANGED <<fw_rest, answer>>

WakeUp ==
  /\ stage = "asleep" /\ up = "idle" /\ stage' = "resume"
  /\ Forget /\ UNCHANGED <<prcm, fw_rest, answer>>

SuspendBack ==
  /\ stage = "awake" /\ up = "idle" /\ Done(OK) /\ Forget
  /\ UNCHANGED <<prcm, fw_rest>>

\* debugger_printf, where the firmware logs between its steps
Log(f) ==
  /\ stage \in {"loop", "asleep"} /\ up = "idle" /\ f.kind \in Shown(level)
  /\ Puts
  /\ UNCHANGED <<stage, tree, cell, dtb_base, dram, le, notif, wdog, soft, timerlock, status, ready,
                 level, crc, tick, next, since, answer>>

\* mutant: the ticks are compared unsigned
DueUnsigned == tick >= next

\* (s32)(tick - next_daemon_tick) >= 0
Due == (tick - next) % TickSpace < TickSpace \div 2

Daemon ==
  /\ stage = "daemon" /\ up = "idle" /\ stage' = "loop" /\ answer' = OK
  /\ IF Due THEN next' = (tick + DaemonTicks) % TickSpace /\ since' = 0
     ELSE UNCHANGED <<next, since>>
  /\ UNCHANGED <<prcm, uart, tree, cell, dtb_base, dram, le, notif, wdog, soft, timerlock, status,
                 ready, level, crc, tick>>

\* the tick interrupt; only the daemon reads time_ticks, so when it comes inside
\* a message makes no difference.  A loop takes less than half the tick space.
Tick ==
  /\ stage = "loop" /\ up = "idle" /\ since < DaemonTicks + TickSpace \div 2 - 1
  /\ tick' = (tick + 1) % TickSpace /\ since' = since + 1
  /\ UNCHANGED <<prcm, uart, stage, tree, cell, dtb_base, dram, le, notif, wdog, soft, timerlock,
                 status, ready, level, crc, next, answer>>

-----------------------------------------------------------------------------
Startup ==
  \/ Early \/ Debugger \/ MessageBox \/ TimersAndStandby \/ Notify
  \/ \E ok \in BOOLEAN : Interrupts(ok) \/ TwoWire(ok)

Loop ==
  \/ NoMessage \/ BaudBack \/ Request \/ Switch \/ Changed \/ WakeUp \/ SuspendBack \/ Daemon \/ Tick
  \/ \E m \in Messages : Handle(m) \/ Baud(m) \/ PowerOp(m) \/ Suspend(m)
  \/ \E f \in Formats : Log(f)

NextFirmware == Startup \/ Loop \/ (UartStep(1 \in Shown(level)) /\ UNCHANGED fw)

SpecFirmware == InitFirmware /\ [][NextFirmware]_firmwareVars

-----------------------------------------------------------------------------
(* The main loop is entered, or startup given up, with what startup_entry    *)
(* promised.  The tree boot0 published is found although its address shares  *)
(* an RTC cell with the state flags, a little-endian window stays open for   *)
(* it and for nothing else, and the wakeup timer is registered although      *)
(* nobody looks at what add_softtimer returned.                              *)
Started ==
  /\ stage # "entry" /\ tree # "read" =>
       /\ dtb_base <=> tree \in {"bare", "good"}
       /\ stage \notin {"intc", "debugger", "returned"} => (dram <=> tree = "good")
  /\ stage # "entry" => le.used = (IF dtb_base THEN 1 ELSE 0) /\ le.ctrl = 0 .. le.used - 1
  /\ stage \in {"loop", "daemon", "baud", "asleep"} =>
       /\ soft = <<"wakeup_timer">> /\ notif.list["hosc"] # <<>> /\ notif.list["daemon"] # <<>>
       /\ {"R_TWI", "R_UART", "R_TIMER0_1", "MSGBOX"} \subseteq prcm.on \cap prcm.nreset
       /\ dram => dtb_base
       /\ ~wdog.on
  /\ stage = "doze" => status # OK /\ ~ready

(* While the UART is open and at rest, its divisor is the one for its rate   *)
(* and the clock that feeds it - through rate changes, calibrations and the  *)
(* clock switches of standby - unless a call reported a failure since.       *)
BaudMatches ==
  used /\ ~lock /\ up = "idle" /\ failed = {} /\ stage \notin {"slowed", "fastened"} =>
    act = uart_divisor(Freq, rate)

(* The clock under the UART is switched with nothing left to send, unless    *)
(* the request to change it timed out, and no character of a line leaves at  *)
(* a divisor that does not fit the clock.                                    *)
DrainedFirst ==
  /\ Freq' # Freq /\ used => fifo = <<>> \/ "req" \in failed
  /\ fifo # <<>> /\ fifo' = Tail(fifo) /\ Head(fifo) = "line" /\ failed = {} =>
       act = uart_divisor(Freq, rate)

(* When a CRC is enabled, the words standby_dram_crc reads are as many as    *)
(* were asked for and all in DRAM, whatever 32-bit numbers the message held. *)
CrcInDram ==
  crc.enable = 1 =>
    /\ CrcWords(crc) \subseteq DramBase .. DramEnd - 1
    /\ Cardinality(CrcWords(crc)) * 4 = crc.len

(* debugger_printf keeps its terminator inside debugger_buffer whatever the  *)
(* format and its arguments.                                                 *)
LineFits == \A f \in Formats : Log(f) => debugger_printf(f.tokens) <= BufferSize - 1

(* The daemon list runs in the first loop that comes DAEMON_ONCE_TICKS ticks *)
(* or more after it last ran, and not before, also where the 32-bit tick     *)
(* counter wraps.                                                            *)
DaemonPaced ==
  [][/\ since' = 0 /\ since # 0 => since >= DaemonTicks
     /\ stage = "daemon" /\ stage' = "loop" /\ since >= DaemonTicks => since' = 0]_firmwareVars

(* So the UART sends at its rate whatever happens to rate and clock, unless  *)
(* a call reported a failure.                                                *)
SendsAtRate == [][BaudMatches' /\ DrainedFirst]_firmwareVars

(* What the parameters of a message and the arguments of a line address      *)
(* stays in the memory meant for it.                                         *)
InBounds == [][CrcInDram' /\ LineFits]_firmwareVars
=============================================================================
