------------------------------ MODULE Standby ------------------------------
(***************************************************************************)
(* The deep-standby transaction of the AR100S firmware                     *)
(* (ar100s/service/standby/standby-sun60iw2p1/plat_standby.c): the E902    *)
(* takes the system down part by part (CPUs, DRAM, bus clocks, PLLs,       *)
(* crystal, isolation, rails), waits for a wakeup event and brings it back *)
(* up, on a core whose own clock is one of those it changes.               *)
(*                                                                         *)
(* A clock setting is kept as its source and divider, a PLL as what its    *)
(* register asks for.  The rails themselves are module Rails: here they    *)
(* are cut, or some of them are and come back, or do not.  Hardware polls  *)
(* may time out wherever the code bounds them.                             *)
(***************************************************************************)
EXTENDS StandbyDevices, Sequences, FiniteSets

CONSTANTS
  MaxTrans,                       \* bound: standby requests of a behaviour
  MaxFails,                       \* bound: failing steps of a transaction
  Cuts                            \* the domains a DTB may list rails of

Domains == <<"io", "cpu", "sys">>                  \* in the order of dm_suspend

ASSUME StandbyAssumption ==
  MaxTrans \in Nat /\ MaxFails \in Nat /\ Cuts \subseteq SUBSET {"io", "cpu", "sys"}

PllOrder == <<"ref", "ddr", "peri0", "video">>     \* pll_restore, abridged
Plls     == {PllOrder[i] : i \in DOMAIN PllOrder}
Ccmu     == {"ahb"}                                \* bus_restore[0 .. 3]
Prcm     == {"cpus", "apbs1"}                      \* bus_restore[4 .. 6]
Buses    == Ccmu \cup Prcm \cup {"rv24"}             \* and RV_24M_CLK_REG
Parts    == {"cpu", "msgbox", "dram", "ctl", "auto", "sys", "vccio", "rails", "stray"}
NoWake   == "NO_WAKESOURCE"

VARIABLES
  pc,        \* the step standby_entry is at, "idle" outside it
  off,       \* the parts that are down: CPU0, message box, DRAM controller,
             \* NSI/MBUS/GIC/trace clocks, the E902's automatic bus clocks, the
             \* system domain (isolated, in reset), VCC-IO detection, the rails
             \* dm_off_order records, a rail that is off without a record
  lost,      \* registers of a domain that lost power, not written back yet
  dcxo,      \* the 24 MHz crystal runs
  tsrc,      \* source of the E902's timers: "ref" or "k32"
  pll,       \* PLL registers: "off", "on", "free" (no lock detection), "gated"
  bus,       \* bus clock registers: [src, m]
  core,      \* CPU cluster clocks: [src, pll]
  usb,       \* USB: [iso: isolations held, held: ports clocked off, in reset]
  twi,       \* TWI: [lock, div], div the source its divider was computed for
  smc,       \* attributes of the SMC's regions, 0 when not in use
  vector,    \* where CPU0 starts: "reset" after a power loss, else set by software
  bak,       \* what the firmware saved: [pll, bus, flag, core, port, type, smc],
             \* and cal: already_init_osc_freq
  dram,      \* the DRAM content is what it was at suspend
  cfg,       \* [dtb, hosc, crc, cut, secure]: parameters found, crystal may
             \* stop, CRC on, the domains whose rails the DTB lists, the chip
             \* is secure
  wakeup_source,
  told,      \* the reason CPU0 was given, or "none"
  wait_restore,
  fails,     \* the steps of this transaction that failed, in order
  result,    \* what the last transaction returned, "none" within one
  broken,    \* what failed to come up in some transaction: "pll", "rails"
  before,    \* the clock settings at the request
  n

clocks == <<dcxo, tsrc, pll, bus, core>>
hw     == <<off, lost, usb, twi, dram, smc, vector>>
soft   == <<bak, cfg, wakeup_source, told, wait_restore, fails, result, broken, before, n>>
vars   == <<pc, off, lost, dcxo, tsrc, pll, bus, core, usb, twi, smc, vector, bak, dram, cfg,
            wakeup_source, told, wait_restore, fails, result, broken, before, n>>

Clock == [src : {"osc24", "rc16", "ref", "peri0"}, m : 0 .. 1]
Core  == [src : {"osc24", "rc16", "pll"}, pll : {"off", "on", "free"}]
Usb   == [iso : SUBSET {"sys2usb", "usb2cpus"}, held : SUBSET {0, 1}]

\* Clock settings Linux may run in: the E902 on PERI0 and APBS1 on REF, as
\* ccu_init leaves them, and every PLL in use enabled; with them, regions the
\* trusted firmware may have set up.
Setting(p, v, a, c, r) ==
  [pll  |-> [q \in Plls |-> CASE q = "video" -> v [] q = "peri0" -> p [] OTHER -> "on"],
   bus  |-> [b \in Buses |-> CASE b = "cpus"  -> [src |-> "peri0", m |-> 0]
                               [] b = "apbs1" -> [src |-> "ref", m |-> 0]
                               [] b = "rv24"  -> [src |-> "osc24", m |-> 0]
                               [] b = "ahb"   -> a],
   core |-> c, smc |-> r]

UsableSettings ==
  {Setting("on", "on", [src |-> "osc24", m |-> 0], [src |-> "pll", pll |-> "on"], <<1, 1>>),
   Setting("free", "off", [src |-> "peri0", m |-> 1], [src |-> "pll", pll |-> "free"], <<2, 0>>)}

\* The checksum is on where the chip is secure: the two meet in no step.
Configs ==
  {c \in [dtb : BOOLEAN, hosc : BOOLEAN, crc : BOOLEAN, cut : Cuts, secure : BOOLEAN] :
     c.crc = c.secure /\ (c.dtb \/ (~c.hosc /\ ~c.crc /\ c.cut = {}))}

\* The registers Linux and the trusted firmware own, and RV_24M_CLK_REG.
Settings == [pll |-> pll, bus |-> bus, core |-> core, smc |-> smc]

-----------------------------------------------------------------------------
(* Clocks. *)

Output(setting) == setting \in {"on", "free"}

Runs(src) ==
  CASE src = "rc16"  -> TRUE
    [] src = "osc24" -> dcxo
    [] OTHER         -> dcxo /\ Output(pll[src])

\* The E902 executes only while its own clock runs.
Alive == Runs(bus["cpus"].src)

\* The tick and delay timers: PLL-REF, or the 32 kHz oscillator.
TimerRuns == tsrc = "k32" \/ Runs("ref")

-----------------------------------------------------------------------------
Init ==
  /\ pc = "idle" /\ off = {} /\ lost = {} /\ dcxo = TRUE /\ tsrc = "ref"
  /\ \E s \in UsableSettings : pll = s.pll /\ bus = s.bus /\ core = s.core /\ smc = s.smc
  /\ vector = "set"
  /\ usb = [iso |-> {}, held |-> {}]
  /\ twi = [lock |-> FALSE, div |-> "ref"]
  /\ bak = [pll |-> [p \in Plls |-> "off"], bus |-> [b \in Buses |-> [src |-> "osc24", m |-> 0]],
            flag |-> [b \in Buses |-> 0], core |-> [src |-> "osc24", pll |-> "off"],
            port |-> {}, type |-> FALSE, smc |-> <<0, 0>>, cal |-> FALSE]
  /\ dram = TRUE
  /\ cfg \in Configs
  /\ wakeup_source = NoWake /\ told = "none" /\ wait_restore = FALSE
  /\ fails = <<>> /\ result = "OK" /\ broken = {}
  /\ before = Settings
  /\ n = 0

Step(from, to) == Alive /\ pc = from /\ pc' = to

Failed(ok, what) ==
  /\ ok \/ Len(fails) < MaxFails
  /\ fails' = IF ok THEN fails ELSE Append(fails, what)

-----------------------------------------------------------------------------
(* cpu_op knows one operation; standby_entry is refused without the            *)
(* parameters of the DTB.                                                       *)

\* CPU0 runs from the DRAM when it asks.
Asked == Alive /\ Runs("ddr") /\ pc = "idle" /\ n < MaxTrans

Reject ==
  /\ Asked
  /\ \E standby \in BOOLEAN :
       LET why == IF standby THEN "EACCES" ELSE "EFAIL"
       IN  (standby => ~cfg.dtb) /\ result' = why /\ fails' = <<why>>
  /\ n' = n + 1
  /\ UNCHANGED <<pc, clocks, hw, bak, cfg, wakeup_source, told, wait_restore, broken, before>>

\* standby_entry, up to iosc_freq_init, which does nothing once it succeeded.
Entry ==
  /\ Asked /\ cfg.dtb
  /\ pc' = IF bak.cal THEN "type" ELSE "hosc"
  /\ told' = "none" /\ result' = "none" /\ fails' = <<>> /\ n' = n + 1
  /\ before' = Settings
  /\ UNCHANGED <<clocks, hw, bak, cfg, wakeup_source, wait_restore, broken>>

\* iosc_freq_init counts a delay on the crystal, then on the RC oscillator ...
Calibrate(from, to, src) ==
  /\ Step(from, to) /\ bus' = [bus EXCEPT !["cpus"].src = src]
  /\ UNCHANGED <<dcxo, tsrc, pll, core, hw, soft>>

\* ... and goes back to the source it read; a bad sample is not kept.
Calibrated ==
  /\ Step("cal", "type") /\ bus' = [bus EXCEPT !["cpus"].src = before.bus["cpus"].src]
  /\ \E valid \in BOOLEAN : bak' = [bak EXCEPT !.cal = valid]
  /\ UNCHANGED <<dcxo, tsrc, pll, core, hw, cfg, wakeup_source, told, wait_restore, fails, result,
                 broken, before, n>>

\* The standby type is read, the last transaction's reason discarded.
Prepare ==
  /\ Step("type", "cpu")
  /\ \E w \in BOOLEAN : bak' = [bak EXCEPT !.type = w]
  /\ wakeup_source' = NoWake
  /\ UNCHANGED <<clocks, hw, cfg, told, wait_restore, fails, result, broken, before, n>>

\* Between transactions Linux sets clocks as it likes.
Linux ==
  /\ pc = "idle" /\ off \subseteq {"auto", "stray"} /\ n > 0 /\ n < MaxTrans /\ broken = {} /\ cfg.dtb
  /\ \E s \in UsableSettings :
       LET b == [s.bus EXCEPT !["rv24"] = bus["rv24"]]
       IN  /\ Settings # [s EXCEPT !.bus = b]
           /\ pll' = s.pll /\ bus' = b /\ core' = s.core /\ smc' = s.smc
  /\ UNCHANGED <<pc, dcxo, tsrc, off, lost, usb, twi, dram, vector, soft>>

\* An enabled interrupt of a wakeup source, the wakeup timer or the NMI; it
\* ends a wfi it finds the E902 in.
Wake ==
  /\ Alive /\ pc # "idle" /\ (wakeup_source = NoWake \/ pc = "wfi")
  /\ wakeup_source' = "event"
  /\ pc' = IF pc = "wfi" THEN "wait" ELSE pc
  /\ UNCHANGED <<clocks, hw, bak, cfg, told, wait_restore, fails, result, broken, before, n>>

-----------------------------------------------------------------------------
(* standby_process_init. *)

CpuOff ==
  /\ Step("cpu", "device") /\ off' = off \cup {"cpu"}
  /\ UNCHANGED <<clocks, lost, usb, twi, dram, smc, vector, soft>>

\* The ports that support USB standby are read from the hardware, and the
\* regions of the SMC saved; time stamp, NMI, TWI and message box follow.
UsbSelects == {[p \in {0, 1} |-> x] : x \in {"standby", "normal"}}

DeviceSuspend ==
  /\ Step("device", "cpupll")
  /\ off' = off \cup {"msgbox"}
  /\ \E sel \in UsbSelects :
       bak' = [bak EXCEPT !.port = usb_standby_port_support(sel),
                          !.smc  = smc_standby_init(@, smc)]
  /\ UNCHANGED <<clocks, lost, usb, twi, dram, smc, vector, cfg, wakeup_source, told, wait_restore,
                 fails, result, broken, before, n>>

CpuPllOff ==
  /\ Step("cpupll", "dram")
  /\ bak' = [bak EXCEPT !.core = core]
  /\ core' = [src |-> "rc16", pll |-> "off"]
  /\ UNCHANGED <<dcxo, tsrc, pll, bus, hw, cfg, wakeup_source, told, wait_restore, fails,
                 result, broken, before, n>>

DramSuspend ==
  /\ Step("dram", "ccmu")
  /\ off' = off \cup {"dram"} /\ dram' = TRUE
  /\ UNCHANGED <<clocks, lost, usb, twi, smc, vector, soft>>

\* bus_clock_set(rc16m, ...): save once, then source, then divider; the
\* unsaved ones are written without it.
ToRc16(buses, unsaved) ==
  /\ bus' = [b \in Buses |-> IF b \in buses \cup unsaved THEN [src |-> "rc16", m |-> 0] ELSE bus[b]]
  /\ bak' = [bak EXCEPT !.bus  = [b \in Buses |-> IF b \in buses /\ bak.flag[b] = 0
                                                  THEN bus[b] ELSE bak.bus[b]],
                        !.flag = [b \in Buses |-> IF b \in buses THEN 1 ELSE bak.flag[b]]]

\* mutant: the flag stays set, so that the next transaction saves nothing.
BackKeepsFlag(buses) ==
  /\ bus' = [b \in Buses |->
               IF b \in buses /\ bak.flag[b] = 1
               THEN [src |-> bak.bus[b].src, m |-> IF bus[b].m = 1 THEN 1 ELSE bak.bus[b].m]
               ELSE bus[b]]
  /\ bak' = bak

\* bus_clock_set(clock_bak, ...): the divider is ORed in, then the source.
Back(buses) ==
  /\ bus' = [b \in Buses |->
               IF b \in buses /\ bak.flag[b] = 1
               THEN [src |-> bak.bus[b].src, m |-> IF bus[b].m = 1 THEN 1 ELSE bak.bus[b].m]
               ELSE bus[b]]
  /\ bak' = [bak EXCEPT !.flag = [b \in Buses |-> IF b \in buses THEN 0 ELSE bak.flag[b]]]

busOnly == <<dcxo, tsrc, pll, core, lost, usb, dram, smc, vector, cfg, wakeup_source, told, wait_restore,
             fails, result, broken, before, n>>

\* The E902's 24 MHz clock goes to RC16M as well, and is not saved.
CcmuSlow ==
  /\ Step("ccmu", "ctl")
  /\ ToRc16(Ccmu, {"rv24"})
  /\ UNCHANGED <<off, twi, busOnly>>

CtlOff ==
  /\ Step("ctl", "twireq") /\ off' = off \cup {"ctl"}
  /\ UNCHANGED <<clocks, lost, usb, twi, dram, smc, vector, soft>>

\* twi_clkchangecb(CCU_CLK_CLKCHG_REQ): the interface is locked.
TwiRequest(from, to) ==
  /\ Step(from, to) /\ twi' = [twi EXCEPT !.lock = TRUE]
  /\ UNCHANGED <<clocks, off, lost, usb, dram, smc, vector, soft>>

PrcmSlow == Step("prcm", "twidone") /\ ToRc16(Prcm, {}) /\ UNCHANGED <<off, twi, busOnly>>

\* mutant: the divider is left as it is.
TwiDoneStale(from, to) ==
  /\ Step(from, to) /\ twi' = [twi EXCEPT !.lock = FALSE]
  /\ UNCHANGED <<clocks, off, lost, usb, dram, smc, vector, soft>>

\* twi_clkchangecb(CCU_CLK_CLKCHG_DONE): twic_set_sclk reads APBS1's source.
TwiDone(from, to) ==
  /\ Step(from, to) /\ twi' = [lock |-> FALSE, div |-> bus["apbs1"].src]
  /\ UNCHANGED <<clocks, off, lost, usb, dram, smc, vector, soft>>

\* all_pll_set(pll_disable), then rv_low_power_mode, which nothing undoes.
PllOff ==
  /\ Step("pll", "dcxo")
  /\ bak' = [bak EXCEPT !.pll = pll]
  /\ pll' = [p \in Plls |-> "off"]
  /\ off' = off \cup {"auto"}
  /\ UNCHANGED <<dcxo, tsrc, bus, core, lost, usb, twi, dram, smc, vector, cfg, wakeup_source, told, wait_restore, fails,
                 result, broken, before, n>>

\* ccu_24mhosc_disable: the notifier moves the timers to 32 kHz, then the
\* crystal stops; ccu_24mhosc_enable is the reverse.
ccu_24mhosc_disable == dcxo' = FALSE /\ tsrc' = "k32"
ccu_24mhosc_enable  == dcxo' = TRUE /\ tsrc' = "ref"

\* dcxo_disable: only where the DTB lets the crystal stop.
DcxoOff ==
  /\ Step("dcxo", "sys")
  /\ IF cfg.hosc THEN ccu_24mhosc_disable ELSE UNCHANGED <<dcxo, tsrc>>
  /\ UNCHANGED <<pll, bus, core, hw, soft>>

\* usb_iso_suspend: isolate; keep the standby ports' clocks off and in reset.
UsbSuspended ==
  IF bak.type
  THEN [iso |-> usb.iso \cup {"sys2usb"}, held |-> usb.held \cup bak.port]
  ELSE [iso |-> usb.iso \cup {"sys2usb", "usb2cpus"}, held |-> usb.held]

\* usb_iso_resume.
UsbResumed ==
  IF bak.type
  THEN [iso |-> usb.iso \ {"sys2usb"}, held |-> usb.held \ bak.port]
  ELSE [iso |-> usb.iso \ {"sys2usb", "usb2cpus"}, held |-> usb.held]

SystemSuspend ==
  /\ Step("sys", "vccio") /\ off' = off \cup {"sys"} /\ usb' = UsbSuspended
  /\ UNCHANGED <<clocks, lost, twi, dram, smc, vector, soft>>

VccioOff ==
  /\ Step("vccio", "rails") /\ off' = off \cup {"vccio"}
  /\ UNCHANGED <<clocks, lost, usb, twi, dram, smc, vector, soft>>

\* What domains that were without power forget.
Lose(cut) ==
  /\ IF "cpu" \in cut
       THEN core' = [src |-> "osc24", pll |-> "off"] /\ vector' = "reset"
       ELSE UNCHANGED <<core, vector>>
  /\ IF "sys" \in cut
       THEN /\ pll'  = [p \in Plls |-> "off"]
            /\ bus'  = [b \in Buses |-> IF b \in Ccmu THEN [src |-> "osc24", m |-> 0] ELSE bus[b]]
            /\ lost' = {"access", "nsi", "smc"}
            /\ smc'  = [i \in DOMAIN smc |-> 0]
       ELSE UNCHANGED <<pll, bus, lost, smc>>

Rails(set) == off' = (off \ {"rails", "stray"}) \cup set

railsOnly == <<dcxo, tsrc, usb, twi, dram, bak, cfg, wakeup_source, told, result, broken,
               before, n>>

\* dm_suspend: every rail of the DTB is off and recorded, one that was off
\* without a record included.
RailsOff ==
  /\ Step("rails", "wait") /\ wait_restore' = TRUE
  /\ Rails(IF cfg.cut = {} THEN {} ELSE {"rails"})
  /\ Lose(cfg.cut)
  /\ UNCHANGED <<fails, railsOnly>>

\* Domains dm_suspend may have cut when a call fails: the masks are taken in
\* order, and the failing call may have reached the rail.
CutSoFar(cut) ==
  /\ cut \subseteq cfg.cut
  /\ \A i, j \in DOMAIN Domains : i < j /\ Domains[j] \in cut /\ Domains[i] \in cfg.cut => Domains[i] \in cut

\* ... or it fails: an earlier transaction's rails do not come back, or a
\* call fails on the way and the rollback switches on what was off, all of it
\* or not.  A rail that went off in the failing call is in no record.
RailsRefused ==
  /\ Step("rails", "rails+") /\ Failed(FALSE, "dm_suspend") /\ wait_restore' = FALSE
  /\ \E cut \in SUBSET cfg.cut, left \in SUBSET {"rails", "stray"} :
       /\ CutSoFar(cut)
       /\ cut = {} => left \subseteq off /\ ("stray" \in off => "stray" \in left)
       /\ Rails(left)
       /\ Lose(cut)
  /\ UNCHANGED railsOnly

\* mutant: the event is consumed, and the firmware dozes again.
WaitWakeupAgain ==
  /\ Step("wait", "doze") /\ wakeup_source' = NoWake
  /\ UNCHANGED <<clocks, hw, bak, cfg, told, wait_restore, fails, result, broken, before, n>>

\* wait_wakeup: the loop looks at wakeup_source ...
WaitWakeup ==
  /\ Alive /\ pc = "wait" /\ pc' = IF wakeup_source # NoWake THEN "rails+" ELSE "doze"
  /\ UNCHANGED <<clocks, hw, soft>>

\* ... and cpu_enter_doze waits for an interrupt: one that came since then is
\* over when the wfi begins.
Doze == Step("doze", "wfi") /\ UNCHANGED <<clocks, hw, soft>>

\* The tick ends the wfi, if its timer runs.
Tick ==
  /\ Step("wfi", "wait") /\ TimerRuns
  /\ UNCHANGED <<clocks, hw, soft>>

-----------------------------------------------------------------------------
(* standby_process_exit: every step runs, whatever failed before it. *)

resumeOnly == <<bak, cfg, wakeup_source, told, wait_restore, result, before, n>>

\* dm_resume: rails it cannot switch on stay off, and one it has no record of.
RailsOn(ok) ==
  /\ Step("rails+", "vccio+") /\ Failed(ok, "dm_resume")
  /\ off' = IF ok THEN off \ {"rails"} ELSE off
  /\ ok \/ "rails" \in off
  /\ broken' = IF ok THEN broken \ {"rails"} ELSE broken \cup {"rails"}
  /\ UNCHANGED <<clocks, lost, usb, twi, dram, smc, vector, resumeOnly>>

VccioOn ==
  /\ Step("vccio+", "dcxo+") /\ off' = off \ {"vccio"}
  /\ UNCHANGED <<clocks, lost, usb, twi, dram, smc, vector, soft>>

\* clk_resume_early, dcxo_enable.
DcxoOn ==
  /\ Step("dcxo+", "sys+")
  /\ IF cfg.hosc THEN ccu_24mhosc_enable ELSE UNCHANGED <<dcxo, tsrc>>
  /\ UNCHANGED <<pll, bus, core, hw, soft>>

SystemResume ==
  /\ Step("sys+", "ppu+") /\ off' = off \ {"sys"} /\ usb' = UsbResumed
  /\ UNCHANGED <<clocks, lost, twi, dram, smc, vector, soft>>

PpuResume(ok) ==
  /\ Step("ppu+", "pll+") /\ Failed(ok, "ppu")
  /\ UNCHANGED <<clocks, hw, broken, resumeOnly>>

\* The PLLs whose lock is waited for.
Locking(p) == bak.pll[p] \in {"on", "gated"}

\* all_pll_set(pll_enable), every lock seen: saved settings, outputs last.
PllOn ==
  /\ Step("pll+", "twireq+") /\ pll' = bak.pll
  /\ UNCHANGED <<dcxo, tsrc, bus, core, hw, soft>>

\* ... and the i-th never locks: the ones after it stay as they are, no
\* output of a PLL whose lock is waited for is opened.
PllTimeout(i) ==
  /\ Step("pll+", "twireq+") /\ Locking(PllOrder[i])
  /\ pll' = [p \in Plls |-> LET k == CHOOSE j \in DOMAIN PllOrder : PllOrder[j] = p
                            IN  IF k > i THEN pll[p]
                                ELSE IF Locking(p) THEN "gated" ELSE bak.pll[p]]
  /\ Failed(FALSE, "pll") /\ broken' = broken \cup {"pll"}
  /\ UNCHANGED <<dcxo, tsrc, bus, core, hw, resumeOnly>>

PrcmBack == Step("prcm+", "twidone+") /\ Back(Prcm) /\ UNCHANGED <<off, twi, busOnly>>

CtlOn ==
  /\ Step("ctl+", "ccmu+") /\ off' = off \ {"ctl"}
  /\ UNCHANGED <<clocks, lost, usb, twi, dram, smc, vector, soft>>

CcmuBack == Step("ccmu+", "access+") /\ Back(Ccmu) /\ UNCHANGED <<off, twi, busOnly>>

AccessOn ==
  /\ Step("access+", "dram+") /\ lost' = lost \ {"access"}
  /\ UNCHANGED <<clocks, off, usb, twi, dram, smc, vector, soft>>

\* dram_resume: the content survived or not; only the checksum tells.
DramResume(intact) ==
  /\ Step("dram+", "nsi+")
  /\ off' = off \ {"dram"} /\ dram' = intact
  /\ Failed(intact \/ ~cfg.crc, "dram")
  /\ UNCHANGED <<clocks, lost, usb, twi, smc, vector, broken, resumeOnly>>

NsiResume ==
  /\ Step("nsi+", "cpupll+") /\ lost' = lost \ {"nsi"}
  /\ UNCHANGED <<clocks, off, usb, twi, dram, smc, vector, soft>>

\* mutant: a CPU PLL that does not lock is used all the same.
CpuPllTimeoutGoesOn ==
  /\ Step("cpupll+", "device+") /\ bak.core.pll = "on"
  /\ core' = [src |-> bak.core.src, pll |-> "off"] /\ Failed(FALSE, "cpupll")
  /\ UNCHANGED <<dcxo, tsrc, pll, bus, hw, broken, resumeOnly>>

\* cpu_pll_on gives up before it touches the clock selection.
CpuPllTimeout ==
  /\ Step("cpupll+", "device+") /\ bak.core.pll = "on"
  /\ Failed(FALSE, "cpupll")
  /\ UNCHANGED <<clocks, hw, broken, resumeOnly>>

CpuPllOn ==
  /\ Step("cpupll+", "device+") /\ core' = bak.core
  /\ UNCHANGED <<dcxo, tsrc, pll, bus, hw, soft>>

\* device_resume: message box, TWI, NMI, SMC, time stamp, USB ports.  A secure
\* chip whose SMC is still bypassed is an error, and its regions stay lost.
DeviceResume(ok) ==
  /\ Step("device+", "vector+") /\ Failed(ok, "smc") /\ (ok \/ cfg.secure)
  /\ off' = off \ {"msgbox"}
  /\ lost' = IF ok THEN lost \ {"smc"} ELSE lost
  /\ smc' = IF cfg.secure /\ ok THEN smc_standby_exit(bak.smc, smc) ELSE smc
  /\ bak' = [bak EXCEPT !.port = {}]
  /\ UNCHANGED <<clocks, usb, twi, dram, vector, cfg, wakeup_source, told, wait_restore, result,
                 broken, before, n>>

\* cpucfg_cpu_resume: CPU0's start address and state, then its power.
CpuVector ==
  /\ Step("vector+", "cpu+") /\ vector' = "set"
  /\ UNCHANGED <<clocks, off, lost, usb, twi, dram, smc, soft>>

CpuOn ==
  /\ Step("cpu+", "restore+") /\ off' = off \ {"cpu"}
  /\ UNCHANGED <<clocks, lost, usb, twi, dram, smc, vector, soft>>

Result == IF fails' = <<>> THEN "OK" ELSE fails'[1]

leave == <<clocks, hw, bak, cfg, wait_restore, broken, before, n>>

\* mutant: the reason is cleared first.
ToldLate ==
  /\ Step("restore+", "idle") /\ wait_restore
  /\ told' = NoWake /\ wakeup_source' = NoWake /\ UNCHANGED fails /\ result' = Result
  /\ UNCHANGED leave

\* wait_cpu0_resume: CPU0 asks, and is given the wakeup source.
Told ==
  /\ Step("restore+", "idle") /\ wait_restore
  /\ told' = wakeup_source /\ wakeup_source' = NoWake /\ UNCHANGED fails /\ result' = Result
  /\ UNCHANGED leave

\* CPU0 never asks, or the answer is not taken.
NotTold ==
  /\ Step("restore+", "idle") /\ wait_restore
  /\ wakeup_source' = NoWake /\ Failed(FALSE, "cpu0") /\ result' = Result
  /\ UNCHANGED <<told, leave>>

\* After a refused suspend nobody is told; the suspend's error is returned.
Recovered ==
  /\ Step("restore+", "idle") /\ ~wait_restore
  /\ wakeup_source' = NoWake /\ UNCHANGED fails /\ result' = Result
  /\ UNCHANGED <<told, leave>>

-----------------------------------------------------------------------------
Suspend ==
  \/ CpuOff \/ DeviceSuspend \/ CpuPllOff \/ DramSuspend \/ CcmuSlow \/ CtlOff
  \/ TwiRequest("twireq", "prcm") \/ PrcmSlow \/ TwiDone("twidone", "pll")
  \/ PllOff \/ DcxoOff \/ SystemSuspend \/ VccioOff
  \/ RailsOff \/ RailsRefused

Resume ==
  \/ \E ok \in BOOLEAN : RailsOn(ok) \/ PpuResume(ok) \/ DramResume(ok) \/ DeviceResume(ok)
  \/ VccioOn \/ DcxoOn \/ SystemResume \/ PllOn \/ \E i \in DOMAIN PllOrder : PllTimeout(i)
  \/ TwiRequest("twireq+", "prcm+") \/ PrcmBack \/ TwiDone("twidone+", "ctl+")
  \/ CtlOn \/ CcmuBack \/ AccessOn \/ NsiResume \/ CpuPllOn \/ CpuPllTimeout
  \/ CpuVector \/ CpuOn \/ Told \/ NotTold \/ Recovered

Prologue ==
  \/ Calibrate("hosc", "iosc", "osc24") \/ Calibrate("iosc", "cal", "rc16") \/ Calibrated \/ Prepare

Wait == WaitWakeup \/ Doze \/ Tick

Next == Reject \/ Entry \/ Prologue \/ Linux \/ Wake \/ Suspend \/ Wait \/ Resume

\* The firmware keeps executing while its clock runs, and a timer that runs
\* ticks; nothing makes Linux ask for standby, change clocks, or a wakeup
\* event happen.
Spec == Init /\ [][Next]_vars /\ WF_vars(Prologue \/ Suspend \/ Wait \/ Resume)

-----------------------------------------------------------------------------
\* The E902 never cuts its own clock, nor leaves a bus without one: a source
\* is given up before it stops and taken back after it runs (the buses of the
\* system domain matter while it is out of reset).  Only a PLL that
\* failed to lock (all_pll_set returns early, clk_resume goes on) leaves a bus
\* on a dead source.
ClocksRun ==
  \A b \in Buses : Runs(bus[b].src) \/ "pll" \in broken \/ (b \in Ccmu /\ "sys" \in off)

\* Every PMIC transfer of the transaction (dm_suspend, dm_resume) finds the
\* TWI unlocked, its divider computed for the clock APBS1 really has, and that
\* clock running.
RailsReachable ==
  pc \in {"rails", "rails+"} => /\ ~twi.lock /\ twi.div = bus["apbs1"].src
                                /\ Runs(bus["apbs1"].src)

\* time_mdelay ends at every place of the transaction that uses it: the timer
\* it programs runs, or the 24 MHz counter of its deadline does.
DelayEnds ==
  pc \in {"twidone", "pll", "dcxo+", "sys+", "twidone+", "ctl+", "cpupll+"} => TimerRuns \/ dcxo

\* So the transaction never stops what it is running on: the E902, the buses,
\* the TWI and the delays have their clocks at every step.
Clocked == ClocksRun /\ RailsReachable /\ DelayEnds

\* The system domain is isolated whenever its rails are off; only rails that
\* dm_resume could not switch on are let through, and one it has no record of.
Isolation ==
  "rails" \in off => "sys" \in off \/ "rails" \in broken

\* The DRAM is in self-refresh whenever its PLL, its bus clocks or its rails
\* are not there.
DramSafe ==
  \/ "dram" \in off
  \/ /\ "ctl" \notin off
     /\ Runs("ddr") \/ "pll" \in broken
     /\ "rails" \notin off \/ "rails" \in broken

\* CPU0 runs only on a system that is up, from a clock that runs, whatever
\* failed on the way.
CpuSafe ==
  "cpu" \notin off =>
     /\ off \subseteq {"rails", "stray", "auto"} /\ {"access", "nsi"} \cap lost = {}
     /\ usb = [iso |-> {}, held |-> {}]
     /\ core.src = "pll" => Output(core.pll)
     /\ vector = "set"

\* So no domain is used without its power, its clock or its contents.
Powered == Isolation /\ DramSafe /\ CpuSafe

\* After a transaction in which nothing failed on the way back, every clock of
\* Linux is what it was at the request (Linux alone changes them in between),
\* and the timers are back on PLL-REF, also when the settings changed since
\* the transaction before, and when dm_suspend failed at any rail.  On a
\* secure chip the SMC's regions in use come back too (up to the first unused
\* one: what was set behind it is not saved, and an older save may reappear
\* there).  What does not come back: RV_24M_CLK_REG stays on RC16M, the bits
\* of rv_low_power_mode stay set, and a rail that went off in the failing call
\* of dm_suspend stays off until a transaction that cuts it again.
Restored ==
  [][(pc # "idle" /\ pc' = "idle" /\ cfg.dtb /\ fails' \in {<<>>, <<"dm_suspend">>, <<"cpu0">>}) =>
       /\ pll' = before.pll /\ core' = before.core
       /\ bus' = [before.bus EXCEPT !["rv24"] = [src |-> "rc16", m |-> 0]]
       /\ cfg.secure => \A i \in DOMAIN smc : InUse(before.smc, i) => smc'[i] = before.smc[i]
       /\ tsrc' = "ref" /\ dcxo' /\ lost' = {}
       /\ off' = {"auto"} \/ (off' = {"auto", "stray"} /\ fails' = <<"dm_suspend">>)
       /\ twi' = [lock |-> FALSE, div |-> bus'["apbs1"].src]
       /\ \A b \in Buses : bak'.flag[b] = 0]_vars

\* The transaction returns its earliest failure, and OK only when every step
\* worked: the DRAM then is what it was if the checksum is on, and CPU0 was
\* told a real wakeup source.
Honest ==
  pc = "idle" /\ n > 0 =>
     /\ result = IF fails = <<>> THEN "OK" ELSE fails[1]
     /\ result = "OK" => /\ ~cfg.crc \/ dram
                         /\ told \notin {"none", NoWake}
                         /\ wakeup_source = NoWake

\* A wakeup event in standby brings the system back, and a refused suspend
\* comes back without one, unless a PLL never locks.  An event between the
\* look at wakeup_source and the wfi is noticed at the next tick: with the
\* crystal kept on (osc24m-on) the tick's PLL is off, and there is none.
Returns ==
  (\/ pc = "wait" /\ wakeup_source # NoWake
   \/ pc \in {"doze", "wfi"} /\ wakeup_source # NoWake /\ cfg.hosc
   \/ pc # "idle" /\ fails # <<>> /\ fails[1] = "dm_suspend")
  ~> (pc = "idle" \/ "pll" \in broken)

=============================================================================
