---------------------------- MODULE StandbyProofs ----------------------------
(***************************************************************************)
(* Proofs about Standby, for any number of transactions and of failing     *)
(* steps.  The inductive invariant IInv says what is down, saved and       *)
(* running at each step of standby_process_init and standby_process_exit,  *)
(* in terms of the settings the transaction began with.                    *)
(***************************************************************************)
EXTENDS Standby, TLAPS

\* The steps of a transaction, cut where something is given up or taken back.
Opening  == {"hosc", "iosc", "cal", "type"}
ToDevice == {"hosc", "iosc", "cal", "type", "cpu", "device"}
ToDram   == {"cpupll", "dram"}
ToPrcm   == {"ccmu", "ctl", "twireq", "prcm"}
ToPll    == {"twidone", "pll"}
ToDeep   == {"dcxo", "sys"}
Waiting  == {"wait", "doze", "wfi"}
Deep     == {"vccio", "rails", "wait", "doze", "wfi", "rails+", "vccio+", "dcxo+", "sys+"}
FromDeep == {"ppu+", "pll+"}
FromPll  == {"twireq+", "prcm+"}
FromPrcm == {"twidone+", "ctl+", "ccmu+"}
FromCcmu == {"access+", "dram+"}
FromDram == {"nsi+", "cpupll+"}
FromCpu  == {"device+", "vector+", "cpu+", "restore+"}

Down == ToDevice \cup ToDram \cup ToPrcm \cup ToPll \cup ToDeep
Up   == FromDeep \cup FromPll \cup FromPrcm \cup FromCcmu \cup FromDram \cup FromCpu
Pcs  == {"idle"} \cup Down \cup Deep \cup Up

Failures == {"EACCES", "EFAIL", "dm_suspend", "dm_resume", "ppu", "pll", "dram", "cpupll",
             "smc", "cpu0"}

PllState == {"off", "on", "free", "gated"}
Regions  == 1 .. 2

Bak == [pll : [Plls -> PllState], bus : [Buses -> Clock], flag : [Buses -> {0, 1}], core : Core,
        port : SUBSET {0, 1}, type : BOOLEAN, smc : [Regions -> Nat], cal : BOOLEAN]

TypeOK ==
  /\ pc \in Pcs /\ off \subseteq Parts /\ lost \subseteq {"access", "nsi", "smc"}
  /\ dcxo \in BOOLEAN /\ dram \in BOOLEAN /\ wait_restore \in BOOLEAN
  /\ pll \in [Plls -> PllState] /\ bus \in [Buses -> Clock]
  /\ core \in Core /\ smc \in [Regions -> Nat] /\ bak \in Bak
  /\ before.bus \in [Buses -> Clock]
  /\ fails \in Seq(Failures) /\ n \in Nat

\* A step of this transaction that failed.
FailedIn(what) == \E i \in 1 .. Len(fails) : fails[i] = what

\* What is down at each step.
OffInv ==
  /\ "cpu" \in off <=> pc \notin {"idle", "cpu", "restore+"} \cup Opening
  /\ "msgbox" \in off <=> pc \notin {"idle", "vector+", "cpu+", "restore+"} \cup ToDevice
  /\ "dram" \in off <=> pc \in ToPrcm \cup ToPll \cup ToDeep \cup Deep
                               \cup FromDeep \cup FromPll \cup FromPrcm \cup FromCcmu
  /\ "ctl" \in off <=> pc \in {"twireq", "prcm"} \cup ToPll \cup ToDeep \cup Deep
                              \cup FromDeep \cup FromPll \cup {"twidone+", "ctl+"}
  /\ "sys" \in off <=> pc \in Deep
  /\ "vccio" \in off <=> pc \in {"rails", "rails+", "vccio+"} \cup Waiting
  /\ "rails" \in off => "rails" \in broken \/ pc \in {"rails+"} \cup Waiting
  /\ "rails" \in off /\ pc \in {"vccio+", "dcxo+", "sys+"} \cup Up => FailedIn("dm_resume")
  /\ pc \in ToDeep \cup Deep \cup Up => "auto" \in off
  /\ "stray" \in off /\ pc \in {"rails+", "vccio+", "dcxo+", "sys+"} \cup Waiting \cup Up =>
       FailedIn("dm_suspend")

\* What a domain without power forgot comes back before CPU0 does.
LostInv ==
  /\ "access" \in lost => pc \in Deep \cup FromDeep \cup FromPll \cup FromPrcm \cup {"access+"}
  /\ "nsi" \in lost =>
       pc \in Deep \cup FromDeep \cup FromPll \cup FromPrcm \cup FromCcmu \cup {"nsi+"}
  /\ "smc" \in lost /\ pc \in {"vector+", "cpu+", "restore+"} => FailedIn("smc")
  /\ pc \in {"cpu+", "restore+", "idle", "cpu"} \cup Opening => vector = "set"
  /\ usb = IF pc \notin Deep THEN [iso |-> {}, held |-> {}]
           ELSE IF bak.type THEN [iso |-> {"sys2usb"}, held |-> bak.port]
           ELSE [iso |-> {"sys2usb", "usb2cpus"}, held |-> {}]

\* The crystal and the timers that follow it.
DcxoInv ==
  /\ dcxo \/ tsrc = "k32"
  /\ pc \notin Deep \cup {"sys"} \/ pc = "sys+" \/ ~cfg.hosc => dcxo /\ tsrc = "ref"

\* Settings that work: DRAM and every bus have a source that runs.
Works(p, b) ==
  /\ Output(p["ddr"])
  /\ \A x \in Buses : b[x].src \in {"osc24", "rc16"} \/ (b[x].src \in Plls /\ Output(p[b[x].src]))

\* The PLLs and the two groups of buses: as at the request, or saved as such.
PllInv ==
  /\ FailedIn("pll") => "pll" \in broken
  /\ "pll" \in broken \/ IF pc = "idle" THEN Works(pll, bus) ELSE Works(before.pll, before.bus)
  /\ pc \in ToDevice \cup ToDram \cup ToPrcm \cup ToPll => pll = before.pll
  /\ pc \in ToDeep \cup Deep \cup FromDeep => bak.pll = before.pll
  /\ pc \in FromPll \cup FromPrcm \cup FromCcmu \cup FromDram \cup FromCpu =>
       pll = before.pll \/ FailedIn("pll")

Kept(buses) == \A b \in buses : bus[b] = before.bus[b] /\ bak.flag[b] = 0

Slow(buses) ==
  \A b \in buses : /\ bus[b].m = 0 /\ bak.flag[b] = 1 /\ bak.bus[b] = before.bus[b]
                   /\ bus[b].src = "rc16" \/ (b \in Ccmu /\ bus[b].src = "osc24" /\ pc \notin Down)

\* The steps at which a group of buses runs as it did at the request.
PrcmKept == {"cpu", "device"} \cup ToDram \cup ToPrcm \cup FromPrcm \cup FromCcmu \cup FromDram \cup FromCpu
CcmuKept == {"cpu", "device"} \cup ToDram \cup {"ccmu"} \cup FromCcmu \cup FromDram \cup FromCpu

\* While the RC oscillator is measured the E902 is moved from clock to clock.
OpenInv ==
  pc \in Opening =>
    /\ Kept({"ahb", "apbs1"}) /\ bak.flag["cpus"] = 0 /\ bus["cpus"].m = before.bus["cpus"].m
    /\ bus["cpus"].src = IF pc = "iosc" THEN "osc24" ELSE IF pc = "cal" THEN "rc16"
                         ELSE before.bus["cpus"].src

\* The steps before RV_24M_CLK_REG is written; it is never saved.
Early24 == {"idle", "ccmu"} \cup ToDevice \cup ToDram

Rv24Inv ==
  /\ bak.flag["rv24"] = 0
  /\ bus["rv24"] = [src |-> "rc16", m |-> 0] \/ (bus["rv24"].src = "osc24" /\ pc \in Early24)

BusInv ==
  /\ pc \notin {"idle"} \cup Opening => IF pc \in PrcmKept THEN Kept(Prcm) ELSE Slow(Prcm)
  /\ pc \notin {"idle"} \cup Opening => IF pc \in CcmuKept THEN Kept(Ccmu) ELSE Slow(Ccmu)
  /\ pc = "idle" => \A b \in Buses : bak.flag[b] = 0
  /\ pc \in {"pll"} \cup ToDeep \cup Deep \cup FromDeep \cup {"twireq+"} =>
       twi = [lock |-> FALSE, div |-> "rc16"]
  /\ pc \in {"ctl+", "ccmu+"} \cup FromCcmu \cup FromDram \cup FromCpu =>
       twi = [lock |-> FALSE, div |-> bus["apbs1"].src]

\* CPU0's clock.
Usable(c) == c.src = "pll" => Output(c.pll)

CoreInv ==
  /\ Usable(core)
  /\ pc \in ToDevice \cup {"cpupll"} => core = before.core
  /\ pc \notin {"idle", "cpupll"} \cup ToDevice \cup FromCpu => bak.core = before.core /\ Usable(bak.core)
  /\ pc \in FromCpu => core = before.core \/ FailedIn("cpupll")

\* The regions of the memory protection that were in use.
SmcInv ==
  /\ pc \in ToDevice => smc = before.smc
  /\ pc # "idle" => before.smc \in [Regions -> Nat]
  /\ pc \notin {"idle", "vector+", "cpu+", "restore+"} \cup ToDevice =>
       \A i \in Regions : InUse(before.smc, i) => bak.smc[i] = before.smc[i]
  /\ pc \in {"vector+", "cpu+", "restore+"} /\ cfg.secure =>
       FailedIn("smc") \/ \A i \in Regions : InUse(before.smc, i) => smc[i] = before.smc[i]

\* What the result will be made of.
ResultInv ==
  /\ pc \in {"rails+", "vccio+", "dcxo+", "sys+"} \cup Up =>
       IF wait_restore THEN wakeup_source # NoWake ELSE fails # <<>>
  /\ wakeup_source # "none"
  /\ pc \in Waiting => wait_restore
  /\ pc \in FromDram \cup FromCpu /\ cfg.crc => dram \/ fails # <<>>
  /\ Honest

IInv == /\ TypeOK /\ OffInv /\ LostInv /\ DcxoInv /\ PllInv
        /\ OpenInv /\ Rv24Inv /\ BusInv /\ CoreInv /\ SmcInv /\ ResultInv

-----------------------------------------------------------------------------
(***************************************************************************)
(* A step that may fail leaves a record if it does, and forgets none.      *)
(***************************************************************************)
LEMMA FailedRecords ==
  ASSUME fails \in Seq(Failures), NEW ok \in BOOLEAN, NEW what \in Failures, Failed(ok, what)
  PROVE  /\ fails' \in Seq(Failures)
         /\ \A w : FailedIn(w) => FailedIn(w)'
         /\ \A w : FailedIn(w)' => FailedIn(w) \/ (~ok /\ w = what)
         /\ ok => fails' = fails
         /\ ~ok => FailedIn(what)' /\ fails' # <<>>
         /\ fails # <<>> => fails' # <<>>
<1>1. CASE ok
  BY <1>1 DEF Failed, FailedIn
<1>2. CASE ~ok
  <2>1. /\ fails' = Append(fails, what) /\ fails' \in Seq(Failures)
        /\ Len(fails') = Len(fails) + 1 /\ Len(fails) \in Nat
        /\ \A i \in 1 .. Len(fails) : fails'[i] = fails[i]
        /\ fails'[Len(fails) + 1] = what
    BY <1>2 DEF Failed
  <2>2. fails' # <<>>
    BY <2>1
  <2>3. FailedIn(what)'
    <3>1. Len(fails) + 1 \in 1 .. Len(fails')
      BY <2>1
    <3> QED BY <2>1, <3>1 DEF FailedIn
  <2>4. \A w : FailedIn(w) => FailedIn(w)'
    BY <2>1 DEF FailedIn
  <2>5. \A w : FailedIn(w)' => FailedIn(w) \/ w = what
    <3> SUFFICES ASSUME NEW w, NEW i \in 1 .. Len(fails'), fails'[i] = w, w # what
                 PROVE  FailedIn(w)
      BY DEF FailedIn
    <3>1. i \in 1 .. Len(fails)
      BY <2>1
    <3> QED BY <2>1, <3>1 DEF FailedIn
  <2> QED BY <1>2, <2>1, <2>2, <2>3, <2>4, <2>5
<1> QED BY <1>1, <1>2

\* The PLLs and buses the transaction handles; a bus is on one of the two clock
\* controllers.
LEMMA Names ==
  /\ Plls = {"ref", "ddr", "peri0", "video"} /\ Buses = {"ahb", "cpus", "apbs1", "rv24"}
  /\ Prcm \cap Ccmu = {}
<1>1. DOMAIN PllOrder = 1 .. 4
  BY DEF PllOrder
<1>2. Plls = {"ref", "ddr", "peri0", "video"}
  BY <1>1 DEF Plls, PllOrder
<1> QED BY <1>2 DEF Buses, Ccmu, Prcm

(***************************************************************************)
(* Within a transaction no failure is forgotten, and each step that can    *)
(* fail records it under its own name.                                     *)
(***************************************************************************)
LEMMA StepFails ==
  ASSUME TypeOK, Suspend \/ Wake \/ Wait \/ Prologue \/ Resume \/ Linux
  PROVE  /\ fails' \in Seq(Failures)
         /\ \A w : FailedIn(w) => FailedIn(w)'
         /\ fails # <<>> => fails' # <<>>
         /\ FailedIn("pll")' => FailedIn("pll") \/ "pll" \in broken'
<1>0. fails \in Seq(Failures)
  BY DEF TypeOK
<1>a. ASSUME fails' = fails
      PROVE  /\ fails' \in Seq(Failures) /\ \A w : FailedIn(w) <=> FailedIn(w)'
             /\ fails # <<>> => fails' # <<>>
  BY <1>0, <1>a DEF FailedIn
<1>b. ASSUME NEW ok \in BOOLEAN, NEW what \in Failures, Failed(ok, what)
      PROVE  /\ fails' \in Seq(Failures)
             /\ \A w : FailedIn(w) => FailedIn(w)'
             /\ \A w : FailedIn(w)' => FailedIn(w) \/ (~ok /\ w = what)
             /\ ~ok => FailedIn(what)' /\ fails' # <<>>
             /\ fails # <<>> => fails' # <<>>
  BY <1>0, <1>b, FailedRecords
<1>1. CASE \E ok \in BOOLEAN, what \in Failures \ {"pll"} : Failed(ok, what)
  BY <1>1, <1>b
<1>2. CASE \E i \in DOMAIN PllOrder : PllTimeout(i)
  <2>1. Failed(FALSE, "pll") /\ "pll" \in broken'
    BY <1>2 DEF PllTimeout
  <2> QED BY <2>1, <1>b DEF Failures
<1>3. CASE fails' = fails
  BY <1>3, <1>a
<1>4. \/ fails' = fails
      \/ \E i \in DOMAIN PllOrder : PllTimeout(i)
      \/ \E ok \in BOOLEAN, what \in Failures \ {"pll"} : Failed(ok, what)
  <2>1. CASE Suspend
    BY <2>1 DEF Suspend, CpuOff, DeviceSuspend, CpuPllOff, DramSuspend, CcmuSlow, CtlOff,
      TwiRequest, PrcmSlow, TwiDone, PllOff, DcxoOff, SystemSuspend, VccioOff, RailsOff,
      RailsRefused, busOnly, soft, Failures
  <2>2. CASE Wake \/ Wait \/ Prologue \/ Linux
    BY <2>2 DEF Wake, Wait, WaitWakeup, Doze, Tick, Prologue, Calibrate, Calibrated, Prepare, Linux, soft
  <2>3. CASE Resume
    BY <2>3 DEF Resume, RailsOn, PpuResume, DramResume, DeviceResume, VccioOn, DcxoOn,
      SystemResume, PllOn, TwiRequest, PrcmBack, TwiDone, CtlOn, CcmuBack, AccessOn, NsiResume,
      CpuPllOn, CpuPllTimeout, CpuVector, CpuOn, Told, NotTold, Recovered, soft, busOnly, Failures
  <2> QED BY <2>1, <2>2, <2>3
<1> QED BY <1>1, <1>2, <1>3, <1>4

\* ... under the name of the step that failed.
LEMMA FailNames ==
  ASSUME TypeOK
  PROVE  /\ RailsRefused => fails' # <<>> /\ FailedIn("dm_suspend")'
         /\ RailsOn(FALSE) => FailedIn("dm_resume")'
         /\ (\E i \in DOMAIN PllOrder : PllTimeout(i)) => FailedIn("pll")'
         /\ DramResume(FALSE) /\ cfg.crc => fails' # <<>>
         /\ CpuPllTimeout => FailedIn("cpupll")'
         /\ DeviceResume(FALSE) => FailedIn("smc")'
<1>1. ASSUME NEW what \in Failures, Failed(FALSE, what)
      PROVE  FailedIn(what)' /\ fails' # <<>>
  BY <1>1, FailedRecords DEF TypeOK
<1>2. DramResume(FALSE) /\ cfg.crc => Failed(FALSE, "dram")
  BY DEF DramResume, Failed
<1> QED BY <1>1, <1>2 DEF RailsRefused, RailsOn, PllTimeout, CpuPllTimeout, DeviceResume, Failures

-----------------------------------------------------------------------------
(* Preservation of the parts of the invariant, step by step.                 *)

\* The steps of Resume without an outcome.
ResumeRest ==
  \/ VccioOn \/ DcxoOn \/ SystemResume \/ PllOn \/ \E i \in DOMAIN PllOrder : PllTimeout(i)
  \/ TwiRequest("twireq+", "prcm+") \/ PrcmBack \/ TwiDone("twidone+", "ctl+")
  \/ CtlOn \/ CcmuBack \/ AccessOn \/ NsiResume \/ CpuPllOn \/ CpuPllTimeout
  \/ CpuVector \/ CpuOn \/ Told \/ NotTold \/ Recovered

(***************************************************************************)
(* The settings Linux may run in work.                                     *)
(***************************************************************************)
LEMMA UsableWorks ==
  ASSUME NEW s \in UsableSettings
  PROVE  /\ s.pll \in [Plls -> PllState] /\ s.bus \in [Buses -> Clock] /\ s.smc \in [Regions -> Nat]
         /\ Works(s.pll, s.bus) /\ Usable(s.core) /\ s.bus["rv24"].src = "osc24"
<1>1. PICK p \in {"on", "free"}, v \in {"off", "on", "free"}, a \in Clock, c \in Core, r \in [Regions -> Nat] :
        /\ s = Setting(p, v, a, c, r) /\ a.src \in {"osc24", "peri0"} /\ Usable(c)
  <2> DEFINE a1 == [src |-> "osc24", m |-> 0]
             a2 == [src |-> "peri0", m |-> 1]
             c1 == [src |-> "pll", pll |-> "on"]
             c2 == [src |-> "pll", pll |-> "free"]
  <2>1. {a1, a2} \subseteq Clock /\ {c1, c2} \subseteq Core
    BY DEF Clock, Core
  <2>2. Usable(c1) /\ Usable(c2)
    BY DEF Usable, Output
  <2>3. <<1, 1>> \in [Regions -> Nat] /\ <<2, 0>> \in [Regions -> Nat]
    BY DEF Regions
  <2>4. a1.src = "osc24" /\ a2.src = "peri0"
    OBVIOUS
  <2>5. \/ s = Setting("on", "on", a1, c1, <<1, 1>>)
        \/ s = Setting("free", "off", a2, c2, <<2, 0>>)
    BY DEF UsableSettings
  <2> HIDE DEF a1, a2, c1, c2
  <2> QED BY <2>1, <2>2, <2>3, <2>4, <2>5
<1>2. /\ s.pll = [q \in Plls |-> CASE q = "video" -> v [] q = "peri0" -> p [] OTHER -> "on"]
      /\ s.bus = [b \in Buses |-> CASE b = "cpus"  -> [src |-> "peri0", m |-> 0]
                                    [] b = "apbs1" -> [src |-> "ref", m |-> 0]
                                    [] b = "rv24"  -> [src |-> "osc24", m |-> 0]
                                    [] b = "ahb"   -> a]
      /\ s.core = c /\ s.smc = r
  BY <1>1 DEF Setting
<1>3. /\ s.pll["ddr"] = "on" /\ s.pll["ref"] = "on" /\ s.pll["peri0"] = p /\ s.pll["video"] = v
      /\ s.bus["cpus"] = [src |-> "peri0", m |-> 0] /\ s.bus["apbs1"] = [src |-> "ref", m |-> 0]
      /\ s.bus["ahb"] = a /\ s.bus["rv24"] = [src |-> "osc24", m |-> 0]
  BY <1>2, Names
<1>4. s.pll \in [Plls -> PllState] /\ s.bus \in [Buses -> Clock]
  BY <1>1, <1>2, <1>3, Names DEF PllState, Clock
<1>5. Works(s.pll, s.bus)
  BY <1>1, <1>3, Names DEF Works, Output
<1>6. s.bus["rv24"].src = "osc24"
  BY <1>3
<1> QED BY <1>1, <1>2, <1>4, <1>5, <1>6

USE DEF Step, Asked, clocks, hw, soft, busOnly, railsOnly, resumeOnly, leave

(***************************************************************************)
(* Who writes which part of what is saved.                                 *)
(***************************************************************************)
LEMMA SavedBy ==
  ASSUME TypeOK, [Next]_vars
  PROVE  /\ bak' \in Bak
         /\ PllOff \/ bak'.pll = bak.pll
         /\ CpuPllOff \/ bak'.core = bak.core
         /\ DeviceSuspend \/ bak'.smc = bak.smc
         /\ CcmuSlow \/ PrcmSlow \/ bak'.bus = bak.bus
         /\ CcmuSlow \/ PrcmSlow \/ CcmuBack \/ PrcmBack \/ bak'.flag = bak.flag
         /\ bak'.port = bak.port \/ pc \in {"device", "device+"}
         /\ bak'.type = bak.type \/ pc = "type"
<1>0. /\ bak \in Bak /\ pll \in [Plls -> PllState] /\ bus \in [Buses -> Clock] /\ core \in Core
      /\ smc \in [Regions -> Nat]
  BY DEF TypeOK
<1>1. CASE UNCHANGED bak
  BY <1>0, <1>1
<1>2. CASE Calibrated \/ Prepare
  <2>1. CASE Calibrated
    <3>1. PICK w \in BOOLEAN : bak' = [bak EXCEPT !.cal = w]
      BY <2>1 DEF Calibrated
    <3> QED BY <1>0, <3>1 DEF Bak
  <2>2. CASE Prepare
    <3>1. PICK w \in BOOLEAN : bak' = [bak EXCEPT !.type = w]
      BY <2>2 DEF Prepare
    <3> QED BY <1>0, <2>2, <3>1 DEF Bak, Prepare
  <2> QED BY <1>2, <2>1, <2>2
<1>3. CASE DeviceSuspend
  <2>1. PICK sel \in UsbSelects :
          bak' = [bak EXCEPT !.port = usb_standby_port_support(sel), !.smc  = smc_standby_init(@, smc)]
    BY <1>3 DEF DeviceSuspend
  <2>2. usb_standby_port_support(sel) \in SUBSET {0, 1}
    BY DEF usb_standby_port_support, UsbSelects
  <2>3. smc_standby_init(bak.smc, smc) \in [Regions -> Nat]
    BY <1>0 DEF smc_standby_init, Bak
  <2>4. bak' = [bak EXCEPT !.port = usb_standby_port_support(sel), !.smc  = smc_standby_init(bak.smc, smc)]
    BY <1>0, <2>1 DEF Bak
  <2> HIDE DEF usb_standby_port_support, smc_standby_init
  <2> QED BY <1>0, <1>3, <2>2, <2>3, <2>4 DEF Bak, DeviceSuspend
<1>4. CASE CpuPllOff
  BY <1>0, <1>4 DEF Bak, CpuPllOff
<1>5. CASE CcmuSlow \/ PrcmSlow
  <2>1. PICK bs \in {Ccmu, Prcm} :
          bak' = [bak EXCEPT !.bus  = [b \in Buses |-> IF b \in bs /\ bak.flag[b] = 0
                                                  THEN bus[b] ELSE bak.bus[b]],
                        !.flag = [b \in Buses |-> IF b \in bs THEN 1 ELSE bak.flag[b]]]
    BY <1>5 DEF CcmuSlow, PrcmSlow, ToRc16
  <2> QED BY <1>0, <1>5, <2>1 DEF Bak, CcmuSlow, PrcmSlow
<1>6. CASE PllOff
  BY <1>0, <1>6 DEF Bak, PllOff
<1>7. CASE PrcmBack \/ CcmuBack
  <2>1. PICK bs \in {Ccmu, Prcm} :
          bak' = [bak EXCEPT !.flag = [b \in Buses |-> IF b \in bs THEN 0 ELSE bak.flag[b]]]
    BY <1>7 DEF CcmuBack, PrcmBack, Back
  <2> QED BY <1>0, <1>7, <2>1 DEF Bak, CcmuBack, PrcmBack
<1>8. ASSUME NEW ok \in BOOLEAN, DeviceResume(ok)
      PROVE  /\ bak' \in Bak /\ bak' = [bak EXCEPT !.port = {}] /\ pc = "device+"
  BY <1>0, <1>8 DEF Bak, DeviceResume
<1>9. CASE \E ok \in BOOLEAN : DeviceResume(ok)
  BY <1>0, <1>8, <1>9 DEF Bak
<1>10. \/ UNCHANGED bak \/ Calibrated \/ Prepare \/ DeviceSuspend \/ CpuPllOff \/ CcmuSlow \/ PrcmSlow \/ PllOff
       \/ PrcmBack \/ CcmuBack \/ \E ok \in BOOLEAN : DeviceResume(ok)
  BY DEF Next, Suspend, Resume, Reject, Entry, Linux, Wake, Wait, WaitWakeup, Doze, Tick, Prologue, Calibrate, Calibrated, Prepare, CpuOff, DramSuspend, CtlOff, TwiRequest,
     TwiDone, DcxoOff, SystemSuspend, VccioOff, RailsOff, RailsRefused, RailsOn, PpuResume, DramResume,
     VccioOn, DcxoOn, SystemResume, PllOn, PllTimeout, CtlOn, AccessOn, NsiResume, CpuPllOn,
     CpuPllTimeout, CpuVector, CpuOn, Told, NotTold, Recovered, vars
<1> QED BY <1>1, <1>2, <1>3, <1>4, <1>5, <1>6, <1>7, <1>9, <1>10

\* What is down at each step.
LEMMA OffInvKept ==
  ASSUME IInv, [Next]_vars
  PROVE  OffInv'
<1>0. TypeOK
  BY DEF IInv
<1> USE DEF IInv, OffInv, Opening, Waiting, Deep, Up, Down, ToDevice, ToDram, ToPrcm, ToPll, ToDeep, FromDeep, FromPll, FromPrcm, FromCcmu, FromDram, FromCpu
<1>b. RailsOn(FALSE) => FailedIn("dm_resume")'
  BY <1>0, FailNames
<1>c. RailsRefused => FailedIn("dm_suspend")'
  BY <1>0, FailNames
<1>1. CASE Suspend
  <2>0. \A w : FailedIn(w) => FailedIn(w)'
    BY <1>1, StepFails
  <2>1. CASE RailsOff \/ RailsRefused
    <3>1. /\ pc = "rails" /\ UNCHANGED broken
          /\ \A x : x \notin {"rails", "stray"} => (x \in off' <=> x \in off)
          /\ \/ pc' = "wait" /\ "stray" \notin off'
             \/ pc' = "rails+" /\ FailedIn("dm_suspend")'
      BY <2>1, <1>c DEF RailsOff, RailsRefused, Rails
    <3> QED BY <3>1
  <2>2. CASE ~RailsOff /\ ~RailsRefused
    BY <1>1, <2>0, <2>2, ZenonT(30)
      DEF Suspend, CpuOff, DeviceSuspend, CpuPllOff, DramSuspend, CcmuSlow, CtlOff, TwiRequest, PrcmSlow,
      TwiDone, PllOff, DcxoOff, SystemSuspend, VccioOff
  <2> QED BY <2>1, <2>2
<1>2. CASE Resume
  <2>0. \A w : FailedIn(w) => FailedIn(w)'
    BY <1>2, StepFails
  <2>1. ASSUME NEW ok \in BOOLEAN, RailsOn(ok) \/ PpuResume(ok) \/ DramResume(ok) \/ DeviceResume(ok)
        PROVE  OffInv'
    <3>1. CASE ok
      BY <2>1, <3>1, <2>0, <1>b DEF RailsOn, PpuResume, DramResume, DeviceResume
    <3>2. CASE ~ok
      <4>1. ok = FALSE
        BY <3>2
      <4> QED BY <2>1, <4>1, <2>0, <1>b DEF RailsOn, PpuResume, DramResume, DeviceResume
    <3> QED BY <3>1, <3>2
  <2>2. CASE VccioOn \/ DcxoOn \/ SystemResume \/ PllOn \/ (\E i \in DOMAIN PllOrder : PllTimeout(i))
               \/ TwiRequest("twireq+", "prcm+") \/ PrcmBack \/ TwiDone("twidone+", "ctl+")
    BY <2>2, <2>0, ZenonT(30)
    DEF VccioOn, DcxoOn, SystemResume, PllOn, PllTimeout, TwiRequest, PrcmBack, TwiDone
  <2>3. CASE CtlOn \/ CcmuBack \/ AccessOn \/ NsiResume \/ CpuPllOn \/ CpuPllTimeout
               \/ CpuVector \/ CpuOn \/ Told \/ NotTold \/ Recovered
    BY <2>3, <2>0, ZenonT(30)
    DEF CtlOn, CcmuBack, AccessOn, NsiResume, CpuPllOn, CpuPllTimeout, CpuVector, CpuOn, Told, NotTold,
        Recovered
  <2> QED BY <1>2, <2>1, <2>2, <2>3 DEF Resume
<1>3. CASE Reject \/ Entry \/ Linux \/ Wake \/ Wait \/ Prologue \/ UNCHANGED vars
  <2>0. Linux \/ Wake \/ Wait \/ Prologue \/ UNCHANGED vars => \A w : FailedIn(w) => FailedIn(w)'
    BY StepFails DEF vars, FailedIn
  <2> QED BY <1>3, <2>0, <1>b
  DEF Reject, Entry, Linux, Wake, Wait, WaitWakeup, Doze, Tick, Prologue, Calibrate, Calibrated, Prepare, vars
<1> QED BY <1>1, <1>2, <1>3 DEF Next

\* What a domain forgot comes back before CPU0 does.
LEMMA LostInvKept ==
  ASSUME IInv, [Next]_vars
  PROVE  LostInv'
<1>0. TypeOK
  BY DEF IInv
<1> USE DEF IInv, LostInv, Opening, Waiting, Deep, Up, Down, ToDevice, ToDram, ToPrcm, ToPll, ToDeep, FromDeep, FromPll, FromPrcm, FromCcmu, FromDram, FromCpu
<1>b. DeviceResume(FALSE) => FailedIn("smc")'
  BY <1>0, FailNames
<1>1. CASE Suspend
  <2>0. \A w : FailedIn(w) => FailedIn(w)'
    BY <1>1, StepFails
  <2> QED BY <1>1, <2>0, <1>b
      DEF Suspend, CpuOff, DeviceSuspend, CpuPllOff, DramSuspend, CcmuSlow, CtlOff, TwiRequest, PrcmSlow,
      TwiDone, PllOff, DcxoOff, SystemSuspend, VccioOff, RailsOff, RailsRefused, UsbSuspended, Rails, Lose
<1>2. CASE Resume
  <2>0. \A w : FailedIn(w) => FailedIn(w)'
    BY <1>2, StepFails
  <2>1. ASSUME NEW ok \in BOOLEAN, RailsOn(ok) \/ PpuResume(ok) \/ DramResume(ok) \/ DeviceResume(ok)
        PROVE  LostInv'
    <3>1. CASE ok
      BY <2>1, <3>1, <2>0, <1>b DEF RailsOn, PpuResume, DramResume, DeviceResume
    <3>2. CASE ~ok
      <4>1. ok = FALSE
        BY <3>2
      <4> QED BY <2>1, <4>1, <2>0, <1>b DEF RailsOn, PpuResume, DramResume, DeviceResume
    <3> QED BY <3>1, <3>2
  <2>2. CASE ResumeRest
    BY <2>2, <2>0, <1>b
    DEF ResumeRest, VccioOn, DcxoOn, SystemResume, PllOn,
        PllTimeout, TwiRequest, PrcmBack, TwiDone, CtlOn, CcmuBack, AccessOn, NsiResume, CpuPllOn,
        CpuPllTimeout, CpuVector, CpuOn, Told, NotTold, Recovered, UsbResumed
  <2> QED BY <1>2, <2>1, <2>2 DEF Resume, ResumeRest
<1>3. CASE Reject \/ Entry \/ Linux \/ Wake \/ Wait \/ Prologue \/ UNCHANGED vars
  <2>0. Linux \/ Wake \/ Wait \/ Prologue \/ UNCHANGED vars => \A w : FailedIn(w) => FailedIn(w)'
    BY StepFails DEF vars, FailedIn
  <2> QED BY <1>3, <2>0, <1>b
  DEF Reject, Entry, Linux, Wake, Wait, WaitWakeup, Doze, Tick, Prologue, Calibrate, Calibrated, Prepare, vars
<1> QED BY <1>1, <1>2, <1>3 DEF Next

\* The crystal stops in the deep steps only, and the timers follow it.
LEMMA DcxoInvKept ==
  ASSUME IInv, [Next]_vars
  PROVE  DcxoInv'
<1>0. TypeOK
  BY DEF IInv
<1> USE DEF IInv, DcxoInv, Deep, ccu_24mhosc_disable, ccu_24mhosc_enable
<1>1. CASE Suspend
  <2> QED BY <1>1
      DEF Suspend, CpuOff, DeviceSuspend, CpuPllOff, DramSuspend, CcmuSlow, CtlOff, TwiRequest, PrcmSlow,
      TwiDone, PllOff, DcxoOff, SystemSuspend, VccioOff, RailsOff, RailsRefused
<1>2. CASE Resume
  <2>1. ASSUME NEW ok \in BOOLEAN, RailsOn(ok) \/ PpuResume(ok) \/ DramResume(ok) \/ DeviceResume(ok)
        PROVE  DcxoInv'
    <3>1. CASE ok
      BY <2>1, <3>1 DEF RailsOn, PpuResume, DramResume, DeviceResume
    <3>2. CASE ~ok
      <4>1. ok = FALSE
        BY <3>2
      <4> QED BY <2>1, <4>1 DEF RailsOn, PpuResume, DramResume, DeviceResume
    <3> QED BY <3>1, <3>2
  <2>2. CASE ResumeRest
    BY <2>2
    DEF ResumeRest, VccioOn, DcxoOn, SystemResume, PllOn,
        PllTimeout, TwiRequest, PrcmBack, TwiDone, CtlOn, CcmuBack, AccessOn, NsiResume, CpuPllOn,
        CpuPllTimeout, CpuVector, CpuOn, Told, NotTold, Recovered
  <2> QED BY <1>2, <2>1, <2>2 DEF Resume, ResumeRest
<1>3. CASE Reject \/ Entry \/ Linux \/ Wake \/ Wait \/ Prologue \/ UNCHANGED vars
  <2> QED BY <1>3
  DEF Reject, Entry, Linux, Wake, Wait, WaitWakeup, Doze, Tick, Prologue, Calibrate, Calibrated, Prepare, vars
<1> QED BY <1>1, <1>2, <1>3 DEF Next

(***************************************************************************)
(* The PLLs are as at the request, saved as such, or recorded as failed.   *)
(***************************************************************************)
LEMMA PllInvKept ==
  ASSUME IInv, [Next]_vars
  PROVE  PllInv'
<1>0. TypeOK /\ PllInv /\ BusInv
  BY DEF IInv
<1> DEFINE Within == Suspend \/ Wake \/ Wait \/ Prologue \/ Resume
           End    == Told \/ NotTold \/ Recovered
<1>1. Within => /\ before' = before /\ pc # "idle" /\ ("pll" \in broken => "pll" \in broken')
                /\ (pc' # "idle" \/ End)
  BY DEF Suspend, CpuOff, DeviceSuspend, CpuPllOff, DramSuspend, CcmuSlow, CtlOff, TwiRequest, PrcmSlow,
      TwiDone, PllOff, DcxoOff, SystemSuspend, VccioOff, RailsOff, RailsRefused,
      RailsOn, PpuResume, DramResume, DeviceResume, VccioOn, DcxoOn, SystemResume, PllOn,
      PllTimeout, PrcmBack, CtlOn, CcmuBack, AccessOn, NsiResume, CpuPllOn,
      CpuPllTimeout, CpuVector, CpuOn, Told, NotTold, Recovered, Resume, Wake, Wait, WaitWakeup, Doze, Tick, Prologue, Calibrate, Calibrated, Prepare
<1>2. Within => /\ FailedIn("pll") => FailedIn("pll")'
                /\ FailedIn("pll")' => FailedIn("pll") \/ "pll" \in broken'
  BY <1>0, StepFails
<1>3. CASE Within
  <2>1. (FailedIn("pll") => "pll" \in broken)'
    BY <1>0, <1>1, <1>2, <1>3 DEF PllInv
  <2>2. CASE End
    <3>1. UNCHANGED <<pll, bus>> /\ pc = "restore+" /\ pc' = "idle"
      BY <2>2 DEF Told, NotTold, Recovered
    <3>2. "pll" \in broken \/ Works(pll, bus)
      <4>1. "pll" \in broken \/ (pll = before.pll /\ Works(before.pll, before.bus))
        BY <1>0, <3>1 DEF PllInv, FromCpu
      <4>2. \A b \in Prcm \cup Ccmu : bus[b] = before.bus[b]
        BY <1>0, <3>1 DEF BusInv, Opening, PrcmKept, CcmuKept, FromCpu, Kept
      <4>3. bus["rv24"].src \in {"osc24", "rc16"}
        BY DEF IInv, Rv24Inv
      <4> QED BY <4>1, <4>2, <4>3 DEF Works, Buses
    <3>3. "pll" \in broken' \/ Works(pll, bus)'
      BY <1>1, <1>3, <3>1, <3>2 DEF Works
    <3> QED BY <2>1, <3>1, <3>3 DEF PllInv, Deep, Up, Down, ToDevice, ToDram, ToPrcm, ToPll, ToDeep, FromDeep, FromPll, FromPrcm, FromCcmu, FromDram, FromCpu
  <2>3. CASE ~End
    <3>1. "pll" \in broken' \/ Works(before.pll, before.bus)'
      BY <1>0, <1>1, <1>3 DEF PllInv
    <3>2. CASE Suspend
      <4>1. CASE PllOff
        <5>1. bak'.pll = pll /\ pc = "pll" /\ pc' = "dcxo"
          BY <1>0, <4>1 DEF PllOff, TypeOK, Bak
        <5> QED BY <1>0, <1>1, <1>3, <2>1, <3>1, <5>1 DEF PllInv, Deep, Up, Down, ToDevice, ToDram, ToPrcm, ToPll, ToDeep, FromDeep, FromPll, FromPrcm, FromCcmu, FromDram, FromCpu
      <4>2. CASE ~PllOff
        <5>1. bak'.pll = bak.pll
          BY <1>0, <4>2, SavedBy
        <5>2. /\ pll' = pll \/ pc' \in {"wait", "rails+"}
              /\ pc' \in ToDevice \cup ToDram \cup ToPrcm \cup ToPll =>
                   pc \in ToDevice \cup ToDram \cup ToPrcm \cup ToPll
              /\ pc' \in ToDeep \cup Deep \cup FromDeep => pc \in ToDeep \cup Deep \cup FromDeep
              /\ pc' \notin FromPll \cup FromPrcm \cup FromCcmu \cup FromDram \cup FromCpu
              /\ pc' \in {"wait", "rails+"} => pc' \notin ToDevice \cup ToDram \cup ToPrcm \cup ToPll
          BY <3>2, <4>2 DEF Deep, Up, Down, ToDevice, ToDram, ToPrcm, ToPll, ToDeep, FromDeep, FromPll, FromPrcm, FromCcmu, FromDram, FromCpu,
       Suspend, CpuOff, DeviceSuspend, CpuPllOff, DramSuspend, CcmuSlow, CtlOff, TwiRequest, PrcmSlow,
      TwiDone, PllOff, DcxoOff, SystemSuspend, VccioOff, RailsOff, RailsRefused
        <5> QED BY <1>0, <1>1, <1>3, <2>1, <2>3, <3>1, <5>1, <5>2 DEF PllInv
      <4> QED BY <4>1, <4>2
    <3>3. CASE Wake \/ Wait \/ Prologue
      BY <1>0, <1>1, <1>2, <1>3, <2>1, <2>3, <3>1, <3>3 DEF PllInv, Wake, Wait, WaitWakeup, Doze, Tick, Prologue, Calibrate, Calibrated, Prepare, Deep, Up, Down, ToDevice, ToDram, ToPrcm, ToPll, ToDeep, FromDeep, FromPll, FromPrcm, FromCcmu, FromDram, FromCpu
    <3>4. CASE \E i \in DOMAIN PllOrder : PllTimeout(i)
      BY <1>0, <1>1, <1>3, <2>1, <2>3, <3>1, <3>4, FailNames DEF PllInv, PllTimeout, Deep, Up, Down, ToDevice, ToDram, ToPrcm, ToPll, ToDeep, FromDeep, FromPll, FromPrcm, FromCcmu, FromDram, FromCpu
    <3>5. CASE PllOn
      BY <1>0, <1>1, <1>3, <2>1, <2>3, <3>1, <3>5 DEF PllInv, PllOn, Deep, Up, Down, ToDevice, ToDram, ToPrcm, ToPll, ToDeep, FromDeep, FromPll, FromPrcm, FromCcmu, FromDram, FromCpu
    <3>6. CASE Resume /\ ~PllOn /\ ~\E i \in DOMAIN PllOrder : PllTimeout(i)
      <4>1. bak'.pll = bak.pll
        <5>1. ~PllOff
          BY <3>6 DEF PllOff, Resume, RailsOn, PpuResume, DramResume, DeviceResume, VccioOn, DcxoOn, SystemResume, PllOn,
      PllTimeout, TwiRequest, PrcmBack, TwiDone, CtlOn, CcmuBack, AccessOn, NsiResume, CpuPllOn,
      CpuPllTimeout, CpuVector, CpuOn, Told, NotTold, Recovered
        <5> QED BY <1>0, <5>1, SavedBy
      <4>2. /\ pll' = pll /\ pc # "pll+"
            /\ pc' \notin ToDevice \cup ToDram \cup ToPrcm \cup ToPll
            /\ pc' \in ToDeep \cup Deep \cup FromDeep => pc \in ToDeep \cup Deep \cup FromDeep
            /\ pc' \in FromPll \cup FromPrcm \cup FromCcmu \cup FromDram \cup FromCpu =>
                 pc \in FromPll \cup FromPrcm \cup FromCcmu \cup FromDram \cup FromCpu
        <5>1. CASE \E ok \in BOOLEAN : RailsOn(ok) \/ PpuResume(ok) \/ DramResume(ok) \/ DeviceResume(ok)
          BY <5>1 DEF RailsOn, PpuResume, DramResume, DeviceResume, Deep, Up, Down, ToDevice, ToDram, ToPrcm, ToPll, ToDeep, FromDeep, FromPll, FromPrcm, FromCcmu, FromDram, FromCpu
        <5>2. CASE ResumeRest
          BY <2>3, <3>6, <5>2 DEF ResumeRest, VccioOn, DcxoOn, SystemResume, TwiRequest, PrcmBack,
            TwiDone, CtlOn, CcmuBack, AccessOn, NsiResume, CpuPllOn, CpuPllTimeout, CpuVector, CpuOn, Deep, Up, Down, ToDevice, ToDram, ToPrcm, ToPll, ToDeep, FromDeep, FromPll, FromPrcm, FromCcmu, FromDram, FromCpu
        <5> QED BY <3>6, <5>1, <5>2 DEF Resume, ResumeRest
      <4> QED BY <1>0, <1>1, <1>2, <1>3, <2>1, <2>3, <3>1, <4>1, <4>2 DEF PllInv
    <3> QED BY <1>3, <3>2, <3>3, <3>4, <3>5, <3>6
  <2> QED BY <2>2, <2>3
<1>4. CASE Entry
  <2>1. /\ pc = "idle" /\ pc' \in {"hosc", "type"} /\ UNCHANGED <<pll, bus, broken>> /\ fails' = <<>>
        /\ before' = Settings
    BY <1>4 DEF Entry
  <2>2. ~FailedIn("pll")'
    BY <2>1 DEF FailedIn
  <2>3. before'.pll = pll /\ before'.bus = bus
    BY <2>1 DEF Settings
  <2>4. "pll" \in broken' \/ Works(before.pll, before.bus)'
    BY <1>0, <2>1, <2>3 DEF PllInv, Works
  <2> QED BY <2>1, <2>2, <2>3, <2>4 DEF PllInv, Deep, Up, Down, ToDevice, ToDram, ToPrcm, ToPll, ToDeep, FromDeep, FromPll, FromPrcm, FromCcmu, FromDram, FromCpu
<1>5. CASE Linux
  <2>1. /\ pc = "idle" /\ pc' = "idle" /\ UNCHANGED <<broken, fails>>
        /\ Works(pll, bus)'
    <3>1. PICK s \in UsableSettings : pll' = s.pll /\ bus' = [s.bus EXCEPT !["rv24"] = bus["rv24"]]
      BY <1>5 DEF Linux
    <3>2. /\ Works(s.pll, s.bus) /\ s.bus \in [Buses -> Clock] /\ bus["rv24"].src \in {"osc24", "rc16"}
      BY UsableWorks DEF IInv, Rv24Inv
    <3>3. Works(pll', bus')
      BY <3>1, <3>2, Names DEF Works
    <3> QED BY <1>5, <3>3 DEF Linux, Works
  <2> QED BY <1>0, <2>1 DEF PllInv, FailedIn, Deep, Up, Down, ToDevice, ToDram, ToPrcm, ToPll, ToDeep, FromDeep, FromPll, FromPrcm, FromCcmu, FromDram, FromCpu
<1>6. CASE Reject
  <2>1. pc = "idle" /\ pc' = "idle" /\ UNCHANGED <<broken, pll, bus>> /\ ~FailedIn("pll")'
    BY <1>6 DEF Reject, FailedIn
  <2>2. "pll" \in broken' \/ Works(pll, bus)'
    BY <1>0, <2>1 DEF PllInv, Works
  <2> QED BY <2>1, <2>2 DEF PllInv, Deep, Up, Down, ToDevice, ToDram, ToPrcm, ToPll, ToDeep, FromDeep, FromPll, FromPrcm, FromCcmu, FromDram, FromCpu
<1>7. CASE UNCHANGED vars
  BY <1>0, <1>7 DEF vars, PllInv, FailedIn, Works
<1> QED BY <1>3, <1>4, <1>5, <1>6, <1>7 DEF Next

(***************************************************************************)
(* CPU0's clock is usable, and as at the request unless its PLL failed.    *)
(***************************************************************************)
LEMMA CoreInvKept ==
  ASSUME IInv, [Next]_vars
  PROVE  CoreInv'
<1>0. TypeOK /\ CoreInv
  BY DEF IInv
<1> DEFINE Early == {"idle", "cpupll"} \cup ToDevice \cup FromCpu
<1>1. CASE CpuPllOff
  <2>1. bak'.core = core /\ core' = [src |-> "rc16", pll |-> "off"] /\ UNCHANGED before
        /\ pc = "cpupll" /\ pc' = "dram"
    BY <1>0, <1>1 DEF CpuPllOff, TypeOK, Bak
  <2> QED BY <1>0, <2>1 DEF CoreInv, Usable, Deep, Up, Down, ToDevice, ToDram, ToPrcm, ToPll, ToDeep, FromDeep, FromPll, FromPrcm, FromCcmu, FromDram, FromCpu
<1>2. CASE Suspend /\ ~CpuPllOff
  <2>1. bak'.core = bak.core
    BY <1>0, <1>2, SavedBy
  <2>2. /\ (core' = core \/ (core' = [src |-> "osc24", pll |-> "off"] /\ pc' \in {"wait", "rails+"}))
        /\ UNCHANGED before /\ pc' \notin FromCpu
        /\ pc' \in ToDevice \cup {"cpupll"} => pc \in ToDevice \cup {"cpupll"}
        /\ pc' \notin Early => pc \notin Early
        /\ pc' \in {"wait", "rails+"} => pc' \notin ToDevice \cup {"cpupll"}
    BY <1>2 DEF Rails, Lose, Suspend, CpuOff, DeviceSuspend, CpuPllOff, DramSuspend, CcmuSlow, CtlOff, TwiRequest, PrcmSlow,
      TwiDone, PllOff, DcxoOff, SystemSuspend, VccioOff, RailsOff, RailsRefused, Deep, Up, Down, ToDevice, ToDram, ToPrcm, ToPll, ToDeep, FromDeep, FromPll, FromPrcm, FromCcmu, FromDram, FromCpu
  <2>3. Usable(core)'
    BY <1>0, <2>2 DEF CoreInv, Usable
  <2> QED BY <1>0, <2>1, <2>2, <2>3 DEF CoreInv, Usable
<1>3. CASE CpuPllOn
  <2>1. pc = "cpupll+" /\ pc' = "device+" /\ core' = bak.core /\ UNCHANGED <<before, bak>>
    BY <1>3 DEF CpuPllOn
  <2> QED BY <1>0, <2>1 DEF CoreInv, Usable, Deep, Up, Down, ToDevice, ToDram, ToPrcm, ToPll, ToDeep, FromDeep, FromPll, FromPrcm, FromCcmu, FromDram, FromCpu
<1>4. CASE CpuPllTimeout
  <2>1. pc = "cpupll+" /\ pc' = "device+" /\ UNCHANGED <<core, before, bak>> /\ FailedIn("cpupll")'
    BY <1>0, <1>4, FailNames DEF CpuPllTimeout
  <2> QED BY <1>0, <2>1 DEF CoreInv, Usable, Deep, Up, Down, ToDevice, ToDram, ToPrcm, ToPll, ToDeep, FromDeep, FromPll, FromPrcm, FromCcmu, FromDram, FromCpu
<1>5. CASE (Resume /\ ~CpuPllOn /\ ~CpuPllTimeout) \/ Wake \/ Wait \/ Prologue
  <2>0. ~CpuPllOff
    BY <1>5 DEF CpuPllOff, Resume, RailsOn, PpuResume, DramResume, DeviceResume, VccioOn, DcxoOn, SystemResume, PllOn,
      PllTimeout, TwiRequest, PrcmBack, TwiDone, CtlOn, CcmuBack, AccessOn, NsiResume, CpuPllOn,
      CpuPllTimeout, CpuVector, CpuOn, Told, NotTold, Recovered, Wake, Wait, WaitWakeup, Doze, Tick, Prologue, Calibrate, Calibrated, Prepare
  <2>1. bak'.core = bak.core /\ (FailedIn("cpupll") => FailedIn("cpupll")')
    BY <1>0, <1>5, <2>0, SavedBy, StepFails
  <2>2. /\ core' = core /\ UNCHANGED before
        /\ pc' \in ToDevice \cup {"cpupll"} => pc \in ToDevice \cup {"cpupll"}
        /\ pc' \notin Early => pc \notin Early
        /\ pc' \in FromCpu => pc \in FromCpu
    <3>1. CASE \E ok \in BOOLEAN : RailsOn(ok) \/ PpuResume(ok) \/ DramResume(ok) \/ DeviceResume(ok)
      BY <3>1 DEF RailsOn, PpuResume, DramResume, DeviceResume, Deep, Up, Down, ToDevice, ToDram, ToPrcm, ToPll, ToDeep, FromDeep, FromPll, FromPrcm, FromCcmu, FromDram, FromCpu
    <3>2. CASE ResumeRest
      BY <1>5, <3>2 DEF ResumeRest, VccioOn, DcxoOn, SystemResume, PllOn, PllTimeout, TwiRequest, PrcmBack,
        TwiDone, CtlOn, CcmuBack, AccessOn, NsiResume, CpuVector, CpuOn, Told, NotTold, Recovered,
        Wake, Wait, WaitWakeup, Doze, Tick, Prologue, Calibrate, Calibrated, Prepare, Deep, Up, Down, ToDevice, ToDram, ToPrcm, ToPll, ToDeep, FromDeep, FromPll, FromPrcm, FromCcmu, FromDram, FromCpu
    <3>3. CASE Wake \/ Wait \/ Prologue
      BY <3>3 DEF Wake, Wait, WaitWakeup, Doze, Tick, Prologue, Calibrate, Calibrated, Prepare, Deep, Up, Down, ToDevice, ToDram, ToPrcm, ToPll, ToDeep, FromDeep, FromPll, FromPrcm, FromCcmu, FromDram, FromCpu
    <3> QED BY <1>5, <3>1, <3>2, <3>3 DEF Resume, ResumeRest
  <2> QED BY <1>0, <2>1, <2>2 DEF CoreInv, Usable
<1>6. CASE Entry
  <2>1. /\ pc = "idle" /\ pc' \in {"hosc", "type"} /\ UNCHANGED core /\ before'.core = core
    BY <1>6 DEF Entry, Settings
  <2> QED BY <1>0, <2>1 DEF CoreInv, Usable, Deep, Up, Down, ToDevice, ToDram, ToPrcm, ToPll, ToDeep, FromDeep, FromPll, FromPrcm, FromCcmu, FromDram, FromCpu
<1>7. CASE Linux
  <2>1. pc = "idle" /\ pc' = "idle" /\ Usable(core)'
    BY <1>7, UsableWorks DEF Linux, Usable
  <2> QED BY <2>1 DEF CoreInv, Deep, Up, Down, ToDevice, ToDram, ToPrcm, ToPll, ToDeep, FromDeep, FromPll, FromPrcm, FromCcmu, FromDram, FromCpu
<1>8. CASE Reject \/ UNCHANGED vars
  <2>1. UNCHANGED <<pc, core, bak, before>> /\ (pc = "idle" \/ UNCHANGED fails)
    BY <1>8 DEF Reject, vars
  <2> QED BY <1>0, <2>1 DEF CoreInv, Usable, FailedIn, Deep, Up, Down, ToDevice, ToDram, ToPrcm, ToPll, ToDeep, FromDeep, FromPll, FromPrcm, FromCcmu, FromDram, FromCpu
<1> QED BY <1>1, <1>2, <1>3, <1>4, <1>5, <1>6, <1>7, <1>8 DEF Next

(***************************************************************************)
(* What the result is made of: a transaction that comes back without a     *)
(* failure has a wakeup source, and a DRAM that passed its checksum.       *)
(***************************************************************************)
LEMMA ResultInvKept ==
  ASSUME IInv, [Next]_vars
  PROVE  ResultInv'
<1>0. TypeOK /\ ResultInv
  BY DEF IInv
<1> DEFINE Back1 == {"rails+", "vccio+", "dcxo+", "sys+"} \cup Up
<1>1. CASE Told \/ NotTold \/ Recovered
  <2>1. /\ pc = "restore+" /\ pc' = "idle" /\ wakeup_source' = NoWake /\ result' = Result
        /\ UNCHANGED <<cfg, dram>>
        /\ fails' = fails \/ Failed(FALSE, "cpu0")
    BY <1>1 DEF Told, NotTold, Recovered
  <2>2. fails' \in Seq(Failures) /\ (fails # <<>> => fails' # <<>>) /\ (Failed(FALSE, "cpu0") => fails' # <<>>)
    BY <1>0, <2>1, FailedRecords DEF TypeOK, Failures
  <2>3. fails' # <<>> => fails'[1] # "OK"
    BY <2>2 DEF Failures
  <2>4. result' = "OK" => fails' = <<>>
    BY <2>1, <2>3 DEF Result
  <2>5. fails' = <<>> => wait_restore /\ wakeup_source # NoWake /\ told' = wakeup_source
    <3>1. fails' = <<>> => fails = <<>> /\ ~Failed(FALSE, "cpu0")
      BY <2>2
    <3>2. fails = <<>> => wait_restore /\ wakeup_source # NoWake
      BY <1>0, <2>1 DEF ResultInv, TypeOK, Up, FromCpu
    <3> QED BY <1>1, <3>1, <3>2 DEF Told, NotTold, Recovered
  <2>6. fails' = <<>> => ~cfg.crc \/ dram
    BY <1>0, <2>1, <2>2 DEF ResultInv, FromCpu
  <2>7. Honest'
    BY <1>0, <2>1, <2>4, <2>5, <2>6 DEF Honest, Result, ResultInv
  <2> QED BY <2>1, <2>7 DEF ResultInv, Waiting, NoWake, Deep, Up, Down, ToDevice, ToDram, ToPrcm, ToPll, ToDeep, FromDeep, FromPll, FromPrcm, FromCcmu, FromDram, FromCpu
<1>2. CASE Suspend
  <2>1. /\ pc' # "idle" /\ pc' \notin FromDram \cup FromCpu /\ UNCHANGED wakeup_source
        /\ pc' \in Back1 => RailsRefused /\ wait_restore' = FALSE
        /\ pc' \in Waiting => wait_restore' = TRUE
    BY <1>2 DEF Suspend, CpuOff, DeviceSuspend, CpuPllOff, DramSuspend, CcmuSlow, CtlOff, TwiRequest, PrcmSlow,
      TwiDone, PllOff, DcxoOff, SystemSuspend, VccioOff, RailsOff, RailsRefused, Waiting, Deep, Up, Down, ToDevice, ToDram, ToPrcm, ToPll, ToDeep, FromDeep, FromPll, FromPrcm, FromCcmu, FromDram, FromCpu
  <2>2. RailsRefused => fails' # <<>>
    BY <1>0, FailNames
  <2> QED BY <1>0, <2>1, <2>2 DEF ResultInv, Honest, Waiting, Deep, Up, Down, ToDevice, ToDram, ToPrcm, ToPll, ToDeep, FromDeep, FromPll, FromPrcm, FromCcmu, FromDram, FromCpu
<1>3. CASE Wait
  <2>1. /\ pc \in Waiting /\ (pc' \in Waiting \/ (pc' = "rails+" /\ wakeup_source # NoWake))
        /\ UNCHANGED <<wakeup_source, wait_restore, fails>>
    BY <1>3 DEF Wait, WaitWakeup, Doze, Tick, Waiting
  <2>2. wait_restore
    BY <1>0, <2>1 DEF ResultInv
  <2> QED BY <1>0, <2>1, <2>2 DEF ResultInv, Honest, Waiting, Deep, Up, Down, ToDevice, ToDram, ToPrcm, ToPll, ToDeep, FromDeep, FromPll, FromPrcm, FromCcmu, FromDram, FromCpu
<1>a. CASE Prologue
  <2>1. pc' \in ToDevice /\ (wakeup_source' = wakeup_source \/ wakeup_source' = NoWake)
    BY <1>a DEF Prologue, Calibrate, Calibrated, Prepare, ToDevice
  <2> QED BY <1>0, <2>1 DEF ResultInv, Honest, Waiting, NoWake, Deep, Up, Down, ToDevice, ToDram, ToPrcm, ToPll, ToDeep, FromDeep, FromPll, FromPrcm, FromCcmu, FromDram, FromCpu
<1>4. CASE Wake
  <2>1. /\ pc # "idle" /\ wakeup_source' = "event" /\ UNCHANGED <<wait_restore, fails, cfg, dram>>
        /\ pc' = pc \/ (pc \in Waiting /\ pc' = "wait")
    BY <1>4 DEF Wake, Waiting
  <2> QED BY <1>0, <2>1 DEF ResultInv, Honest, NoWake, Waiting, Deep, Up, Down, ToDevice, ToDram, ToPrcm, ToPll, ToDeep, FromDeep, FromPll, FromPrcm, FromCcmu, FromDram, FromCpu
<1>5. CASE Resume /\ ~(Told \/ NotTold \/ Recovered)
  <2>1. fails # <<>> => fails' # <<>>
    BY <1>0, <1>5, StepFails
  <2>2. /\ pc' # "idle" /\ pc' \notin Waiting /\ pc \in Back1 /\ UNCHANGED <<wakeup_source, wait_restore, cfg>>
        /\ pc' \in FromDram \cup FromCpu =>
             \/ pc \in FromDram \cup FromCpu /\ dram' = dram
             \/ dram' = TRUE
             \/ DramResume(FALSE)
    <3>1. CASE \E ok \in BOOLEAN : RailsOn(ok) \/ PpuResume(ok) \/ DramResume(ok) \/ DeviceResume(ok)
      <4>1. PICK ok \in BOOLEAN : RailsOn(ok) \/ PpuResume(ok) \/ DramResume(ok) \/ DeviceResume(ok)
        BY <3>1
      <4>2. CASE DramResume(ok)
        BY <4>2 DEF DramResume, Waiting, Deep, Up, Down, ToDevice, ToDram, ToPrcm, ToPll, ToDeep, FromDeep, FromPll, FromPrcm, FromCcmu, FromDram, FromCpu
      <4> QED BY <4>1, <4>2 DEF RailsOn, PpuResume, DeviceResume, Waiting, Deep, Up, Down, ToDevice, ToDram, ToPrcm, ToPll, ToDeep, FromDeep, FromPll, FromPrcm, FromCcmu, FromDram, FromCpu
    <3>2. CASE ResumeRest
      BY <1>5, <3>2 DEF ResumeRest, VccioOn, DcxoOn, SystemResume, PllOn, PllTimeout, TwiRequest, PrcmBack,
        TwiDone, CtlOn, CcmuBack, AccessOn, NsiResume, CpuPllOn, CpuPllTimeout, CpuVector, CpuOn, Waiting, Deep, Up, Down, ToDevice, ToDram, ToPrcm, ToPll, ToDeep, FromDeep, FromPll, FromPrcm, FromCcmu, FromDram, FromCpu
    <3> QED BY <1>5, <3>1, <3>2 DEF Resume, ResumeRest
  <2>3. DramResume(FALSE) /\ cfg.crc => fails' # <<>>
    BY <1>0, FailNames
  <2>4. IF wait_restore' THEN wakeup_source' # NoWake ELSE fails' # <<>>
    BY <1>0, <2>1, <2>2 DEF ResultInv
  <2>5. pc' \in FromDram \cup FromCpu /\ cfg'.crc => dram' \/ fails' # <<>>
    <3> SUFFICES ASSUME pc' \in FromDram \cup FromCpu, cfg'.crc, fails' = <<>> PROVE dram'
      OBVIOUS
    <3>1. fails = <<>> /\ cfg.crc /\ ~DramResume(FALSE)
      BY <2>1, <2>2, <2>3
    <3>2. pc \in FromDram \cup FromCpu => dram = TRUE
      BY <1>0, <3>1 DEF ResultInv, TypeOK
    <3>3. (pc \in FromDram \cup FromCpu /\ dram' = dram) \/ dram' = TRUE
      BY <2>2, <3>1
    <3>4. dram' = TRUE
      BY <3>2, <3>3
    <3> QED BY <3>4
  <2> QED BY <1>0, <2>2, <2>4, <2>5 DEF ResultInv, Honest
<1>6. CASE Entry
  <2>1. pc' \in ToDevice /\ wakeup_source' = wakeup_source
    BY <1>6 DEF Entry, ToDevice
  <2> QED BY <1>0, <2>1 DEF ResultInv, Honest, Waiting, NoWake, Deep, Up, Down, ToDevice, ToDram, ToPrcm, ToPll, ToDeep, FromDeep, FromPll, FromPrcm, FromCcmu, FromDram, FromCpu
<1>7. CASE Reject
  <2>1. pc = "idle" /\ pc' = "idle" /\ UNCHANGED wakeup_source
        /\ \E why \in {"EACCES", "EFAIL"} : result' = why /\ fails' = <<why>>
    BY <1>7 DEF Reject
  <2> QED BY <1>0, <2>1 DEF ResultInv, Honest, Waiting, Deep, Up, Down, ToDevice, ToDram, ToPrcm, ToPll, ToDeep, FromDeep, FromPll, FromPrcm, FromCcmu, FromDram, FromCpu
<1>8. CASE Linux
  <2>1. pc = "idle" /\ UNCHANGED <<pc, wakeup_source, n, result, fails, cfg, dram, told>>
    BY <1>8 DEF Linux
  <2> QED BY <1>0, <2>1 DEF ResultInv, Honest, Waiting, Deep, Up, Down, ToDevice, ToDram, ToPrcm, ToPll, ToDeep, FromDeep, FromPll, FromPrcm, FromCcmu, FromDram, FromCpu
<1>9. CASE UNCHANGED vars
  BY <1>0, <1>9 DEF vars, ResultInv, Honest
<1> QED BY <1>1, <1>2, <1>3, <1>a, <1>4, <1>5, <1>6, <1>7, <1>8, <1>9 DEF Next

\* Steps that leave the bus clocks alone.
LEMMA BusesAlone ==
  ASSUME UNCHANGED <<bus, before>>, bak'.bus = bak.bus, bak'.flag = bak.flag,
         pc' \in Down => pc \in Down, NEW bs
  PROVE  (Kept(bs) => Kept(bs)') /\ (Slow(bs) => Slow(bs)')
BY DEF Kept, Slow

\* Down to the 16 MHz oscillator: the setting is saved, then left.
LEMMA SlowedDown ==
  ASSUME TypeOK, bak' \in Bak, NEW bs \in SUBSET Buses, NEW us \in SUBSET Buses, ToRc16(bs, us),
         Kept(bs), UNCHANGED before, NEW os \in SUBSET Buses, os \cap (bs \cup us) = {},
         pc' \in Down => pc \in Down
  PROVE  Slow(bs)' /\ (Kept(os) => Kept(os)') /\ (Slow(os) => Slow(os)')
<1>1. \A b \in bs : bus'[b] = [src |-> "rc16", m |-> 0] /\ bak'.bus[b] = bus[b] /\ bak'.flag[b] = 1
  BY DEF ToRc16, TypeOK, Bak, Kept
<1>2. \A b \in os : bus'[b] = bus[b] /\ bak'.bus[b] = bak.bus[b] /\ bak'.flag[b] = bak.flag[b]
  BY DEF ToRc16, TypeOK, Bak
<1>3. Slow(bs)'
  BY <1>1 DEF Slow, Kept
<1>4. Kept(os) => Kept(os)'
  BY <1>2 DEF Kept
<1>5. Slow(os) => Slow(os)'
  BY <1>2 DEF Slow
<1> QED BY <1>3, <1>4, <1>5

\* And back: the saved divider is ORed into a zero, so that it is exact.
LEMMA BroughtBack ==
  ASSUME TypeOK, bak' \in Bak, NEW bs \in SUBSET Buses, Back(bs), Slow(bs), UNCHANGED before,
         NEW os \in SUBSET Buses, os \cap bs = {}, pc' \in Down => pc \in Down
  PROVE  Kept(bs)' /\ (Kept(os) => Kept(os)') /\ (Slow(os) => Slow(os)')
<1>1. \A b \in bs : bus'[b] = bak.bus[b] /\ bak'.flag[b] = 0
  <2> SUFFICES ASSUME NEW b \in bs PROVE bus'[b] = bak.bus[b] /\ bak'.flag[b] = 0
    OBVIOUS
  <2>1. bus[b].m = 0 /\ bak.flag[b] = 1
    BY DEF Slow
  <2>2. bus'[b] = [src |-> bak.bus[b].src, m |-> bak.bus[b].m] /\ bak'.flag[b] = 0
    BY <2>1 DEF Back, TypeOK, Bak
  <2>3. bak.bus[b] \in Clock
    BY DEF TypeOK, Bak
  <2>4. bak.bus[b] = [src |-> bak.bus[b].src, m |-> bak.bus[b].m]
    BY <2>3 DEF Clock
  <2> QED BY <2>2, <2>4
<1>2. \A b \in os : bus'[b] = bus[b] /\ bak'.bus[b] = bak.bus[b] /\ bak'.flag[b] = bak.flag[b]
  BY DEF Back, TypeOK, Bak
<1>3. Kept(bs)'
  BY <1>1 DEF Slow, Kept
<1>4. Kept(os) => Kept(os)'
  BY <1>2 DEF Kept
<1>5. Slow(os) => Slow(os)'
  BY <1>2 DEF Slow
<1> QED BY <1>3, <1>4, <1>5

\* Who moves RV_24M_CLK_REG: no step but CcmuSlow.
LEMMA Rv24By ==
  ASSUME IInv, [Next]_vars
  PROVE  /\ bus'["rv24"] = IF CcmuSlow THEN [src |-> "rc16", m |-> 0] ELSE bus["rv24"]
         /\ bak'.flag["rv24"] = bak.flag["rv24"]
<1>0. /\ TypeOK /\ bus \in [Buses -> Clock] /\ bak \in Bak /\ bak' \in Bak /\ "rv24" \in Buses
      /\ "rv24" \notin Ccmu /\ "rv24" \notin Prcm
  BY SavedBy, Names DEF IInv, TypeOK, Ccmu, Prcm
<1>1. CASE CcmuSlow
  <2>1. ToRc16(Ccmu, {"rv24"})
    BY <1>1 DEF CcmuSlow
  <2> QED BY <1>0, <1>1, <2>1 DEF ToRc16, Bak
<1>2. CASE PrcmSlow
  <2>1. ToRc16(Prcm, {}) /\ ~CcmuSlow
    BY <1>2 DEF PrcmSlow, CcmuSlow
  <2> QED BY <1>0, <2>1 DEF ToRc16, Bak
<1>3. CASE CcmuBack \/ PrcmBack
  <2>1. PICK bs \in {Ccmu, Prcm} : Back(bs)
    BY <1>3 DEF CcmuBack, PrcmBack
  <2>2. ~CcmuSlow
    BY <1>3 DEF CcmuBack, PrcmBack, CcmuSlow
  <2> QED BY <1>0, <2>1, <2>2 DEF Back, Bak
<1>4. ASSUME ~CcmuSlow, ~PrcmSlow, ~CcmuBack, ~PrcmBack PROVE bak'.flag = bak.flag
  BY <1>0, <1>4, SavedBy
<1>5. CASE Linux
  <2>1. PICK sb \in [Buses -> Clock] : bus' = [sb EXCEPT !["rv24"] = bus["rv24"]]
    BY <1>5, UsableWorks DEF Linux
  <2>2. ~CcmuSlow /\ ~PrcmSlow /\ ~CcmuBack /\ ~PrcmBack
    BY <1>5 DEF Linux, CcmuBack, PrcmBack, CcmuSlow, PrcmSlow
  <2> QED BY <1>0, <1>4, <2>1, <2>2
<1>6. CASE RailsOff \/ RailsRefused
  <2>1. \/ bus' = bus
        \/ bus' = [b \in Buses |-> IF b \in Ccmu THEN [src |-> "osc24", m |-> 0] ELSE bus[b]]
    BY <1>6 DEF RailsOff, RailsRefused, Lose
  <2>2. ~CcmuSlow /\ ~PrcmSlow /\ ~CcmuBack /\ ~PrcmBack
    BY <1>6 DEF RailsOff, RailsRefused, CcmuBack, PrcmBack, CcmuSlow, PrcmSlow
  <2> QED BY <1>0, <1>4, <2>1, <2>2
<1>7. CASE Prologue
  <2>1. bus' = bus \/ \E src : bus' = [bus EXCEPT !["cpus"].src = src]
    BY <1>7 DEF Prologue, Calibrate, Calibrated, Prepare
  <2>2. ~CcmuSlow /\ ~PrcmSlow /\ ~CcmuBack /\ ~PrcmBack
    BY <1>7 DEF Prologue, Calibrate, Calibrated, Prepare, CcmuBack, PrcmBack, CcmuSlow, PrcmSlow
  <2> QED BY <1>0, <1>4, <2>1, <2>2
<1>8. CASE UNCHANGED bus /\ ~CcmuSlow /\ ~PrcmSlow /\ ~CcmuBack /\ ~PrcmBack
  BY <1>4, <1>8
<1>9. \/ UNCHANGED bus \/ CcmuSlow \/ PrcmSlow \/ CcmuBack \/ PrcmBack \/ Linux \/ RailsOff
      \/ RailsRefused \/ Prologue
  BY DEF Next, Suspend, Resume, Reject, Entry, Wake, Wait, WaitWakeup, Doze, Tick, vars, CpuOff,
     DeviceSuspend, CpuPllOff, DramSuspend, CtlOff, TwiRequest, TwiDone, PllOff, DcxoOff, SystemSuspend,
     VccioOff, RailsOn, PpuResume, DramResume, DeviceResume, VccioOn, DcxoOn, SystemResume, PllOn,
     PllTimeout, CtlOn, AccessOn, NsiResume, CpuPllOn, CpuPllTimeout, CpuVector, CpuOn, Told, NotTold,
     Recovered
<1> QED BY <1>1, <1>2, <1>3, <1>5, <1>6, <1>7, <1>8, <1>9

\* RV_24M_CLK_REG runs from the crystal until the first CcmuSlow, from RC16M
\* ever after.
LEMMA Rv24InvKept ==
  ASSUME IInv, [Next]_vars
  PROVE  Rv24Inv'
<1>0. Rv24Inv
  BY DEF IInv
<1>1. CASE CcmuSlow
  BY <1>0, <1>1, Rv24By DEF Rv24Inv
<1>2. CASE ~CcmuSlow
  <2>1. bus'["rv24"] = bus["rv24"] /\ bak'.flag["rv24"] = bak.flag["rv24"]
    BY <1>2, Rv24By
  <2>2. pc \in Early24 => pc' \in Early24
    <3>1. CASE Suspend
      BY <1>2, <3>1 DEF Early24, ToDevice, ToDram,
        Suspend, CpuOff, DeviceSuspend, CpuPllOff, DramSuspend, CtlOff, TwiRequest, PrcmSlow,
        TwiDone, PllOff, DcxoOff, SystemSuspend, VccioOff, RailsOff, RailsRefused
    <3>2. CASE Resume
      BY <3>2 DEF Early24, ToDevice, ToDram, Resume, RailsOn, PpuResume, DramResume, DeviceResume, VccioOn,
        DcxoOn, SystemResume, PllOn, PllTimeout, TwiRequest, PrcmBack, TwiDone, CtlOn, CcmuBack, AccessOn,
        NsiResume, CpuPllOn, CpuPllTimeout, CpuVector, CpuOn, Told, NotTold, Recovered
    <3>3. CASE Reject \/ Entry \/ Linux \/ Wake \/ Wait \/ Prologue \/ UNCHANGED vars
      BY <3>3 DEF Early24, ToDevice, ToDram, Reject, Entry, Linux, Wake, Wait, WaitWakeup, Doze, Tick,
        Prologue, Calibrate, Calibrated, Prepare, vars
    <3> QED BY <3>1, <3>2, <3>3 DEF Next
  <2> QED BY <1>0, <2>1, <2>2 DEF Rv24Inv
<1> QED BY <1>1, <1>2

(***************************************************************************)
(* The measurement leaves the E902's clock as it was.                      *)
(***************************************************************************)
LEMMA OpenInvKept ==
  ASSUME IInv, [Next]_vars
  PROVE  OpenInv'
<1>0. /\ OpenInv /\ bus \in [Buses -> Clock] /\ bak \in Bak /\ bak' \in Bak
      /\ {"cpus", "ahb", "apbs1"} \subseteq Buses
  BY SavedBy, Names DEF IInv, TypeOK
<1> SUFFICES ASSUME pc' \in Opening
             PROVE  /\ Kept({"ahb", "apbs1"})' /\ bak'.flag["cpus"] = 0
                    /\ bus'["cpus"].m = before'.bus["cpus"].m
                    /\ bus'["cpus"].src = IF pc' = "iosc" THEN "osc24" ELSE IF pc' = "cal" THEN "rc16"
                                          ELSE before'.bus["cpus"].src
  BY DEF OpenInv
<1>1. CASE Entry
  <2>1. /\ pc = "idle" /\ pc' \in {"hosc", "type"} /\ bus' = bus /\ before'.bus = bus
        /\ bak' = bak
    BY <1>1 DEF Entry, Settings
  <2>2. \A b \in Buses : bak.flag[b] = 0
    BY <2>1 DEF IInv, BusInv
  <2> QED BY <1>0, <2>1, <2>2 DEF Kept
<1>2. CASE Prologue
  <2>1. /\ pc \in Opening /\ UNCHANGED before /\ bak'.flag = bak.flag
        /\ \/ pc' = "iosc" /\ bus' = [bus EXCEPT !["cpus"].src = "osc24"]
           \/ pc' = "cal" /\ bus' = [bus EXCEPT !["cpus"].src = "rc16"]
           \/ pc' = "type" /\ bus' = [bus EXCEPT !["cpus"].src = before.bus["cpus"].src]
    BY <1>0, <1>2 DEF Prologue, Calibrate, Calibrated, Prepare, Opening, Bak
  <2>2. /\ bus'["ahb"] = bus["ahb"] /\ bus'["apbs1"] = bus["apbs1"]
        /\ bus'["cpus"].m = bus["cpus"].m
        /\ bus'["cpus"].src = IF pc' = "iosc" THEN "osc24" ELSE IF pc' = "cal" THEN "rc16"
                              ELSE before.bus["cpus"].src
    BY <1>0, <2>1 DEF Clock
  <2> QED BY <1>0, <2>1, <2>2 DEF OpenInv, Kept
<1>3. CASE Wake \/ UNCHANGED vars
  <2>1. UNCHANGED <<pc, bus, bak, before>>
    BY <1>3 DEF Wake, Opening, vars
  <2> QED BY <1>0, <2>1 DEF OpenInv, Kept
<1>4. ~(Suspend \/ Resume \/ Wait \/ Linux \/ Reject)
  BY DEF Opening, Linux, Reject, Wait, WaitWakeup, Doze, Tick,
     Suspend, CpuOff, DeviceSuspend, CpuPllOff, DramSuspend, CcmuSlow, CtlOff, TwiRequest, PrcmSlow,
     TwiDone, PllOff, DcxoOff, SystemSuspend, VccioOff, RailsOff, RailsRefused,
     Resume, RailsOn, PpuResume, DramResume, DeviceResume, VccioOn,
     DcxoOn, SystemResume, PllOn, PllTimeout, PrcmBack, CtlOn, CcmuBack, AccessOn,
     NsiResume, CpuPllOn, CpuPllTimeout, CpuVector, CpuOn, Told, NotTold, Recovered
<1> QED BY <1>1, <1>2, <1>3, <1>4 DEF Next

(***************************************************************************)
(* The bus clocks, and the TWI divider that follows APBS1.                 *)
(***************************************************************************)
LEMMA BusInvKept ==
  ASSUME IInv, [Next]_vars
  PROVE  BusInv'
<1>0. TypeOK /\ BusInv /\ bak' \in Bak /\ Prcm \in SUBSET Buses /\ Ccmu \in SUBSET Buses
      /\ Prcm \cap Ccmu = {} /\ "apbs1" \in Prcm /\ {"rv24"} \in SUBSET Buses
      /\ Prcm \cap {"rv24"} = {}
  BY SavedBy, Names DEF IInv, Buses, Prcm
<1> DEFINE Stay == /\ pc \notin {"idle"} \cup Opening /\ pc' \notin {"idle"} \cup Opening
                   /\ UNCHANGED <<bus, before>>
                   /\ pc' \in Down => pc \in Down
                   /\ pc \in PrcmKept <=> pc' \in PrcmKept
                   /\ pc \in CcmuKept <=> pc' \in CcmuKept
           Rc16 == {"pll"} \cup ToDeep \cup Deep \cup FromDeep \cup {"twireq+"}
           Apbs == {"ctl+", "ccmu+"} \cup FromCcmu \cup FromDram \cup FromCpu
<1>1. ASSUME Stay, bak'.bus = bak.bus, bak'.flag = bak.flag,
             \/ twi' = twi /\ (pc' \in Rc16 => pc \in Rc16) /\ (pc' \in Apbs => pc \in Apbs)
             \/ pc' \notin Rc16 \cup Apbs
             \/ /\ twi' = [lock |-> FALSE, div |-> bus["apbs1"].src]
                /\ pc' = "pll" \/ pc' = "ctl+"
      PROVE  BusInv'
  <2>1. /\ IF pc' \in PrcmKept THEN Kept(Prcm)' ELSE Slow(Prcm)'
        /\ IF pc' \in CcmuKept THEN Kept(Ccmu)' ELSE Slow(Ccmu)'
    BY <1>0, <1>1, BusesAlone DEF BusInv
  <2>2. pc' = "pll" => bus["apbs1"].src = "rc16"
    <3>1. pc' = "pll" => Slow(Prcm)
      BY <1>0, <1>1 DEF BusInv, Opening, PrcmKept, Deep, Up, Down, ToDevice, ToDram, ToPrcm, ToPll, ToDeep, FromDeep, FromPll, FromPrcm, FromCcmu, FromDram, FromCpu
    <3> QED BY <3>1, <1>0 DEF Slow, Prcm, Ccmu
  <2>3. pc' \in Rc16 => twi' = [lock |-> FALSE, div |-> "rc16"]
    BY <1>0, <1>1, <2>2 DEF BusInv, Deep, Up, Down, ToDevice, ToDram, ToPrcm, ToPll, ToDeep, FromDeep, FromPll, FromPrcm, FromCcmu, FromDram, FromCpu
  <2>4. pc' \in Apbs => twi' = [lock |-> FALSE, div |-> bus'["apbs1"].src]
    BY <1>0, <1>1 DEF BusInv, Deep, Up, Down, ToDevice, ToDram, ToPrcm, ToPll, ToDeep, FromDeep, FromPll, FromPrcm, FromCcmu, FromDram, FromCpu
  <2> QED BY <1>1, <2>1, <2>3, <2>4 DEF BusInv
<1>2. CASE Suspend /\ ~CcmuSlow /\ ~PrcmSlow /\ ~RailsOff /\ ~RailsRefused
  <2>1. bak'.bus = bak.bus /\ bak'.flag = bak.flag
    <3>1. ~CcmuBack /\ ~PrcmBack
      BY <1>2 DEF CcmuBack, PrcmBack, Suspend, CpuOff, DeviceSuspend, CpuPllOff, DramSuspend, CcmuSlow, CtlOff, TwiRequest, PrcmSlow,
      TwiDone, PllOff, DcxoOff, SystemSuspend, VccioOff, RailsOff, RailsRefused
    <3> QED BY <1>0, <1>2, <3>1, SavedBy
  <2>2. Stay
    BY <1>2 DEF Suspend, CpuOff, DeviceSuspend, CpuPllOff, DramSuspend, CcmuSlow, CtlOff, TwiRequest, PrcmSlow,
      TwiDone, PllOff, DcxoOff, SystemSuspend, VccioOff, RailsOff, RailsRefused, Opening, PrcmKept, CcmuKept, Deep, Up, Down, ToDevice, ToDram, ToPrcm, ToPll, ToDeep, FromDeep, FromPll, FromPrcm, FromCcmu, FromDram, FromCpu
  <2>3. \/ twi' = twi /\ (pc' \in Rc16 => pc \in Rc16) /\ (pc' \in Apbs => pc \in Apbs)
        \/ pc' \notin Rc16 \cup Apbs
        \/ /\ twi' = [lock |-> FALSE, div |-> bus["apbs1"].src]
           /\ pc' = "pll" \/ pc' = "ctl+"
    BY <1>2 DEF Suspend, CpuOff, DeviceSuspend, CpuPllOff, DramSuspend, CcmuSlow, CtlOff, TwiRequest, PrcmSlow,
      TwiDone, PllOff, DcxoOff, SystemSuspend, VccioOff, RailsOff, RailsRefused, Deep, Up, Down, ToDevice, ToDram, ToPrcm, ToPll, ToDeep, FromDeep, FromPll, FromPrcm, FromCcmu, FromDram, FromCpu
  <2> QED BY <1>1, <2>1, <2>2, <2>3
<1>3. CASE (Wake /\ pc \notin Opening) \/ Wait
  <2>1. /\ Stay /\ bak' = bak /\ twi' = twi
        /\ (pc' \in Rc16 => pc \in Rc16) /\ (pc' \in Apbs => pc \in Apbs)
    BY <1>3 DEF Wake, Wait, WaitWakeup, Doze, Tick, Opening, PrcmKept, CcmuKept, Deep, Up, Down, ToDevice, ToDram, ToPrcm, ToPll, ToDeep, FromDeep, FromPll, FromPrcm, FromCcmu, FromDram, FromCpu
  <2> QED BY <1>1, <2>1
<1>a. CASE Prepare
  <2>1. pc = "type" /\ pc' = "cpu" /\ UNCHANGED <<bus, before>> /\ bak'.flag = bak.flag
    BY <1>0, <1>a DEF Prepare, TypeOK, Bak
  <2>2. /\ Kept({"ahb", "apbs1"}) /\ bak.flag["cpus"] = 0 /\ bus["cpus"].m = before.bus["cpus"].m
        /\ bus["cpus"].src = before.bus["cpus"].src
    BY <2>1 DEF IInv, OpenInv, Opening
  <2>3. bus["cpus"] \in Clock /\ before.bus["cpus"] \in Clock
    BY <1>0, Names DEF TypeOK
  <2>4. bus["cpus"] = before.bus["cpus"]
    BY <2>2, <2>3 DEF Clock
  <2>5. Kept(Prcm)' /\ Kept(Ccmu)'
    BY <2>1, <2>2, <2>4 DEF Kept, Prcm, Ccmu
  <2> QED BY <2>1, <2>5 DEF BusInv, PrcmKept, CcmuKept, Deep, Up, Down, ToDevice, ToDram, ToPrcm, ToPll, ToDeep, FromDeep, FromPll, FromPrcm, FromCcmu, FromDram, FromCpu
<1>b. CASE pc' \in Opening
  BY <1>b DEF BusInv, Opening, Deep, Up, Down, ToDevice, ToDram, ToPrcm, ToPll, ToDeep, FromDeep, FromPll, FromPrcm, FromCcmu, FromDram, FromCpu
<1>c. Prologue => Prepare \/ pc' \in Opening
  BY DEF Prologue, Calibrate, Calibrated, Opening
<1>d. Wake /\ pc \in Opening => pc' \in Opening
  BY DEF Wake, Opening
<1>4. CASE Resume /\ ~CcmuBack /\ ~PrcmBack /\ pc' # "idle"
  <2>1. bak'.bus = bak.bus /\ bak'.flag = bak.flag
    <3>1. ~CcmuSlow /\ ~PrcmSlow
      BY <1>4 DEF CcmuSlow, PrcmSlow, Resume, RailsOn, PpuResume, DramResume, DeviceResume, VccioOn, DcxoOn, SystemResume, PllOn,
      PllTimeout, TwiRequest, PrcmBack, TwiDone, CtlOn, CcmuBack, AccessOn, NsiResume, CpuPllOn,
      CpuPllTimeout, CpuVector, CpuOn, Told, NotTold, Recovered
    <3> QED BY <1>0, <1>4, <3>1, SavedBy
  <2>2. /\ Stay
        /\ \/ twi' = twi /\ (pc' \in Rc16 => pc \in Rc16) /\ (pc' \in Apbs => pc \in Apbs)
           \/ pc' \notin Rc16 \cup Apbs
           \/ /\ twi' = [lock |-> FALSE, div |-> bus["apbs1"].src]
              /\ pc' = "pll" \/ pc' = "ctl+"
    <3>1. CASE \E ok \in BOOLEAN : RailsOn(ok) \/ PpuResume(ok) \/ DramResume(ok) \/ DeviceResume(ok)
      BY <3>1 DEF RailsOn, PpuResume, DramResume, DeviceResume, Opening, PrcmKept, CcmuKept, Deep, Up, Down, ToDevice, ToDram, ToPrcm, ToPll, ToDeep, FromDeep, FromPll, FromPrcm, FromCcmu, FromDram, FromCpu
    <3>2. CASE ResumeRest
      BY <1>4, <3>2 DEF ResumeRest, VccioOn, DcxoOn, SystemResume, PllOn, PllTimeout, TwiRequest,
        TwiDone, CtlOn, AccessOn, NsiResume, CpuPllOn, CpuPllTimeout, CpuVector, CpuOn,
        Told, NotTold, Recovered, Opening, PrcmKept, CcmuKept, Deep, Up, Down, ToDevice, ToDram, ToPrcm, ToPll, ToDeep, FromDeep, FromPll, FromPrcm, FromCcmu, FromDram, FromCpu
    <3> QED BY <1>4, <3>1, <3>2 DEF Resume, ResumeRest
  <2> QED BY <1>1, <2>1, <2>2
<1>5. CASE Resume /\ pc' = "idle"
  <2>1. pc = "restore+" /\ UNCHANGED <<bak, bus, before>>
    BY <1>5 DEF Resume, RailsOn, PpuResume, DramResume, DeviceResume, VccioOn, DcxoOn, SystemResume, PllOn,
      PllTimeout, TwiRequest, PrcmBack, TwiDone, CtlOn, CcmuBack, AccessOn, NsiResume, CpuPllOn,
      CpuPllTimeout, CpuVector, CpuOn, Told, NotTold, Recovered
  <2>2. Kept(Prcm) /\ Kept(Ccmu) /\ bak.flag["rv24"] = 0
    BY <1>0, <2>1 DEF IInv, Rv24Inv, BusInv, Opening, PrcmKept, CcmuKept, FromCpu
  <2>3. \A b \in Buses : bak'.flag[b] = 0
    BY <2>1, <2>2 DEF Kept, Buses
  <2> QED BY <1>5, <2>3 DEF BusInv, Deep, Up, Down, ToDevice, ToDram, ToPrcm, ToPll, ToDeep, FromDeep, FromPll, FromPrcm, FromCcmu, FromDram, FromCpu
<1>6. CASE CcmuSlow
  <2>1. pc = "ccmu" /\ pc' = "ctl" /\ UNCHANGED before /\ ToRc16(Ccmu, {"rv24"})
    BY <1>6 DEF CcmuSlow
  <2>2. Kept(Ccmu) /\ Kept(Prcm)
    BY <1>0, <2>1 DEF BusInv, Opening, PrcmKept, CcmuKept, Deep, Up, Down, ToDevice, ToDram, ToPrcm, ToPll, ToDeep, FromDeep, FromPll, FromPrcm, FromCcmu, FromDram, FromCpu
  <2>3. Slow(Ccmu)' /\ Kept(Prcm)'
    BY <1>0, <2>1, <2>2, SlowedDown DEF Down, ToPrcm
  <2> QED BY <2>1, <2>3 DEF BusInv, Opening, PrcmKept, CcmuKept, Deep, Up, Down, ToDevice, ToDram, ToPrcm, ToPll, ToDeep, FromDeep, FromPll, FromPrcm, FromCcmu, FromDram, FromCpu
<1>7. CASE PrcmSlow
  <2>1. pc = "prcm" /\ pc' = "twidone" /\ UNCHANGED before /\ ToRc16(Prcm, {})
    BY <1>7 DEF PrcmSlow
  <2>2. Slow(Ccmu) /\ Kept(Prcm)
    BY <1>0, <2>1 DEF BusInv, Opening, PrcmKept, CcmuKept, Deep, Up, Down, ToDevice, ToDram, ToPrcm, ToPll, ToDeep, FromDeep, FromPll, FromPrcm, FromCcmu, FromDram, FromCpu
  <2>3. Slow(Ccmu)' /\ Slow(Prcm)'
    BY <1>0, <2>1, <2>2, SlowedDown DEF Down, ToPrcm
  <2> QED BY <2>1, <2>3 DEF BusInv, Opening, PrcmKept, CcmuKept, Deep, Up, Down, ToDevice, ToDram, ToPrcm, ToPll, ToDeep, FromDeep, FromPll, FromPrcm, FromCcmu, FromDram, FromCpu
<1>8. CASE CcmuBack
  <2>1. pc = "ccmu+" /\ pc' = "access+" /\ UNCHANGED <<before, twi>> /\ Back(Ccmu)
    BY <1>8 DEF CcmuBack
  <2>2. Slow(Ccmu) /\ Kept(Prcm)
    BY <1>0, <2>1 DEF BusInv, Opening, PrcmKept, CcmuKept, Deep, Up, Down, ToDevice, ToDram, ToPrcm, ToPll, ToDeep, FromDeep, FromPll, FromPrcm, FromCcmu, FromDram, FromCpu
  <2>3. Kept(Ccmu)' /\ Kept(Prcm)'
    BY <1>0, <2>1, <2>2, BroughtBack DEF Down, ToDevice, ToDram, ToPrcm, ToPll, ToDeep, FromDeep, FromPll, FromPrcm, FromCcmu, FromDram, FromCpu
  <2>4. bus'["apbs1"] = bus["apbs1"]
    BY <1>0, <2>1, <2>2, <2>3 DEF Kept
  <2>5. twi' = [lock |-> FALSE, div |-> bus'["apbs1"].src]
    BY <1>0, <2>1, <2>4 DEF BusInv
  <2> QED BY <2>1, <2>3, <2>5 DEF BusInv, Opening, PrcmKept, CcmuKept, Deep, Up, Down, ToDevice, ToDram, ToPrcm, ToPll, ToDeep, FromDeep, FromPll, FromPrcm, FromCcmu, FromDram, FromCpu
<1>9. CASE PrcmBack
  <2>1. pc = "prcm+" /\ pc' = "twidone+" /\ UNCHANGED before /\ Back(Prcm)
    BY <1>9 DEF PrcmBack
  <2>2. Slow(Ccmu) /\ Slow(Prcm)
    BY <1>0, <2>1 DEF BusInv, Opening, PrcmKept, CcmuKept, Deep, Up, Down, ToDevice, ToDram, ToPrcm, ToPll, ToDeep, FromDeep, FromPll, FromPrcm, FromCcmu, FromDram, FromCpu
  <2>3. Slow(Ccmu)' /\ Kept(Prcm)'
    BY <1>0, <2>1, <2>2, BroughtBack DEF Down, ToDevice, ToDram, ToPrcm, ToPll, ToDeep, FromDeep, FromPll, FromPrcm, FromCcmu, FromDram, FromCpu
  <2> QED BY <2>1, <2>3 DEF BusInv, Opening, PrcmKept, CcmuKept, Deep, Up, Down, ToDevice, ToDram, ToPrcm, ToPll, ToDeep, FromDeep, FromPll, FromPrcm, FromCcmu, FromDram, FromCpu
<1>10. CASE RailsOff \/ RailsRefused
  <2>1. /\ pc = "rails" /\ pc' \in {"wait", "rails+"} /\ UNCHANGED <<before, bak, twi>>
        /\ \/ bus' = bus
           \/ bus' = [b \in Buses |-> IF b \in Ccmu THEN [src |-> "osc24", m |-> 0] ELSE bus[b]]
    BY <1>10 DEF RailsOff, RailsRefused, Lose
  <2>2. Slow(Ccmu) /\ Slow(Prcm)
    BY <1>0, <2>1 DEF BusInv, Opening, PrcmKept, CcmuKept, Deep, Up, Down, ToDevice, ToDram, ToPrcm, ToPll, ToDeep, FromDeep, FromPll, FromPrcm, FromCcmu, FromDram, FromCpu
  <2>3. pc' \notin Down
    BY <2>1 DEF Deep, Up, Down, ToDevice, ToDram, ToPrcm, ToPll, ToDeep, FromDeep, FromPll, FromPrcm, FromCcmu, FromDram, FromCpu
  <2>4. \A b \in Prcm : bus'[b] = bus[b]
    BY <1>0, <2>1
  <2>5. Slow(Prcm)'
    BY <2>1, <2>2, <2>3, <2>4 DEF Slow
  <2>6. Slow(Ccmu)'
    BY <1>0, <2>1, <2>2, <2>3 DEF Slow
  <2> QED BY <1>0, <2>1, <2>5, <2>6 DEF BusInv, Opening, PrcmKept, CcmuKept, Deep, Up, Down, ToDevice, ToDram, ToPrcm, ToPll, ToDeep, FromDeep, FromPll, FromPrcm, FromCcmu, FromDram, FromCpu
<1>11. Entry => pc' \in Opening
  BY DEF Entry, Opening
<1>12. CASE Linux \/ Reject
  <2>1. pc = "idle" /\ pc' = "idle" /\ bak' = bak
    BY <1>12 DEF Linux, Reject
  <2> QED BY <1>0, <2>1 DEF BusInv, Deep, Up, Down, ToDevice, ToDram, ToPrcm, ToPll, ToDeep, FromDeep, FromPll, FromPrcm, FromCcmu, FromDram, FromCpu
<1>13. CASE UNCHANGED vars
  BY <1>0, <1>13 DEF vars, BusInv, Kept, Slow
<1> QED BY <1>2, <1>3, <1>a, <1>b, <1>c, <1>d, <1>4, <1>5, <1>6, <1>7, <1>8, <1>9, <1>10, <1>11, <1>12, <1>13 DEF Next

(***************************************************************************)
(* The regions of the memory protection: what was in use at the request is *)
(* saved, and written back on a secure chip.                               *)
(***************************************************************************)
LEMMA SmcInvKept ==
  ASSUME IInv, [Next]_vars
  PROVE  SmcInv'
<1>0. TypeOK /\ SmcInv
  BY DEF IInv
<1> DEFINE Late == {"vector+", "cpu+", "restore+"}
           Unsaved == {"idle", "vector+", "cpu+", "restore+"} \cup ToDevice
<1>1. CASE DeviceSuspend
  <2>1. /\ pc = "device" /\ pc' = "cpupll" /\ UNCHANGED before
        /\ bak'.smc = smc_standby_init(bak.smc, smc)
    BY <1>0, <1>1 DEF DeviceSuspend, TypeOK, Bak
  <2>2. smc = before.smc /\ before.smc \in [Regions -> Nat] /\ bak.smc \in [Regions -> Nat]
    BY <1>0, <2>1 DEF SmcInv, ToDevice, TypeOK, Bak
  <2>3. \A i \in Regions : InUse(before.smc, i) => bak'.smc[i] = before.smc[i]
    BY <2>1, <2>2 DEF smc_standby_init
  <2> QED BY <2>1, <2>2, <2>3 DEF SmcInv, Deep, Up, Down, ToDevice, ToDram, ToPrcm, ToPll, ToDeep, FromDeep, FromPll, FromPrcm, FromCcmu, FromDram, FromCpu
<1>2. ASSUME NEW ok \in BOOLEAN, DeviceResume(ok) PROVE SmcInv'
  <2>1. pc = "device+" /\ pc' = "vector+" /\ UNCHANGED <<before, cfg>>
    BY <1>2 DEF DeviceResume
  <2>2. CASE ok = FALSE
    BY <1>0, <1>2, <2>1, <2>2, FailNames DEF SmcInv, Deep, Up, Down, ToDevice, ToDram, ToPrcm, ToPll, ToDeep, FromDeep, FromPll, FromPrcm, FromCcmu, FromDram, FromCpu
  <2>3. CASE ok = TRUE
    <3>1. cfg.secure => smc' = smc_standby_exit(bak.smc, smc)
      BY <1>2, <2>3 DEF DeviceResume
    <3>2. /\ before.smc \in [Regions -> Nat] /\ bak.smc \in [Regions -> Nat]
          /\ \A i \in Regions : InUse(before.smc, i) => bak.smc[i] = before.smc[i]
      BY <1>0, <2>1 DEF SmcInv, TypeOK, Bak, Deep, Up, Down, ToDevice, ToDram, ToPrcm, ToPll, ToDeep, FromDeep, FromPll, FromPrcm, FromCcmu, FromDram, FromCpu
    <3>3. \A i \in Regions : InUse(before.smc, i) => InUse(bak.smc, i)
      BY <3>2 DEF InUse, Regions
    <3>4. cfg.secure => \A i \in Regions : InUse(before.smc, i) => smc'[i] = before.smc[i]
      BY <3>1, <3>2, <3>3 DEF smc_standby_exit
    <3> QED BY <2>1, <3>2, <3>4 DEF SmcInv, Deep, Up, Down, ToDevice, ToDram, ToPrcm, ToPll, ToDeep, FromDeep, FromPll, FromPrcm, FromCcmu, FromDram, FromCpu
  <2> QED BY <2>2, <2>3
<1>3. ASSUME bak'.smc = bak.smc, UNCHANGED <<before, cfg>>, pc # "idle",
             pc' \in ToDevice \cup Late => UNCHANGED smc,
             pc' \in ToDevice => pc \in ToDevice, pc' \notin Unsaved => pc \notin Unsaved,
             pc' \in Late => pc \in Late /\ (FailedIn("smc") => FailedIn("smc")')
      PROVE  SmcInv'
  BY <1>0, <1>3 DEF SmcInv
<1>4. CASE (Suspend /\ ~DeviceSuspend) \/ Wake \/ Wait \/ Prologue
  <2>1. bak'.smc = bak.smc /\ (FailedIn("smc") => FailedIn("smc")')
    <3>1. ~DeviceSuspend
      BY <1>4 DEF DeviceSuspend, Wake, Wait, WaitWakeup, Doze, Tick, Prologue, Calibrate, Calibrated, Prepare
    <3> QED BY <1>0, <1>4, <3>1, SavedBy, StepFails
  <2>2. /\ UNCHANGED <<before, cfg>> /\ pc # "idle"
        /\ pc' \in ToDevice \cup Late => UNCHANGED smc
        /\ pc' \in ToDevice => pc \in ToDevice
        /\ pc' \notin Unsaved => pc \notin Unsaved
        /\ pc' \in Late => pc \in Late
    BY <1>4 DEF Wake, Wait, WaitWakeup, Doze, Tick, Prologue, Calibrate, Calibrated, Prepare, Suspend, CpuOff, DeviceSuspend, CpuPllOff, DramSuspend, CcmuSlow, CtlOff, TwiRequest, PrcmSlow,
      TwiDone, PllOff, DcxoOff, SystemSuspend, VccioOff, RailsOff, RailsRefused, Deep, Up, Down, ToDevice, ToDram, ToPrcm, ToPll, ToDeep, FromDeep, FromPll, FromPrcm, FromCcmu, FromDram, FromCpu
  <2> QED BY <1>3, <2>1, <2>2
<1>5. CASE Resume /\ ~\E ok \in BOOLEAN : DeviceResume(ok)
  <2>1. bak'.smc = bak.smc /\ (FailedIn("smc") => FailedIn("smc")')
    <3>1. ~DeviceSuspend
      BY <1>5 DEF DeviceSuspend, Resume, RailsOn, PpuResume, DramResume, DeviceResume, VccioOn, DcxoOn, SystemResume, PllOn,
      PllTimeout, TwiRequest, PrcmBack, TwiDone, CtlOn, CcmuBack, AccessOn, NsiResume, CpuPllOn,
      CpuPllTimeout, CpuVector, CpuOn, Told, NotTold, Recovered
    <3> QED BY <1>0, <1>5, <3>1, SavedBy, StepFails
  <2>2. /\ UNCHANGED <<before, cfg, smc>> /\ pc # "idle"
        /\ pc' \in ToDevice => pc \in ToDevice
        /\ pc' \notin Unsaved => pc \notin Unsaved
        /\ pc' \in Late => pc \in Late
    <3>1. CASE \E ok \in BOOLEAN : RailsOn(ok) \/ PpuResume(ok) \/ DramResume(ok) \/ DeviceResume(ok)
      BY <1>5, <3>1 DEF RailsOn, PpuResume, DramResume, Deep, Up, Down, ToDevice, ToDram, ToPrcm, ToPll, ToDeep, FromDeep, FromPll, FromPrcm, FromCcmu, FromDram, FromCpu
    <3>2. CASE ResumeRest
      BY <3>2 DEF ResumeRest, VccioOn, DcxoOn, SystemResume, PllOn,
        PllTimeout, TwiRequest, PrcmBack, TwiDone, CtlOn, CcmuBack, AccessOn, NsiResume, CpuPllOn,
        CpuPllTimeout, CpuVector, CpuOn, Told, NotTold, Recovered, Deep, Up, Down, ToDevice, ToDram, ToPrcm, ToPll, ToDeep, FromDeep, FromPll, FromPrcm, FromCcmu, FromDram, FromCpu
    <3> QED BY <1>5, <3>1, <3>2 DEF Resume, ResumeRest
  <2> QED BY <1>3, <2>1, <2>2
<1>6. CASE Entry
  <2>1. pc' \in {"hosc", "type"} /\ UNCHANGED smc /\ before'.smc = smc
    BY <1>6 DEF Entry, Settings
  <2> QED BY <1>0, <2>1 DEF SmcInv, TypeOK, Deep, Up, Down, ToDevice, ToDram, ToPrcm, ToPll, ToDeep, FromDeep, FromPll, FromPrcm, FromCcmu, FromDram, FromCpu
<1>7. CASE Linux \/ Reject
  <2>1. pc' = "idle"
    BY <1>7 DEF Linux, Reject
  <2> QED BY <2>1 DEF SmcInv, Deep, Up, Down, ToDevice, ToDram, ToPrcm, ToPll, ToDeep, FromDeep, FromPll, FromPrcm, FromCcmu, FromDram, FromCpu
<1>8. CASE UNCHANGED vars
  BY <1>0, <1>8 DEF vars, SmcInv, FailedIn
<1> QED BY <1>1, <1>2, <1>4, <1>5, <1>6, <1>7, <1>8 DEF Next

(***************************************************************************)
(* Types.                                                                  *)
(***************************************************************************)
LEMMA TypeOKKept ==
  ASSUME IInv, [Next]_vars
  PROVE  TypeOK'
<1>0. TypeOK
  BY DEF IInv
<1>1. bak' \in Bak
  BY <1>0, SavedBy
<1>2. fails' \in Seq(Failures)
  <2>1. CASE Reject
    <3>1. \E why \in Failures : fails' = <<why>>
      BY <2>1 DEF Reject, Failures
    <3> QED BY <3>1
  <2>2. CASE Entry
    BY <2>2 DEF Entry
  <2>3. CASE UNCHANGED vars
    BY <1>0, <2>3 DEF vars, TypeOK
  <2> QED BY <1>0, <2>1, <2>2, <2>3, StepFails DEF Next
<1>3. pc' \in Pcs /\ off' \subseteq Parts /\ lost' \subseteq {"access", "nsi", "smc"}
  <2>1. CASE Suspend
    BY <1>0, <2>1 DEF TypeOK, Rails, Lose, Pcs, Parts, Suspend, CpuOff, DeviceSuspend, CpuPllOff, DramSuspend, CcmuSlow, CtlOff, TwiRequest, PrcmSlow,
      TwiDone, PllOff, DcxoOff, SystemSuspend, VccioOff, RailsOff, RailsRefused, Deep, Up, Down, ToDevice, ToDram, ToPrcm, ToPll, ToDeep, FromDeep, FromPll, FromPrcm, FromCcmu, FromDram, FromCpu
  <2>2. CASE \E ok \in BOOLEAN : RailsOn(ok) \/ PpuResume(ok) \/ DramResume(ok) \/ DeviceResume(ok)
    BY <1>0, <2>2 DEF TypeOK, RailsOn, PpuResume, DramResume, DeviceResume, Pcs, Deep, Up, Down, ToDevice, ToDram, ToPrcm, ToPll, ToDeep, FromDeep, FromPll, FromPrcm, FromCcmu, FromDram, FromCpu
  <2>3. CASE ResumeRest
    BY <1>0, <2>3 DEF TypeOK, ResumeRest, VccioOn, DcxoOn, SystemResume, PllOn,
        PllTimeout, TwiRequest, PrcmBack, TwiDone, CtlOn, CcmuBack, AccessOn, NsiResume, CpuPllOn,
        CpuPllTimeout, CpuVector, CpuOn, Told, NotTold, Recovered, Pcs, Deep, Up, Down, ToDevice, ToDram, ToPrcm, ToPll, ToDeep, FromDeep, FromPll, FromPrcm, FromCcmu, FromDram, FromCpu
  <2>4. CASE Reject \/ Entry \/ Linux \/ Wake \/ Wait \/ Prologue \/ UNCHANGED vars
    BY <1>0, <2>4 DEF TypeOK, Reject, Entry, Linux, Wake, Wait, WaitWakeup, Doze, Tick, Prologue, Calibrate, Calibrated, Prepare, vars, Pcs, Deep, Up, Down, ToDevice, ToDram, ToPrcm, ToPll, ToDeep, FromDeep, FromPll, FromPrcm, FromCcmu, FromDram, FromCpu
  <2> QED BY <2>1, <2>2, <2>3, <2>4 DEF Next, Resume, ResumeRest
<1>4. dcxo' \in BOOLEAN /\ dram' \in BOOLEAN /\ wait_restore' \in BOOLEAN /\ n' \in Nat
  <2>1. CASE Suspend
    BY <1>0, <2>1 DEF TypeOK, ccu_24mhosc_disable, Suspend, CpuOff, DeviceSuspend, CpuPllOff, DramSuspend, CcmuSlow, CtlOff, TwiRequest, PrcmSlow,
      TwiDone, PllOff, DcxoOff, SystemSuspend, VccioOff, RailsOff, RailsRefused
  <2>2. CASE \E ok \in BOOLEAN : RailsOn(ok) \/ PpuResume(ok) \/ DramResume(ok) \/ DeviceResume(ok)
    BY <1>0, <2>2 DEF TypeOK, RailsOn, PpuResume, DramResume, DeviceResume
  <2>3. CASE ResumeRest
    BY <1>0, <2>3 DEF TypeOK, ccu_24mhosc_enable, ResumeRest, VccioOn, DcxoOn, SystemResume, PllOn,
        PllTimeout, TwiRequest, PrcmBack, TwiDone, CtlOn, CcmuBack, AccessOn, NsiResume, CpuPllOn,
        CpuPllTimeout, CpuVector, CpuOn, Told, NotTold, Recovered
  <2>4. CASE Reject \/ Entry \/ Linux \/ Wake \/ Wait \/ Prologue \/ UNCHANGED vars
    BY <1>0, <2>4 DEF TypeOK, Reject, Entry, Linux, Wake, Wait, WaitWakeup, Doze, Tick, Prologue, Calibrate, Calibrated, Prepare, vars
  <2> QED BY <2>1, <2>2, <2>3, <2>4 DEF Next, Resume, ResumeRest
<1>5. pll' \in [Plls -> PllState] /\ bus' \in [Buses -> Clock] /\ core' \in Core /\ smc' \in [Regions -> Nat]
  <2>0. /\ pll \in [Plls -> PllState] /\ bus \in [Buses -> Clock] /\ core \in Core
        /\ smc \in [Regions -> Nat] /\ bak \in Bak
    BY <1>0 DEF TypeOK
  <2>1. CASE UNCHANGED <<pll, bus, core, smc>>
    BY <2>0, <2>1
  <2>2. CASE Linux
    <3>1. PICK s \in UsableSettings : /\ pll' = s.pll /\ core' = s.core /\ smc' = s.smc
                                      /\ bus' = [s.bus EXCEPT !["rv24"] = bus["rv24"]]
      BY <2>2 DEF Linux
    <3>2. s.core \in Core
      BY DEF UsableSettings, Setting, Core
    <3>3. s.bus \in [Buses -> Clock] /\ bus["rv24"] \in Clock
      BY <2>0, UsableWorks, Names
    <3>4. bus' \in [Buses -> Clock]
      BY <3>1, <3>3
    <3> QED BY <3>1, <3>2, <3>4, UsableWorks
  <2>3. CASE CpuPllOff \/ CpuPllOn
    BY <2>0, <2>3 DEF CpuPllOff, CpuPllOn, Core, Bak
  <2>4. CASE PllOff \/ PllOn
    BY <2>0, <2>4 DEF PllOff, PllOn, PllState, Bak
  <2>5. ASSUME NEW i \in DOMAIN PllOrder, PllTimeout(i)
        PROVE  /\ pll' \in [Plls -> PllState] /\ bus' \in [Buses -> Clock] /\ core' \in Core
               /\ smc' \in [Regions -> Nat]
    <3> DEFINE K(p) == CHOOSE j \in DOMAIN PllOrder : PllOrder[j] = p
    <3>1. pll' = [p \in Plls |-> IF K(p) > i THEN pll[p]
                                 ELSE IF Locking(p) THEN "gated" ELSE bak.pll[p]]
      BY <2>5 DEF PllTimeout
    <3> HIDE DEF K
    <3>2. pll' \in [Plls -> PllState]
      BY <2>0, <3>1 DEF PllState, Bak
    <3> QED BY <2>0, <2>5, <3>2 DEF PllTimeout
  <2>6. CASE CcmuSlow \/ PrcmSlow
    <3>1. \E bs :
            bus' = [b \in Buses |-> IF b \in bs THEN [src |-> "rc16", m |-> 0] ELSE bus[b]]
      BY <2>6 DEF CcmuSlow, PrcmSlow, ToRc16
    <3>2. [src |-> "rc16", m |-> 0] \in Clock
      BY DEF Clock
    <3> QED BY <2>0, <2>6, <3>1, <3>2 DEF CcmuSlow, PrcmSlow
  <2>7. CASE CcmuBack \/ PrcmBack
    <3>1. \E bs \in {Ccmu, Prcm} :
            bus' = [b \in Buses |-> IF b \in bs /\ bak.flag[b] = 1
               THEN [src |-> bak.bus[b].src, m |-> IF bus[b].m = 1 THEN 1 ELSE bak.bus[b].m]
               ELSE bus[b]]
      BY <2>7 DEF CcmuBack, PrcmBack, Back
    <3>2. \A b \in Buses : [src |-> bak.bus[b].src, m |-> IF bus[b].m = 1 THEN 1 ELSE bak.bus[b].m] \in Clock
      BY <2>0 DEF Bak, Clock
    <3> QED BY <2>0, <2>7, <3>1, <3>2 DEF CcmuBack, PrcmBack
  <2>8. CASE RailsOff \/ RailsRefused
    <3>1. /\ [src |-> "osc24", m |-> 0] \in Clock /\ [src |-> "osc24", pll |-> "off"] \in Core
          /\ "off" \in PllState
      BY DEF Clock, Core, PllState
    <3>2. \E cut : Lose(cut)
      BY <2>8 DEF RailsOff, RailsRefused
    <3> QED BY <2>0, <3>1, <3>2 DEF Lose
  <2>a. CASE Prologue
    <3>1. /\ UNCHANGED <<pll, core, smc>>
          /\ \/ bus' = bus
             \/ \E c \in {"osc24", "rc16", before.bus["cpus"].src} : bus' = [bus EXCEPT !["cpus"].src = c]
      BY <2>a DEF Prologue, Calibrate, Calibrated, Prepare
    <3>2. bus["cpus"] \in Clock /\ before.bus["cpus"] \in Clock
      BY <1>0, Names DEF TypeOK
    <3>3. \A c \in {"osc24", "rc16", before.bus["cpus"].src} : [bus["cpus"] EXCEPT !.src = c] \in Clock
      BY <3>2 DEF Clock
    <3>4. bus' \in [Buses -> Clock]
      BY <2>0, <3>1, <3>3
    <3> QED BY <2>0, <3>1, <3>4
  <2>9. ASSUME NEW ok \in BOOLEAN, DeviceResume(ok)
        PROVE  /\ pll' \in [Plls -> PllState] /\ bus' \in [Buses -> Clock] /\ core' \in Core
               /\ smc' \in [Regions -> Nat]
    <3>1. smc_standby_exit(bak.smc, smc) \in [Regions -> Nat]
      BY <2>0 DEF smc_standby_exit, Bak
    <3> QED BY <2>0, <2>9, <3>1 DEF DeviceResume
  <2>10. \/ UNCHANGED <<pll, bus, core, smc>> \/ Linux \/ CpuPllOff \/ CpuPllOn \/ PllOff \/ PllOn
         \/ (\E i \in DOMAIN PllOrder : PllTimeout(i)) \/ CcmuSlow \/ PrcmSlow \/ CcmuBack \/ PrcmBack
         \/ RailsOff \/ RailsRefused \/ Prologue \/ \E ok \in BOOLEAN : DeviceResume(ok)
    BY DEF Next, Suspend, Resume, Reject, Entry, Wake, Wait, WaitWakeup, Doze, Tick, vars, CpuOff, DeviceSuspend,
       DramSuspend, CtlOff, TwiRequest, TwiDone, DcxoOff, SystemSuspend, VccioOff,
       RailsOn, PpuResume, DramResume, VccioOn, DcxoOn, SystemResume, CtlOn, AccessOn, NsiResume,
       CpuPllTimeout, CpuVector, CpuOn, Told, NotTold, Recovered
  <2> QED BY <2>1, <2>2, <2>3, <2>4, <2>5, <2>6, <2>7, <2>8, <2>a, <2>9, <2>10
<1>6. before'.bus \in [Buses -> Clock]
  <2>1. CASE Entry
    <3>1. before' = Settings
      BY <2>1 DEF Entry
    <3> QED BY <1>0, <3>1 DEF Settings, TypeOK
  <2>2. Entry \/ UNCHANGED before
    BY DEF Next, Suspend, Resume, Reject, Linux, Wake, Wait, WaitWakeup, Doze, Tick, Prologue, Calibrate, Calibrated, Prepare, vars, CpuOff, DeviceSuspend,
       CpuPllOff, DramSuspend, CcmuSlow, CtlOff, TwiRequest, PrcmSlow, TwiDone, PllOff, DcxoOff,
       SystemSuspend, VccioOff, RailsOff, RailsRefused, RailsOn, PpuResume, DramResume, DeviceResume,
       VccioOn, DcxoOn, SystemResume, PllOn, PllTimeout, PrcmBack, CtlOn, CcmuBack, AccessOn,
       NsiResume, CpuPllOn, CpuPllTimeout, CpuVector, CpuOn, Told, NotTold, Recovered
  <2> QED BY <1>0, <2>1, <2>2 DEF TypeOK
<1> QED BY <1>1, <1>2, <1>3, <1>4, <1>5, <1>6 DEF TypeOK

-----------------------------------------------------------------------------
(* The theorems. *)

\* The state the firmware starts in satisfies the invariant.
LEMMA InitIInv == Init => IInv
<1> SUFFICES ASSUME Init PROVE IInv
  OBVIOUS
<1>1. PICK s \in UsableSettings : pll = s.pll /\ bus = s.bus /\ core = s.core /\ smc = s.smc
  BY DEF Init
<1>2. /\ pll \in [Plls -> PllState] /\ bus \in [Buses -> Clock] /\ smc \in [Regions -> Nat]
      /\ Works(pll, bus) /\ Usable(core) /\ bus["rv24"].src = "osc24"
  BY <1>1, UsableWorks
<1>3. core \in Core
  BY <1>1 DEF UsableSettings, Setting, Core
<1>4. fails = <<>> /\ fails \in Seq(Failures) /\ n = 0 /\ pc = "idle"
  BY DEF Init
<1>5. bak \in Bak
  <2>1. [src |-> "osc24", m |-> 0] \in Clock /\ [src |-> "osc24", pll |-> "off"] \in Core
    BY DEF Clock, Core
  <2>2. <<0, 0>> \in [Regions -> Nat]
    BY DEF Regions
  <2> QED BY <2>1, <2>2 DEF Init, Bak, PllState
<1>6. \A w : ~FailedIn(w)
  BY <1>4 DEF FailedIn
<1> USE DEF Deep, Up, Down, ToDevice, ToDram, ToPrcm, ToPll, ToDeep, FromDeep, FromPll, FromPrcm,
            FromCcmu, FromDram, FromCpu, Opening, Waiting
<1>7. TypeOK
  <2>1. before.bus = bus
    BY DEF Init, Settings
  <2>2. /\ pc = "idle" /\ off = {} /\ lost = {} /\ dcxo = TRUE /\ dram = TRUE /\ wait_restore = FALSE
    BY DEF Init
  <2>3. /\ pc \in Pcs /\ off \subseteq Parts /\ lost \subseteq {"access", "nsi", "smc"}
        /\ dcxo \in BOOLEAN /\ dram \in BOOLEAN /\ wait_restore \in BOOLEAN
    BY <2>2 DEF Pcs
  <2> QED BY <1>2, <1>3, <1>4, <1>5, <2>1, <2>3 DEF TypeOK
<1>8. OffInv /\ LostInv /\ DcxoInv
  BY <1>4 DEF Init, OffInv, LostInv, DcxoInv
<1>9. PllInv /\ CoreInv /\ SmcInv
  BY <1>2, <1>4, <1>6 DEF PllInv, CoreInv, SmcInv
<1>10. BusInv /\ OpenInv
  BY <1>4 DEF Init, BusInv, OpenInv
<1>12. Rv24Inv
  BY <1>2, <1>4, Names DEF Init, Rv24Inv, Early24
<1>11. ResultInv
  BY <1>4 DEF Init, ResultInv, Honest, NoWake
<1> QED BY <1>7, <1>8, <1>9, <1>10, <1>11, <1>12 DEF IInv

\* At every step of every transaction the machine is in the state the steps
\* taken so far put it in, whatever failed among them.
THEOREM StandbyInductive == Spec => []IInv
<1>1. IInv /\ [Next]_vars => IInv'
  <2> SUFFICES ASSUME IInv, [Next]_vars PROVE IInv'
    OBVIOUS
  <2>1. TypeOK' /\ OffInv' /\ LostInv' /\ DcxoInv' /\ PllInv'
    BY TypeOKKept, OffInvKept, LostInvKept, DcxoInvKept, PllInvKept
  <2>2. OpenInv' /\ Rv24Inv' /\ BusInv' /\ CoreInv' /\ SmcInv' /\ ResultInv'
    BY OpenInvKept, Rv24InvKept, BusInvKept, CoreInvKept, SmcInvKept, ResultInvKept
  <2> QED BY <2>1, <2>2 DEF IInv
<1> QED BY InitIInv, <1>1, PTL DEF Spec

\* The E902 never stops what it is running on: its own clock, the buses, the
\* TWI it reaches the PMIC through and the timers of its delays run at every
\* step of standby_process_init and standby_process_exit that needs them.
THEOREM StandbyClocked == Spec => []Clocked
<1>1. IInv => Clocked
  <2> SUFFICES ASSUME IInv PROVE Clocked
    OBVIOUS
  <2> USE DEF Deep, Up, Down, ToDevice, ToDram, ToPrcm, ToPll, ToDeep, FromDeep, FromPll, FromPrcm,
              FromCcmu, FromDram, FromCpu, Pcs, PrcmKept, CcmuKept, Opening, Waiting
  <2>1. pc \in Pcs /\ OffInv /\ DcxoInv /\ PllInv /\ BusInv /\ OpenInv /\ Rv24Inv
    BY DEF IInv, TypeOK
  <2>2. ClocksRun
    <3> SUFFICES ASSUME NEW b \in Buses, "pll" \notin broken, b \notin Ccmu \/ "sys" \notin off
                 PROVE  Runs(bus[b].src)
      BY DEF ClocksRun
    <3>1. CASE bus[b].src = "rc16"
      BY <3>1 DEF Runs
    <3>2. CASE bus[b].src = "osc24" /\ dcxo
      BY <3>2 DEF Runs
    <3>3. CASE dcxo /\ bus[b].src \in Plls /\ Output(pll[bus[b].src])
      <4>1. bus[b].src \notin {"rc16", "osc24"}
        BY <3>3, Names
      <4> QED BY <3>3, <4>1 DEF Runs
    <3>4. pc \in Deep => "sys" \in off
      BY <2>1 DEF OffInv
    <3>5. pc \notin Deep \cup {"sys"} => dcxo
      BY <2>1 DEF DcxoInv
    <3>0. CASE pc \in Opening /\ b # "rv24"
      <4>1. pll = before.pll /\ Works(before.pll, before.bus) /\ dcxo
        BY <2>1, <3>0, <3>5 DEF PllInv
      <4>2. bus[b].src \in {"osc24", "rc16", before.bus[b].src}
        BY <2>1, <3>0, Names DEF OpenInv, Kept
      <4>3. before.bus[b].src \in {"osc24", "rc16"} \/ (before.bus[b].src \in Plls /\ Output(pll[before.bus[b].src]))
        BY <4>1 DEF Works
      <4> QED BY <4>1, <4>2, <4>3, <3>1, <3>2, <3>3
    <3>8. CASE b = "rv24"
      <4>1. bus[b].src = "rc16" \/ (bus[b].src = "osc24" /\ pc \notin Deep \cup {"sys"})
        BY <2>1, <3>8 DEF Rv24Inv, Early24
      <4> QED BY <4>1, <3>1, <3>2, <3>5
    <3>6. CASE b \in Prcm /\ pc \notin Opening
      <4>1. CASE pc = "idle"
        BY <2>1, <4>1, <3>1, <3>2, <3>3, <3>5 DEF PllInv, Works
      <4>2. CASE pc \in PrcmKept
        <5>1. bus[b] = before.bus[b] /\ pll = before.pll /\ Works(before.pll, before.bus) /\ dcxo
          BY <2>1, <3>6, <4>2, <3>5 DEF PllInv, BusInv, Kept
        <5> QED BY <5>1, <3>1, <3>2, <3>3 DEF Works
      <4>3. CASE pc # "idle" /\ pc \notin PrcmKept
        <5>1. Slow(Prcm)
          BY <2>1, <4>3, <3>6 DEF BusInv
        <5> QED BY <5>1, <3>6, <3>1, Names DEF Slow
      <4> QED BY <4>1, <4>2, <4>3
    <3>7. CASE b \in Ccmu /\ pc \notin Opening
      <4>1. CASE pc = "idle"
        BY <2>1, <4>1, <3>1, <3>2, <3>3, <3>5 DEF PllInv, Works
      <4>2. CASE pc \in CcmuKept
        <5>1. bus[b] = before.bus[b] /\ pll = before.pll /\ Works(before.pll, before.bus) /\ dcxo
          BY <2>1, <3>7, <4>2, <3>5 DEF PllInv, BusInv, Kept
        <5> QED BY <5>1, <3>1, <3>2, <3>3 DEF Works
      <4>3. CASE pc # "idle" /\ pc \notin CcmuKept
        <5>1. Slow(Ccmu)
          BY <2>1, <4>3, <3>7 DEF BusInv
        <5>2. bus[b].src = "rc16" \/ (bus[b].src = "osc24" /\ pc \notin Down)
          BY <5>1, <3>7 DEF Slow
        <5> QED BY <5>2, <3>7, <3>1, <3>2, <3>4, <3>5
      <4> QED BY <4>1, <4>2, <4>3
    <3> QED BY <3>0, <3>6, <3>7, <3>8 DEF Buses
  <2>3. RailsReachable
    <3> SUFFICES ASSUME pc \in {"rails", "rails+"}
                 PROVE  ~twi.lock /\ twi.div = bus["apbs1"].src /\ Runs(bus["apbs1"].src)
      BY DEF RailsReachable
    <3>1. twi = [lock |-> FALSE, div |-> "rc16"]
      BY <2>1 DEF BusInv
    <3>2. Slow(Prcm)
      BY <2>1 DEF BusInv
    <3>3. bus["apbs1"].src = "rc16"
      BY <3>2 DEF Slow, Prcm, Ccmu
    <3> QED BY <3>1, <3>3 DEF Runs
  <2>4. DelayEnds
    BY <2>1 DEF DelayEnds, DcxoInv, TimerRuns
  <2> QED BY <2>2, <2>3, <2>4 DEF Clocked
<1> QED BY <1>1, StandbyInductive, PTL

\* No domain is used without its power, its clock or its contents: the system
\* domain is isolated before its rails go, the DRAM in self-refresh before its
\* PLL and clocks do, and CPU0 runs only once everything is back.
THEOREM StandbyPowered == Spec => []Powered
<1>1. IInv => Powered
  <2> SUFFICES ASSUME IInv PROVE Powered
    OBVIOUS
  <2> USE DEF Deep, Up, Down, ToDevice, ToDram, ToPrcm, ToPll, ToDeep, FromDeep, FromPll, FromPrcm,
              FromCcmu, FromDram, FromCpu, Pcs, Opening, Waiting
  <2>1. /\ pc \in Pcs /\ off \subseteq Parts /\ lost \subseteq {"access", "nsi", "smc"}
        /\ OffInv /\ LostInv /\ DcxoInv /\ PllInv /\ CoreInv
    BY DEF IInv, TypeOK
  <2>2. Isolation
    BY <2>1 DEF Isolation, OffInv
  <2>3. DramSafe
    <3> SUFFICES ASSUME "dram" \notin off
                 PROVE  /\ "ctl" \notin off
                        /\ Runs("ddr") \/ "pll" \in broken
                        /\ "rails" \notin off \/ "rails" \in broken
      BY DEF DramSafe
    <3>1. pc \in {"idle"} \cup ToDevice \cup ToDram \cup FromDram \cup FromCpu
      BY <2>1 DEF OffInv
    <3>2. "ctl" \notin off /\ ("rails" \notin off \/ "rails" \in broken)
      BY <2>1, <3>1 DEF OffInv
    <3>3. dcxo
      BY <2>1, <3>1 DEF DcxoInv
    <3>4. "pll" \in broken \/ Output(pll["ddr"])
      BY <2>1, <3>1 DEF PllInv, Works
    <3> QED BY <3>2, <3>3, <3>4 DEF Runs
  <2>4. CpuSafe
    <3> SUFFICES ASSUME "cpu" \notin off
                 PROVE  /\ off \subseteq {"rails", "stray", "auto"} /\ {"access", "nsi"} \cap lost = {}
                        /\ usb = [iso |-> {}, held |-> {}]
                        /\ core.src = "pll" => Output(core.pll)
                        /\ vector = "set"
      BY DEF CpuSafe
    <3>1. pc \in {"idle", "cpu", "restore+"} \cup Opening
      BY <2>1 DEF OffInv
    <3>2. off \subseteq {"rails", "stray", "auto"}
      BY <2>1, <3>1 DEF OffInv, Parts
    <3>3. {"access", "nsi"} \cap lost = {} /\ vector = "set"
      BY <2>1, <3>1 DEF LostInv
    <3>4. usb = [iso |-> {}, held |-> {}]
      BY <2>1, <3>1 DEF LostInv
    <3> QED BY <2>1, <3>2, <3>3, <3>4 DEF CoreInv, Usable
  <2> QED BY <2>2, <2>3, <2>4 DEF Powered
<1> QED BY <1>1, StandbyInductive, PTL

\* standby_entry returns the earliest failure of its transaction, and OK only
\* after one in which the checksum, if on, held and CPU0 was told why.
THEOREM StandbyHonest == Spec => []Honest
<1>1. IInv => Honest
  BY DEF IInv, ResultInv
<1> QED BY <1>1, StandbyInductive, PTL

\* A transaction in which nothing failed on the way back leaves every clock of
\* Linux, timer and interface as it found them, also when dm_suspend failed at
\* any rail; RV_24M_CLK_REG and the automatic clocks stay as it set them.
THEOREM StandbyRestored == Spec => Restored
<1> DEFINE Undone ==
      (pc # "idle" /\ pc' = "idle" /\ cfg.dtb /\ fails' \in {<<>>, <<"dm_suspend">>, <<"cpu0">>}) =>
       /\ pll' = before.pll /\ core' = before.core
       /\ bus' = [before.bus EXCEPT !["rv24"] = [src |-> "rc16", m |-> 0]]
       /\ cfg.secure => \A i \in DOMAIN smc : InUse(before.smc, i) => smc'[i] = before.smc[i]
       /\ tsrc' = "ref" /\ dcxo' /\ lost' = {}
       /\ off' = {"auto"} \/ (off' = {"auto", "stray"} /\ fails' = <<"dm_suspend">>)
       /\ twi' = [lock |-> FALSE, div |-> bus'["apbs1"].src]
       /\ \A b \in Buses : bak'.flag[b] = 0
<1>1. ASSUME IInv, [Next]_vars, pc # "idle", pc' = "idle",
             fails' \in {<<>>, <<"dm_suspend">>, <<"cpu0">>}
      PROVE  /\ pll' = before.pll /\ core' = before.core
             /\ bus' = [before.bus EXCEPT !["rv24"] = [src |-> "rc16", m |-> 0]]
             /\ cfg.secure => \A i \in DOMAIN smc : InUse(before.smc, i) => smc'[i] = before.smc[i]
             /\ tsrc' = "ref" /\ dcxo' /\ lost' = {}
             /\ off' = {"auto"} \/ (off' = {"auto", "stray"} /\ fails' = <<"dm_suspend">>)
             /\ twi' = [lock |-> FALSE, div |-> bus'["apbs1"].src]
             /\ \A b \in Buses : bak'.flag[b] = 0
  <2> USE DEF Deep, Up, Down, ToDevice, ToDram, ToPrcm, ToPll, ToDeep, FromDeep, FromPll, FromPrcm,
              FromCcmu, FromDram, FromCpu, PrcmKept, CcmuKept, Opening, Waiting
  <2>0. /\ TypeOK /\ OffInv /\ LostInv /\ DcxoInv /\ PllInv /\ BusInv /\ Rv24Inv /\ CoreInv /\ SmcInv
    BY <1>1 DEF IInv
  <2>1. Told \/ NotTold \/ Recovered
    BY <1>1 DEF Next, Reject, Entry, Linux, Wake, Wait, WaitWakeup, Doze, Tick, Prologue, Calibrate, Calibrated, Prepare, Suspend, Resume, CpuOff, DeviceSuspend,
       CpuPllOff, DramSuspend, CcmuSlow, CtlOff, TwiRequest, PrcmSlow, TwiDone, PllOff, DcxoOff,
       SystemSuspend, VccioOff, RailsOff, RailsRefused, RailsOn, PpuResume, DramResume, DeviceResume,
       VccioOn, DcxoOn, SystemResume, PllOn, PllTimeout, PrcmBack, CtlOn, CcmuBack, AccessOn,
       NsiResume, CpuPllOn, CpuPllTimeout, CpuVector, CpuOn, vars
  <2>2. /\ pc = "restore+" /\ UNCHANGED <<dcxo, tsrc, pll, bus, core, off, lost, twi, smc, bak>>
        /\ Resume
    BY <2>1 DEF Told, NotTold, Recovered, Resume
  <2>3. \A w : FailedIn(w) => w \in {"dm_suspend", "cpu0"}
    <3>1. \A w : FailedIn(w) => FailedIn(w)'
      BY <2>0, <2>2, StepFails
    <3>2. \A w : FailedIn(w)' => w \in {"dm_suspend", "cpu0"}
      <4>1. CASE fails' = <<>>
        BY <4>1 DEF FailedIn
      <4>2. CASE fails' = <<"dm_suspend">> \/ fails' = <<"cpu0">>
        <5>1. Len(fails') = 1 /\ fails'[1] \in {"dm_suspend", "cpu0"}
          BY <4>2
        <5> QED BY <5>1 DEF FailedIn
      <4> QED BY <1>1, <4>1, <4>2
    <3> QED BY <3>1, <3>2
  <2>4. ~FailedIn("pll") /\ ~FailedIn("cpupll") /\ ~FailedIn("smc") /\ ~FailedIn("dm_resume")
    BY <2>3
  <2>5. pll = before.pll /\ core = before.core
    BY <2>0, <2>2, <2>4 DEF PllInv, CoreInv
  <2>6. Kept(Prcm) /\ Kept(Ccmu)
    BY <2>0, <2>2 DEF BusInv
  <2>7. bus = [before.bus EXCEPT !["rv24"] = [src |-> "rc16", m |-> 0]]
    <3>1. bus \in [Buses -> Clock] /\ before.bus \in [Buses -> Clock]
      BY <2>0 DEF TypeOK
    <3>2. \A b \in Prcm \cup Ccmu : bus[b] = before.bus[b]
      BY <2>6 DEF Kept
    <3>3. bus["rv24"] = [src |-> "rc16", m |-> 0]
      BY <2>0, <2>2 DEF Rv24Inv, Early24
    <3> QED BY <3>1, <3>2, <3>3 DEF Buses
  <2>9. cfg.secure => \A i \in DOMAIN smc : InUse(before.smc, i) => smc'[i] = before.smc[i]
    <3>1. DOMAIN smc = Regions
      BY <2>0 DEF TypeOK
    <3> QED BY <2>0, <2>2, <2>4, <3>1 DEF SmcInv
  <2>10. lost = {} /\ off \subseteq {"auto", "stray"} /\ "auto" \in off
    <3>1. off \subseteq Parts /\ lost \subseteq {"access", "nsi", "smc"}
      BY <2>0 DEF TypeOK
    <3>2. {"cpu", "msgbox", "dram", "ctl", "sys", "vccio", "rails"} \cap off = {} /\ "auto" \in off
      BY <2>0, <2>2, <2>4 DEF OffInv
    <3>3. {"access", "nsi", "smc"} \cap lost = {}
      BY <2>0, <2>2, <2>4 DEF LostInv
    <3> QED BY <3>1, <3>2, <3>3 DEF Parts
  <2>14. "stray" \in off => fails' = <<"dm_suspend">>
    <3>1. "stray" \in off => FailedIn("dm_suspend")'
      BY <2>0, <2>2, StepFails DEF OffInv
    <3>2. fails' = <<>> \/ fails' = <<"cpu0">> => ~FailedIn("dm_suspend")'
      BY DEF FailedIn
    <3> QED BY <1>1, <3>1, <3>2
  <2>15. off' = {"auto"} \/ (off' = {"auto", "stray"} /\ fails' = <<"dm_suspend">>)
    BY <2>2, <2>10, <2>14
  <2>11. tsrc = "ref" /\ dcxo
    BY <2>0, <2>2 DEF DcxoInv
  <2>12. twi = [lock |-> FALSE, div |-> bus["apbs1"].src]
    BY <2>0, <2>2 DEF BusInv
  <2>13. \A b \in Buses : bak'.flag[b] = 0
    BY <2>0, <2>2, <2>6 DEF Kept, Buses, Rv24Inv
  <2> QED BY <2>2, <2>5, <2>7, <2>9, <2>10, <2>11, <2>12, <2>13, <2>15
<1>2. IInv /\ [Next]_vars => [Undone]_vars
  BY <1>1
<1> QED BY <1>2, StandbyInductive, PTL DEF Spec, Restored

-----------------------------------------------------------------------------
(* The time stamp. *)

\* A number is its two halves.
LEMMA Halves ==
  \A q \in Nat : /\ q = (q \div Word) * Word + (q % Word)
                 /\ q \div Word \in Nat /\ q % Word \in 0 .. Word - 1
BY WordAssumption

\* Going on by less than Word from x carries into the upper half at most once.
LEMMA Carry ==
  ASSUME NEW x \in Nat, NEW y \in Nat, x <= y, y - x < Word
  PROVE  y \div Word = (x \div Word) + (IF (x % Word) + (y - x) < Word THEN 0 ELSE 1)
<1> DEFINE a == x \div Word
           b == y \div Word
           c == x % Word
           d == y % Word
<1>1. /\ a \in Nat /\ b \in Nat /\ c \in 0 .. Word - 1 /\ d \in 0 .. Word - 1
      /\ x = a * Word + c /\ y = b * Word + d
  BY Halves
<1> HIDE DEF a, b, c, d
<1>2. b >= a /\ b <= a + 1
  <2>1. \A m, q \in Nat : m < q => q * Word - m * Word >= Word
    <3>1. ASSUME NEW m \in Nat, NEW q \in Nat, m < q PROVE q * Word - m * Word >= Word
      <4>1. PICK k \in Nat : q = m + 1 + k
        <5>1. q - m - 1 \in Nat /\ q = m + 1 + (q - m - 1)
          BY <3>1
        <5> QED  BY <5>1
      <4>2. q * Word = m * Word + Word + k * Word
        BY <4>1, WordAssumption
      <4>3. k * Word \in Nat /\ m * Word \in Nat
        BY WordAssumption
      <4> QED  BY <4>2, <4>3, WordAssumption
    <3> QED  BY <3>1
  <2>2. a * Word \in Nat /\ b * Word \in Nat /\ (a + 1) * Word = a * Word + Word
    BY <1>1, WordAssumption
  <2>3. b < a => a * Word - b * Word >= Word
    BY <1>1, <2>1
  <2>4. a + 1 < b => b * Word - (a + 1) * Word >= Word
    BY <1>1, <2>1
  <2> HIDE DEF a, b
  <2> QED  BY <1>1, <2>2, <2>3, <2>4, WordAssumption
<1>3. CASE b = a
  <2>1. d = c + (y - x)
    BY <1>1, <1>3, WordAssumption
  <2> QED  BY <1>1, <1>3, <2>1, WordAssumption DEF a, b, c
<1>4. CASE b = a + 1
  <2>1. b * Word = a * Word + Word
    BY <1>1, <1>4, WordAssumption
  <2>2. c + (y - x) = Word + d
    BY <1>1, <2>1, WordAssumption
  <2> QED  BY <1>1, <1>4, <2>2, WordAssumption DEF a, b, c
<1> QED  BY <1>1, <1>2, <1>3, <1>4

Rtc == [day : Nat, h : Nat, m : Nat, s : Nat]
Seconds(rtc) == rtc.day * 24 * 3600 + rtc.s + rtc.m * 60 + rtc.h * 3600

(***************************************************************************)
(* sunxi_timestamp_resume, for every counter value, frequency and time:    *)
(* the counter goes on from what it was when the low half was read, by the *)
(* seconds the RTC counted, modulo 2^64.  It jumps by 2^32 exactly when    *)
(* the low half carried between the two reads of sunxi_timestamp_suspend.  *)
(* The days must be few enough that their product does not wrap.           *)
(***************************************************************************)
THEOREM TimeStampResumed ==
  ASSUME NEW early \in Nat, NEW late \in Nat, early <= late, late - early < Word,
         NEW then \in Rtc, NEW now \in Rtc, NEW freq \in Nat,
         then.day * 24 * 3600 < DayWord, now.day * 24 * 3600 < DayWord
  PROVE  sunxi_timestamp_resume(sunxi_timestamp_suspend(early, late, then), freq, now)
           = (early + (IF (early % Word) + (late - early) < Word THEN 0 ELSE Word)
                    + (Seconds(now) - Seconds(then)) * freq) % (Word * Word)
<1>1. rtc_get_timestamp(then) = Seconds(then) /\ rtc_get_timestamp(now) = Seconds(now)
  <2>1. \A k \in Nat : k < DayWord => k % DayWord = k
    BY WordAssumption
  <2>2. then.day * 24 * 3600 \in Nat /\ now.day * 24 * 3600 \in Nat
    BY DEF Rtc
  <2> QED  BY <2>1, <2>2 DEF rtc_get_timestamp, Seconds
<1> DEFINE save == sunxi_timestamp_suspend(early, late, then)
           c == IF (early % Word) + (late - early) < Word THEN 0 ELSE 1
           e == (Seconds(now) - Seconds(then)) * freq
<1>2. save.low = early % Word /\ save.hi = late \div Word /\ save.last = Seconds(then)
  BY <1>1 DEF sunxi_timestamp_suspend
<1> HIDE DEF save
<1>3. sunxi_timestamp_resume(save, freq, now)
        = ((late \div Word) * Word + (early % Word) + e) % (Word * Word)
  BY <1>1, <1>2 DEF sunxi_timestamp_resume
<1>4. late \div Word = (early \div Word) + c
  BY Carry
<1>5. /\ early = (early \div Word) * Word + (early % Word)
      /\ early \div Word \in Nat /\ early % Word \in Nat
  BY Halves
<1>6. c \in {0, 1} /\ c * Word = IF (early % Word) + (late - early) < Word THEN 0 ELSE Word
  BY WordAssumption
<1> HIDE DEF c
<1>7. (late \div Word) * Word + (early % Word) = early + c * Word
  BY <1>4, <1>5, <1>6, WordAssumption
<1> QED  BY <1>3, <1>6, <1>7 DEF save
=============================================================================
