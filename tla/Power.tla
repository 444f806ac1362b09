------------------------------- MODULE Power -------------------------------
(***************************************************************************)
(* The firmware's users of the two-wire interface: switching a rail        *)
(* (pmu.c, pmu_axp8191.c) and powering the system off or resetting it      *)
(* (sys_op of plat_standby.c, pmu.c, pmu_axp8191.c, bmu.c, bmu_axp515.c).  *)
(*                                                                         *)
(* The fourteen writes of bmu_axp515_clear_irq are one transfer here, and  *)
(* so are the two of AXP515_CC_GLOBAL_CTRL: their results are ignored.     *)
(***************************************************************************)
EXTENDS Twi

CONSTANTS
  MaxCalls     \* bound: calls of pmu_set_voltage_state and sys_op

\* RTCLDO is in the table of rails but has no on/off register.
ASSUME PowerAssumption == MaxCalls \in Nat /\ {"none", "rtcldo"} \cap Rail = {}

NoReq == [rail |-> "none", on |-> FALSE]

VARIABLES
  pc,
  bmu_exist,
  req,         \* arguments of pmu_set_voltage_state
  sys,         \* argument of sys_op
  goal,        \* what the chip is to do: "off", "reboot" or "charging"
  detect,      \* history: what the detection of VBUS saw, "failed" if it did
  result,      \* what pmu_set_voltage_state returned last
  calls

caller == <<bmu_exist, req, sys, goal, detect, result, calls>>
vars   == <<twiVars, pc, bmu_exist, req, sys, goal, detect, result, calls>>

Init ==
  /\ TwiStart
  /\ pc = "boot" /\ bmu_exist = FALSE /\ req = NoReq /\ sys = "none"
  /\ goal = "none" /\ detect = "none" /\ result = "OK" /\ calls = 0

Go(from, to) == pc = from /\ t = "free" /\ pc' = to

\* A transfer is started, and the caller goes on at to when it is over.
Read(from, to, r, d)  == Go(from, to) /\ Begin("read", r, d, d)
Write(from, to, r, v) == Go(from, to) /\ Begin("write", r, v, v)

quiet == <<twi_lock, wires, bmu, faults, driver>>

\* Back to the caller of pmu_set_voltage_state or sys_op.
Return(from) ==
  /\ Go(from, "idle")
  /\ req' = NoReq /\ sys' = "none" /\ goal' = "none" /\ detect' = "none"
  /\ UNCHANGED <<quiet, bmu_exist, calls>>

-----------------------------------------------------------------------------
(* startup_entry: twi_init, pmu_init, bmu_init. *)

Boot ==
  /\ pc = "boot" /\ TwiInit /\ pc' = IF twi_lock' THEN "doze" ELSE "bmu"
  /\ UNCHANGED caller

BmuInit == Read("bmu", "bmu type", "ic_type", "other") /\ UNCHANGED caller

\* Whatever the read returned, its value decides.
BmuExist ==
  /\ Go("bmu type", "idle") /\ bmu_exist' = (data = "axp515")
  /\ UNCHANGED <<quiet, req, sys, goal, detect, result, calls>>

-----------------------------------------------------------------------------
(* twi_clkchangecb, around a change of the bus clock. *)

ClkChange ==
  /\ Go("idle", "idle") /\ twi_lock' = ~twi_lock
  /\ UNCHANGED <<wires, bmu, faults, driver, caller>>

-----------------------------------------------------------------------------
(* pmu_set_voltage_state. *)

Call == pc = "idle" /\ calls < MaxCalls /\ calls' = calls + 1

SetVoltageState(r, on) ==
  /\ Call /\ Read("idle", "modify", RegOf[r], {}) /\ req' = [rail |-> r, on |-> on]
  /\ UNCHANGED <<bmu_exist, sys, goal, detect, result>>

\* A rail beyond the table, or one without a register.
SetVoltageRefused ==
  /\ Call /\ Go("idle", "refused") /\ req' = [rail |-> "rtcldo", on |-> TRUE]
  /\ UNCHANGED <<quiet, bmu_exist, sys, goal, detect, result>>

Modify ==
  /\ ret = "OK"
  /\ Write("modify", "switched", RegOf[req.rail],
       IF req.on THEN data \cup {req.rail} ELSE data \ {req.rail})
  /\ UNCHANGED caller

SetVoltageReturn ==
  \/ ret # "OK" /\ Return("modify") /\ result' = "error"
  \/ Return("switched") /\ result' = IF ret = "OK" THEN "OK" ELSE "error"
  \/ Return("refused") /\ result' = "error"

-----------------------------------------------------------------------------
(* sys_op. *)

SysOp(s) ==
  /\ Call /\ sys' = s
  /\ pc' = CASE s = "shutdown" -> "charging" [] s = "reset" -> "reset" [] s = "uboot_shutdown" -> "off"
  /\ t = "free"
  /\ UNCHANGED <<quiet, bmu_exist, req, goal, detect, result>>

\* pmu_charging_reset, pmu_reset and pmu_shutdown set the interface up again ...
Prepare(from, to, g) ==
  /\ pc = from /\ pc' = to /\ TwiStandbyInit
  /\ goal' = g
  /\ UNCHANGED <<bmu_exist, req, sys, detect, result, calls>>

PrepareAll ==
  \/ Prepare("charging", "charging wait", "charging")
  \/ Prepare("reset", "reset wait", "reboot")
  \/ Prepare("off", "off wait", "off")

\* ... and wait for an idle bus: the first without doing anything about it ...
WaitIdle(from, to) == Go(from, to) /\ Idle /\ UNCHANGED <<quiet, caller>>

\* ... the others with nine clock pulses.
Pulses(from, to) == Go(from, to) /\ ~Idle /\ NinePulses /\ UNCHANGED caller

WaitAll ==
  \/ WaitIdle("charging wait", "vbus") \/ WaitIdle("reset wait", "irq") \/ WaitIdle("off wait", "irq")
  \/ Pulses("reset wait", "irq") \/ Pulses("off wait", "irq")

\* _axp8191_vbus_check: val is not initialised, and the result not looked at.
VbusDet ==
  /\ bmu_exist /\ \E d \in Values("status0") : Read("vbus", "vbus seen", "status0", d)
  /\ UNCHANGED caller

VbusSeen ==
  /\ pc = "vbus seen" /\ t = "free"
  /\ IF data = "vbus" THEN Write("vbus seen", "flagged", "buffer0", "charging")
                      ELSE Go("vbus seen", "off") /\ UNCHANGED quiet
  /\ detect' = IF ret = "OK" THEN data ELSE "failed"
  /\ UNCHANGED <<bmu_exist, req, sys, goal, result, calls>>

NoBmu == Go("vbus", "off") /\ ~bmu_exist /\ UNCHANGED <<quiet, caller>>

\* bmu_axp515_clear_irq, if there is a battery chip.
AfterBmu == IF goal = "reboot" THEN "flag" ELSE "soft"

ClearIrq ==
  /\ bmu_exist /\ Write("irq", IF goal = "off" THEN "cc" ELSE AfterBmu, "irq", "set")
  /\ UNCHANGED caller

NoIrq == Go("irq", AfterBmu) /\ ~bmu_exist /\ UNCHANGED <<quiet, caller>>

\* bmu_axp515_shutdown: a read that fails leaves what data held before.
BmuShutdown ==
  /\ \/ Write("cc", "batfet", "cc", "set")
     \/ Read("batfet", "batfet write", "batfet", "stale")
     \/ Write("batfet write", "ilimit", "batfet", IF ret = "OK" THEN "set" ELSE "stale")
     \/ Read("ilimit", "ilimit write", "ilimit", "stale")
     \/ Write("ilimit write", "soft", "ilimit", IF ret = "OK" THEN "set" ELSE "stale")
  /\ UNCHANGED caller

\* The reboot flag, and the check of either flag's write.
RebootFlag == Write("flag", "flagged", "buffer0", "reboot") /\ UNCHANGED caller

\* mutant: the write is not checked.
FlaggedAnyway ==
  /\ Go("flagged", IF goal = "reboot" THEN "soft" ELSE "irq")
  /\ UNCHANGED <<quiet, caller>>

Flagged ==
  /\ ret = "OK" /\ Go("flagged", IF goal = "reboot" THEN "soft" ELSE "irq")
  /\ UNCHANGED <<quiet, caller>>

\* _axp8191_pmu_softset: set the chip's bit and wait for the end.
Bit == IF goal = "off" THEN "off" ELSE "reset"

SoftRead  == Read("soft", "soft write", "down", {}) /\ UNCHANGED caller
SoftWrite == ret = "OK" /\ Write("soft write", "told", "down", data \cup {Bit}) /\ UNCHANGED caller
Told      == ret = "OK" /\ Go("told", "end") /\ UNCHANGED <<quiet, caller>>

SysReturn ==
  /\ ret # "OK" /\ UNCHANGED result
  /\ Return("flagged") \/ Return("soft write") \/ Return("told")

\* A state sys_op does not know.
SysInvalid ==
  /\ Call /\ Go("idle", "idle")
  /\ UNCHANGED <<quiet, bmu_exist, req, sys, goal, detect, result>>

\* The chip acts on its bits.
PowerCut ==
  /\ regs["down"] # {} /\ t = "free" /\ pc' = "gone"
  /\ UNCHANGED <<quiet, caller>>

Over == pc \in {"doze", "gone"} /\ UNCHANGED vars

Step ==
  \/ Transfer /\ UNCHANGED <<pc, caller>>
  \/ Boot \/ BmuInit \/ BmuExist
  \/ Modify \/ SetVoltageReturn
  \/ PrepareAll \/ WaitAll
  \/ VbusDet \/ VbusSeen \/ NoBmu \/ ClearIrq \/ NoIrq \/ BmuShutdown
  \/ RebootFlag \/ Flagged \/ SoftRead \/ SoftWrite \/ Told \/ SysReturn

Next ==
  \/ Step \/ PowerCut \/ Over
  \/ ClkChange \/ SetVoltageRefused \/ SysInvalid
  \/ LetGo /\ UNCHANGED <<pc, caller>>
  \/ \E r \in Rail, on \in BOOLEAN : SetVoltageState(r, on)
  \/ \E s \in {"shutdown", "reset", "uboot_shutdown"} : SysOp(s)

\* The firmware runs, and a chip does as its register says.
Spec == Init /\ [][Next]_vars /\ WF_vars(Step) /\ WF_vars(PowerCut)
-----------------------------------------------------------------------------
(***************************************************************************)
(* Whatever the bus does, pmu_set_voltage_state is what Rails takes it     *)
(* for: one rail, once, and OK only if it was switched.                    *)
(***************************************************************************)
Switching == INSTANCE RailSwitch WITH
  powered <- UNION {regs[r] : r \in OnOff},
  done    <- req.rail \in Rail /\ call.op = "write" /\ stored

SwitchesRails == Switching!Spec

(***************************************************************************)
(* A transfer succeeds on a bus that has nothing wrong with it, whatever   *)
(* state an earlier, spoilt transfer left the controller and the chips in. *)
(***************************************************************************)
Recovers == t = "free" /\ clean => ret = "OK"

(***************************************************************************)
(* The chip is told what was asked: off for a shutdown, and reset only     *)
(* with the flag the next boot reads already in the chip; a shutdown turns *)
(* into a reset for charging only if VBUS was seen, or could not be read.  *)
(***************************************************************************)
ToldAsAsked ==
  [][regs'["down"] # regs["down"] =>
       IF sys = "reset" THEN "reset" \in regs'["down"] /\ regs["buffer0"] = "reboot"
       ELSE \/ "off" \in regs'["down"] /\ detect # "vbus"
            \/ /\ "reset" \in regs'["down"] /\ regs["buffer0"] = "charging"
               /\ sys = "shutdown" /\ detect \in {"vbus", "failed"}]_vars

(***************************************************************************)
(* sys_op ends, with the power gone or with an error, even on a bus that a *)
(* chip holds, with the exception of the wait of pmu_charging_reset, which *)
(* gives no clock pulses.                                                  *)
(***************************************************************************)
Ends == (sys # "none") ~> (pc \in {"idle", "gone"} \/ (pc = "charging wait" /\ held))

(***************************************************************************)
(* So sys_op ends with what was asked, or says that it failed.             *)
(***************************************************************************)
SysOpDone == ToldAsAsked /\ Ends
=============================================================================
