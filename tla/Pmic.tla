-------------------------------- MODULE Pmic --------------------------------
(***************************************************************************)
(* boot0's AXP8191 (src/platform_shims.c): the probe sequence through the  *)
(* extended register page, the rails set by sunxi_board_init, and the DRAM *)
(* rails the DRAM library asks for.                                        *)
(*                                                                         *)
(* Every transfer on the bus may fail; a write that fails may still have   *)
(* reached the chip.  While the extended page is selected, a transfer      *)
(* meant for a regulator reaches some other register.                      *)
(***************************************************************************)
EXTENDS Voltage, FiniteSets, TLC

CONSTANTS
  Requests,     \* <<rail, millivolts (0: leave), on/off (-1: leave)>> asked for
  KindOf,       \* rail -> its kind
  Reset,        \* selector a rail has out of reset
  MaxFaults,    \* bound: transfers that fail
  MaxCalls      \* bound: calls of the DRAM library

Rail == DOMAIN KindOf

\* The rails sunxi_board_init sets, next to cldo5.
Npu == "dcdc2"
Sd  == "dc1sw2"
All == Rail \cup {Npu, Sd}

\* a7s_dram_rails lists neither of the two.
ASSUME PmicAssumption ==
  /\ KindOf \in [Rail -> RailKind] /\ MaxFaults \in Nat /\ MaxCalls \in Nat
  /\ "cldo5" \in Rail /\ KindOf["cldo5"] = "cldo" /\ {Npu, Sd} \cap Rail = {} /\ Reset \in Nat
  /\ \A q \in Requests : q[1] \in STRING /\ q[2] \in Nat /\ q[3] \in {-1, 0, 1}

Sel840 == 34    \* AXP8191_DCDC2_840MV
Sel1800 == 13   \* the selector configure_emmc_io reads back

VARIABLES
  pc,
  ret,          \* where the probe returns to
  req,          \* the request being served
  seen,         \* the register value read last
  status,       \* the probe has failed
  ready,        \* a7s_axp8191_ready
  page, efuse, unlocked, reset_ctrl,
  sel, on,      \* the chip's rails
  misplaced,    \* a regulator transfer was made on the extended page
  pads,         \* how the eMMC's pads learn their voltage: "fixed" or "auto"
  done,         \* result of sunxi_board_init
  faults, calls

vars == <<pc, ret, req, seen, status, ready, page, efuse, unlocked, reset_ctrl, sel, on,
          misplaced, pads, done, faults, calls>>

chip == <<page, efuse, unlocked, reset_ctrl, sel, on, misplaced>>
call == <<ret, req, pads, done, calls>>

\* The chip keeps its power through a reset of the processor: an earlier boot
\* whose restore failed may have left it on the extended page.
Init ==
  /\ pc = "bus" /\ ret = "emmc" /\ req = <<"cldo5", 1800, 1>> /\ seen = Reset
  /\ status = FALSE /\ ready = FALSE
  /\ page \in {"normal", "ext"} /\ efuse \in BOOLEAN /\ unlocked \in BOOLEAN /\ reset_ctrl = FALSE
  /\ sel = [r \in All |-> Reset] /\ on = [r \in All |-> FALSE]
  /\ misplaced = FALSE /\ pads = "fixed" /\ done = "no" /\ faults = 0 /\ calls = 0

-----------------------------------------------------------------------------
(* The bus. *)

Fault == faults < MaxFaults /\ faults' = faults + 1

\* A write that takes effect as eff, or not, and succeeds (to) or fails (err).
Transfer(from, to, err, eff, noeff) ==
  /\ pc = from
  /\ \/ pc' = to /\ UNCHANGED faults /\ eff
     \/ pc' = err /\ Fault /\ (eff \/ noeff)

\* A read: value is what the register holds.
Get(from, to, err, value) ==
  /\ pc = from
  /\ \/ pc' = to /\ seen' = value /\ UNCHANGED faults
     \/ pc' = err /\ Fault /\ UNCHANGED seen
  /\ UNCHANGED chip

\* A regulator write; on the extended page it lands elsewhere.
SetSel(r, v) ==
  IF page = "normal"
  THEN sel' = [sel EXCEPT ![r] = v] /\ UNCHANGED <<page, efuse, unlocked, reset_ctrl, on, misplaced>>
  ELSE misplaced' = TRUE /\ UNCHANGED <<page, efuse, unlocked, reset_ctrl, sel, on>>

SetOn(r, v) ==
  IF page = "normal"
  THEN on' = [on EXCEPT ![r] = v] /\ UNCHANGED <<page, efuse, unlocked, reset_ctrl, sel, misplaced>>
  ELSE misplaced' = TRUE /\ UNCHANGED <<page, efuse, unlocked, reset_ctrl, sel, on>>

-----------------------------------------------------------------------------
(* a7s_axp8191_init. *)

probe == <<call, seen, ready>>

BusInit ==
  /\ pc = "bus" /\ ~ready
  /\ \/ pc' = "id" /\ UNCHANGED faults
     \/ pc' = "fail" /\ Fault
  /\ status' = FALSE /\ UNCHANGED <<probe, chip>>

AlreadyInit == pc = "bus" /\ ready /\ pc' = ret /\ UNCHANGED <<probe, chip, status, faults>>

\* The chip's identification: another chip, or the extended page, answers otherwise.
ChipId ==
  /\ pc = "id"
  /\ \/ pc' \in {"unlock", "fail"} /\ UNCHANGED faults
     \/ pc' = "fail" /\ Fault
  /\ UNCHANGED <<probe, chip, status>>

\* A step of the extended configuration: a failure goes on to the restore.
Extended(from, to, eff) ==
  /\ Transfer(from, to, "page back", eff, UNCHANGED chip)
  /\ status' = (pc' = "page back" /\ faults' # faults)
  /\ UNCHANGED probe

Unlock    == Extended("unlock", "efuse", unlocked' = TRUE /\ UNCHANGED <<page, efuse, reset_ctrl, sel, on, misplaced>>)
Efuse     == Extended("efuse", "page", efuse' = TRUE /\ UNCHANGED <<page, unlocked, reset_ctrl, sel, on, misplaced>>)
PageExt   == Extended("page", "config read", page' = "ext" /\ UNCHANGED <<efuse, unlocked, reset_ctrl, sel, on, misplaced>>)

ConfigRead ==
  /\ Get("config read", "config", "page back", seen)
  /\ status' = (faults' # faults) /\ UNCHANGED <<call, ready>>

Config    == Extended("config", "page back", UNCHANGED chip)

\* A step of the restore: every step is made, the first failure kept.
Restore(from, to, eff) ==
  /\ Transfer(from, to, to, eff, UNCHANGED chip)
  /\ status' = (status \/ faults' # faults)
  /\ UNCHANGED probe

PageBack  == Restore("page back", "efuse back", page' = "normal" /\ UNCHANGED <<efuse, unlocked, reset_ctrl, sel, on, misplaced>>)
EfuseBack == Restore("efuse back", "lock back", efuse' = FALSE /\ UNCHANGED <<page, unlocked, reset_ctrl, sel, on, misplaced>>)
LockBack  == Restore("lock back", "checked", unlocked' = FALSE /\ UNCHANGED <<page, efuse, reset_ctrl, sel, on, misplaced>>)

\* mutant: the failure is printed and forgotten.
CheckedAnyway ==
  /\ pc = "checked" /\ pc' = "reset read" /\ UNCHANGED <<probe, chip, status, faults>>

Checked ==
  /\ pc = "checked" /\ pc' = IF status THEN "fail" ELSE "reset read"
  /\ UNCHANGED <<probe, chip, status, faults>>

ResetRead  == Get("reset read", "reset write", "fail", seen) /\ UNCHANGED <<call, ready, status>>

ResetWrite ==
  /\ Transfer("reset write", ret, "fail",
       /\ reset_ctrl' = (page = "normal") /\ misplaced' = (misplaced \/ page # "normal")
       /\ UNCHANGED <<page, efuse, unlocked, sel, on>>,
       UNCHANGED chip)
  /\ ready' = (faults' = faults)
  /\ UNCHANGED <<call, seen, status>>

-----------------------------------------------------------------------------
(* a7s_axp8191_set_rail, the read-modify-writes of one rail. *)

keep == <<call, status, ready>>

\* The voltage, unless it is to be left.
Vol ==
  /\ pc \in {"emmc", "ddr"}
  /\ pc' = IF req[2] > 0 THEN "vol read" ELSE IF req[3] < 0 THEN "served" ELSE "on read"
  /\ UNCHANGED <<keep, seen, chip, faults>>

VolRead  == Get("vol read", "vol write", "fail", sel[req[1]]) /\ UNCHANGED keep

VolWrite ==
  /\ Transfer("vol write", IF req[3] < 0 THEN "served" ELSE "on read", "fail",
       SetSel(req[1], Selector(KindOf[req[1]], req[2])), UNCHANGED chip)
  /\ UNCHANGED <<keep, seen>>

OnRead   == Get("on read", "on write", "fail", seen) /\ UNCHANGED keep

OnWrite ==
  /\ Transfer("on write", "served", "fail", SetOn(req[1], req[3] > 0), UNCHANGED chip)
  /\ UNCHANGED <<keep, seen>>

\* Back to the caller: configure_emmc_io reads back, the DRAM library goes on.
Served ==
  /\ pc = "served" /\ pc' = IF done = "no" THEN "emmc sel" ELSE "idle"
  /\ UNCHANGED <<keep, seen, chip, faults>>

EmmcSel ==
  Get("emmc sel", IF sel["cldo5"] = Sel1800 THEN "emmc on" ELSE "fail", "fail", sel["cldo5"]) /\ UNCHANGED keep

\* With the rail up, a7s_pio_emmc_withstand_auto; its readback is only printed.
EmmcOn ==
  /\ Get("emmc on", IF on["cldo5"] THEN "npu on read" ELSE "fail", "fail", seen)
  /\ pads' = IF pc' = "fail" THEN pads ELSE "auto"
  /\ UNCHANGED <<ret, req, done, calls, status, ready>>

-----------------------------------------------------------------------------
(* a7s_axp8191_set_npu_rail and a7s_axp8191_enable_sd_power. *)

NpuOnRead == Get("npu on read", "npu on", "fail", seen) /\ UNCHANGED keep

NpuOn  == Transfer("npu on", "npu vol", "fail", SetOn(Npu, TRUE), UNCHANGED chip) /\ UNCHANGED <<keep, seen>>

NpuVol == Transfer("npu vol", "npu check", "fail", SetSel(Npu, Sel840), UNCHANGED chip) /\ UNCHANGED <<keep, seen>>

NpuCheck ==
  Get("npu check", IF sel[Npu] = Sel840 THEN "sd read" ELSE "fail", "fail", sel[Npu]) /\ UNCHANGED keep

SdRead == Get("sd read", "sd", "fail", seen) /\ UNCHANGED keep

SdOn ==
  /\ Transfer("sd", "idle", "fail", SetOn(Sd, TRUE), UNCHANGED chip)
  /\ done' = IF faults' = faults THEN "ok" ELSE done
  /\ UNCHANGED <<ret, req, pads, calls, status, ready, seen>>

\* A failure: sunxi_board_init's ends boot0, the DRAM library's is its own.
Failed ==
  /\ pc = "fail" /\ pc' = IF done = "no" THEN "error" ELSE "idle"
  /\ done' = IF done = "no" THEN "failed" ELSE done
  /\ UNCHANGED <<ret, req, pads, calls, status, ready, seen, chip, faults>>

\* set_ddr_voltage_ext
SetDdrVoltage ==
  /\ pc = "idle" /\ calls < MaxCalls /\ calls' = calls + 1
  /\ \E q \in Requests :
       IF q[1] \in Rail THEN req' = q /\ ret' = "ddr" /\ pc' = "bus"
                        ELSE UNCHANGED <<req, ret, pc>>
  /\ UNCHANGED <<pads, done, seen, status, ready, chip, faults>>

\* boot0 is in FEL, or has its DRAM.
Over == pc \in {"error", "idle"} /\ UNCHANGED vars

Next ==
  \/ BusInit \/ AlreadyInit \/ ChipId \/ Unlock \/ Efuse \/ PageExt \/ ConfigRead \/ Config
  \/ PageBack \/ EfuseBack \/ LockBack \/ Checked \/ ResetRead \/ ResetWrite
  \/ Vol \/ VolRead \/ VolWrite \/ OnRead \/ OnWrite \/ Served \/ EmmcSel \/ EmmcOn
  \/ NpuOnRead \/ NpuOn \/ NpuVol \/ NpuCheck \/ SdRead \/ SdOn
  \/ Failed \/ SetDdrVoltage \/ Over

Spec == Init /\ [][Next]_vars

-----------------------------------------------------------------------------
\* A failed access to the extended page does not poison later regulator
\* traffic: whichever transfers of the probe or of its restore failed, no
\* regulator is written while the extended page is selected, and a chip that
\* counts as ready has its fuses and its write lock closed.
NotPoisoned == ~misplaced /\ (ready => page = "normal" /\ ~efuse /\ ~unlocked /\ reset_ctrl)

\* A rail that is switched on with a voltage has it when it comes on, even if
\* the transfer that set it was reported lost: the least voltage of the rail
\* that is not below the request, across the gaps between its ranges too, the
\* request being first brought within the rail's limits.
LeastNotBelow(k, mv, s) ==
  /\ s \in Selectors(k) /\ s < Room[k] /\ Millivolts(k, s) >= Clamp(k, mv)
  /\ \A t \in Selectors(k) : Millivolts(k, t) >= Clamp(k, mv) => Millivolts(k, t) >= Millivolts(k, s)

OnAtVoltage ==
  [][\A r \in Rail : (~on[r] /\ on'[r] /\ req[2] > 0) => LeastNotBelow(KindOf[r], req[2], sel[r])]_vars

\* sunxi_board_init reports success only with the eMMC I/O rail at 1.8 V, the
\* NPU rail at 840 mV and the card powered; and the eMMC's pads follow the
\* voltage of their rail only once it is up.
BoardOk ==
  /\ (done = "ok" /\ calls = 0) =>
       pads = "auto" /\ sel[Npu] = Sel840 /\ on[Npu] /\ on[Sd]
  /\ (pads = "auto" /\ calls = 0) => sel["cldo5"] = Sel1800 /\ on["cldo5"]

\* So boot0 goes on only with the rails it believes to have set.
RailsTrue == NotPoisoned /\ BoardOk
=============================================================================
