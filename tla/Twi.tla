-------------------------------- MODULE Twi --------------------------------
(***************************************************************************)
(* The firmware's two-wire interface (ar100s/driver/twi/twi.c) and the two *)
(* chips on it, the AXP8191 and the AXP515: one transfer of one register,  *)
(* phase by phase.                                                         *)
(*                                                                         *)
(* In every phase the controller may report another state than the one     *)
(* expected, or none before the poll gives up, whether or not the byte     *)
(* reached the chip; and the chip may be left holding the data line low.   *)
(* twi_byte_rw runs with interrupts off: nothing comes between.            *)
(***************************************************************************)
EXTENDS Naturals

CONSTANTS
  RegOf,       \* rail -> its on/off register (axp8191_onoff_reg_bitmap)
  Detected,    \* is there a battery chip, with or without VBUS?
  MaxFaults    \* bound: transfers that the bus spoils

Rail   == DOMAIN RegOf
OnOff  == {RegOf[r] : r \in Rail}
PmuReg == OnOff \cup {"buffer0", "down"}
BmuReg == {"ic_type", "status0", "irq", "cc", "batfet", "ilimit"}

ASSUME TwiAssumption ==
  /\ OnOff \cap ({"buffer0", "down"} \cup BmuReg) = {}
  /\ Detected \subseteq {"none", "vbus", "no vbus"} /\ MaxFaults \in Nat

\* What a register may read as; on/off registers are sets of rails, "down" is
\* the set of its power-off and its reset bit.
Values(r) ==
  CASE r \in OnOff    -> SUBSET {x \in Rail : RegOf[x] = r}
    [] r = "down"     -> SUBSET {"off", "reset"}
    [] r = "buffer0"  -> {"clear", "reboot", "charging"}
    [] r = "ic_type"  -> {"axp515", "other"}
    [] r = "status0"  -> {"vbus", "no vbus"}
    [] OTHER          -> {"reset value", "set", "stale"}

VARIABLES
  t,           \* the phase twi_byte_rw is in, "free" outside it
  call,        \* its arguments
  data,        \* *data
  ret,         \* its result
  twi_lock,
  str,         \* TWI_STR: "idle" (0xf8) or "busy"
  held,        \* a chip holds the data line low
  bmu,         \* what is fitted, of Detected
  ptr,         \* register the chip has been told
  regs,        \* the chips' registers
  stored,      \* history: the byte of this call is in the chip
  clean,       \* history: nothing was wrong with the bus during this call
  faults

driver == <<t, call, data, ret, stored, clean>>
wires  == <<str, held, ptr, regs>>
twiVars == <<t, call, data, ret, twi_lock, str, held, bmu, ptr, regs, stored, clean, faults>>

\* Out of reset, the chips keep what an earlier boot left, a transfer it did
\* not finish included; any of the rails may be on.
TwiStart ==
  /\ t = "free" /\ call = [op |-> "read", reg |-> "down", val |-> {}] /\ data = {}
  /\ ret = "OK" /\ twi_lock = FALSE
  /\ str \in {"idle", "busy"} /\ held \in BOOLEAN /\ bmu \in Detected
  /\ ptr = "buffer0"
  /\ \E on \in SUBSET Rail :
       regs = [r \in PmuReg \cup BmuReg |->
                 CASE r \in OnOff   -> {x \in on : RegOf[x] = r}
                   [] r = "down"    -> {}
                   [] r = "buffer0" -> "clear"
                   [] r = "ic_type" -> "axp515"
                   [] r = "status0" -> IF bmu = "vbus" THEN "vbus" ELSE "no vbus"
                   [] OTHER         -> "reset value"]
  /\ stored = FALSE /\ clean = TRUE /\ faults = 0

-----------------------------------------------------------------------------
(* twi_byte_rw.  d is what *data holds before a read. *)

Begin(op, r, v, d) ==
  /\ t = "free"
  /\ t' = IF twi_lock THEN "free" ELSE "check"
  /\ ret' = IF twi_lock THEN "EACCES" ELSE "EFAIL"
  /\ call' = [op |-> op, reg |-> r, val |-> v] /\ data' = d
  /\ stored' = FALSE /\ clean' = (~held /\ ~twi_lock)
  /\ UNCHANGED <<twi_lock, wires, bmu, faults>>

\* The controller must be idle (0xf8).
Check ==
  /\ t = "check" /\ t' = IF str = "idle" THEN "start" ELSE "stop"
  /\ UNCHANGED <<call, data, ret, stored, clean, twi_lock, wires, bmu, faults>>

Phase == {"start", "saddr", "baddr", "data", "restart", "raddr", "rdata"}

Following(p) ==
  CASE p = "start"   -> "saddr"
    [] p = "saddr"   -> "baddr"
    [] p = "baddr"   -> IF call.op = "write" THEN "data" ELSE "restart"
    [] p = "restart" -> "raddr"
    [] p = "raddr"   -> "rdata"
    [] OTHER         -> "stop"

\* What a phase that reaches the chip does there.
Effect(p) ==
  /\ ptr' = IF p = "baddr" THEN call.reg ELSE ptr
  /\ regs' = IF p = "data" THEN [regs EXCEPT ![ptr] = call.val] ELSE regs
  /\ stored' = (stored \/ p = "data")

Answers(p) == ~held /\ (p \in {"saddr", "raddr"} => call.reg \in PmuReg \/ bmu # "none")

Proceed(p) ==
  /\ t = p /\ Answers(p) /\ Effect(p)
  /\ t' = Following(p) /\ str' = "busy"
  /\ data' = IF p = "rdata" THEN regs[ptr] ELSE data
  /\ ret' = IF p \in {"data", "rdata"} THEN "OK" ELSE ret
  /\ UNCHANGED <<call, clean, twi_lock, held, bmu, faults>>

\* No acknowledge, or no start condition on a line that is held.
Refused(p) ==
  /\ t = p /\ ~Answers(p)
  /\ t' = "stop" /\ str' = "busy" /\ clean' = FALSE
  /\ UNCHANGED <<call, data, ret, stored, twi_lock, held, ptr, regs, bmu, faults>>

\* mutant: the state after the data byte is not looked at.
SpoiltUnseen(p) ==
  /\ t = p /\ Answers(p) /\ faults < MaxFaults /\ faults' = faults + 1
  /\ Effect(p) \/ UNCHANGED <<ptr, regs, stored>>
  /\ held' \in BOOLEAN
  /\ data' \in {data} \cup (IF p = "rdata" THEN Values(call.reg) ELSE {})
  /\ t' = "stop" /\ str' = "busy" /\ clean' = FALSE
  /\ ret' = IF p = "data" THEN "OK" ELSE ret
  /\ UNCHANGED <<call, twi_lock, bmu>>

\* The wrong state, or no interrupt flag before the poll gives up.  The data
\* register is read before the state is.
Spoilt(p) ==
  /\ t = p /\ Answers(p) /\ faults < MaxFaults /\ faults' = faults + 1
  /\ Effect(p) \/ UNCHANGED <<ptr, regs, stored>>
  /\ held' \in BOOLEAN
  /\ data' \in {data} \cup (IF p = "rdata" THEN Values(call.reg) ELSE {})
  /\ t' = "stop" /\ str' = "busy" /\ clean' = FALSE
  /\ UNCHANGED <<call, ret, twi_lock, bmu>>

\* mutant: a stop condition that never comes is left at that.
StopNoReset ==
  /\ t = "stop" /\ t' = "free"
  /\ str' = IF held THEN "busy" ELSE "idle"
  /\ UNCHANGED <<call, data, ret, stored, clean, twi_lock, held, ptr, regs, bmu, faults>>

\* twi_stop: the controller becomes idle, or is reset; the result is ignored.
Stop ==
  /\ t = "stop" /\ t' = "free"
  /\ str' = "idle"
  /\ UNCHANGED <<call, data, ret, stored, clean, twi_lock, held, ptr, regs, bmu, faults>>

Transfer == Check \/ Stop \/ \E p \in Phase : Proceed(p) \/ Refused(p) \/ Spoilt(p)

-----------------------------------------------------------------------------
(* The bus as a whole. *)

\* twic_reset and twic_send_dummy_clock, which a chip may or may not heed.
Reset ==
  /\ t = "free" /\ str' = "idle"
  /\ held' \in (IF held THEN BOOLEAN ELSE {FALSE})
  /\ UNCHANGED <<driver, ptr, regs, bmu, faults>>

\* twi_init locks an interface whose lines do not come up.
TwiInit == Reset /\ twi_lock' = held'

TwiStandbyInit == Reset /\ UNCHANGED twi_lock

\* twi_get_status
Idle == str = "idle" /\ ~held

\* twi_send_clk_9pulse, when it gets the data line released.
NinePulses == held' = FALSE /\ UNCHANGED <<driver, twi_lock, str, ptr, regs, bmu, faults>>

\* A chip may also let go by itself.
LetGo == held /\ t = "free" /\ held' = FALSE
         /\ UNCHANGED <<driver, twi_lock, str, ptr, regs, bmu, faults>>
=============================================================================
