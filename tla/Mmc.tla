-------------------------------- MODULE Mmc ---------------------------------
(***************************************************************************)
(* The clock of the eMMC controller SDC2 in boot0 (mmc_a733.c):            *)
(* a7s_mmc2_set_ios, which the vendor's MMC core calls through mmc_init    *)
(* for every rate and width it wants.  The controller takes a new setting  *)
(* of the card's clock when it gets to it, which may be after the poll of  *)
(* 100 ms gave up.  Rates are in units of 200 kHz.                         *)
(***************************************************************************)
EXTENDS Integers

CONSTANTS
  MinRate, MaxRate,     \* 400 kHz and 12 MHz, which is SYS24M / 2
  Requests,             \* rates the MMC core may ask for
  MaxIos                \* bound: calls of a behaviour

ASSUME MmcAssumption ==
  MinRate \in Nat \ {0} /\ MaxRate \in Nat /\ Requests \subseteq Nat /\ MaxIos \in Nat

VARIABLES
  sdc,     \* controller: [ctl: clock enabled in the register, mask: DAT0
           \* masked, busy, out: clock at the card, on, div: module clock,
           \* phase: output phase set]
  ios      \* driver: [pc, req, fatal: host->fatal_err, rate: mmc->clock, calls]

mmc == <<sdc, ios>>

\* The boot ROM may have left the clock running.
MmcInit ==
  /\ \E run \in BOOLEAN :
       sdc = [ctl |-> run, mask |-> FALSE, busy |-> FALSE, out |-> run, on |-> run,
              div |-> 0, phase |-> FALSE]
  /\ ios = [pc |-> "idle", req |-> 0, fatal |-> FALSE, rate |-> 0, calls |-> 0]

\* mutant: rounded down, the card's clock is above what was asked for.
DividerDown(req) == MaxRate \div req

\* CCU M is linear and rounded up.
Divider(req) == (MaxRate + req - 1) \div req

\* a7s_mmc2_update_clock up to its poll.
Command(ctl) == [sdc EXCEPT !.ctl = ctl, !.mask = TRUE, !.busy = TRUE]

\* The controller takes the setting its register holds.
Latch ==
  /\ sdc.busy
  /\ sdc' = [sdc EXCEPT !.busy = FALSE, !.out = sdc.ctl]
  /\ UNCHANGED ios

\* set_ios begins by stopping the clock.
SetIos(req) ==
  /\ ios.pc = "idle" /\ ios.calls < MaxIos
  /\ ios' = [ios EXCEPT !.pc = "stop", !.req = req, !.calls = @ + 1]
  /\ sdc' = Command(FALSE)

\* Rates outside the range are refused, and so are DDR modes and odd widths.
Stopped(mode_ok) ==
  /\ ios.pc = "stop" /\ ~sdc.busy
  /\ sdc' = [sdc EXCEPT !.mask = FALSE]
  /\ ios' = [ios EXCEPT
       !.pc = IF ios.req \in MinRate .. MaxRate /\ mode_ok THEN "divide" ELSE "idle",
       !.fatal = @ \/ (ios.req # 0 /\ ~(ios.req \in MinRate .. MaxRate /\ mode_ok))]

\* One write of the module clock's register.
ModuleClock(from, to, on, div) ==
  /\ ios.pc = from /\ ios' = [ios EXCEPT !.pc = to]
  /\ sdc' = [sdc EXCEPT !.on = on, !.div = div]

\* The output phase, with the module clock off.
Phase ==
  /\ ios.pc = "phase" /\ ios' = [ios EXCEPT !.pc = "clock"]
  /\ sdc' = [sdc EXCEPT !.phase = TRUE]

Configure ==
  LET m == Divider(ios.req) - 1
  IN  \/ ModuleClock("divide", "enable", FALSE, 0)
      \/ ModuleClock("enable", "gate", TRUE, m)
      \/ ModuleClock("gate", "phase", FALSE, m)
      \/ Phase
      \/ ModuleClock("clock", "start", TRUE, m)

\* ... and ends by starting it.
Start ==
  /\ ios.pc = "start" /\ ios' = [ios EXCEPT !.pc = "started"]
  /\ sdc' = Command(TRUE)

Started ==
  /\ ios.pc = "started" /\ ~sdc.busy
  /\ sdc' = [sdc EXCEPT !.mask = FALSE]
  /\ ios' = [ios EXCEPT !.pc = "idle", !.rate = MaxRate \div Divider(ios.req)]

\* The poll gives up: DAT0 stays masked, the controller may still follow.
Timeout ==
  /\ ios.pc \in {"stop", "started"} /\ sdc.busy
  /\ ios' = [ios EXCEPT !.pc = "idle", !.fatal = TRUE]
  /\ UNCHANGED sdc

MmcStep ==
  \/ Latch \/ Configure \/ Start \/ Started \/ Timeout
  \/ \E req \in Requests : SetIos(req)
  \/ \E ok \in BOOLEAN : Stopped(ok)

-----------------------------------------------------------------------------
\* The clock is the one asked for: not faster, no slower than it must be, with
\* the phase set and the data line in use.
Clocked(req) ==
  /\ sdc.out /\ sdc.on /\ sdc.phase /\ ~sdc.mask /\ ~sdc.busy
  /\ MaxRate <= req * (sdc.div + 1)
  /\ sdc.div = 0 \/ MaxRate > req * sdc.div
  /\ ios.rate = MaxRate \div (sdc.div + 1)

\* The card sees no clock while its divider and phase change, late answers of
\* the controller included, and commands (which the MMC core sends until a
\* fatal error) find the clock last asked for, or none if that was 0.
CardClocked ==
  /\ ios.pc \in {"divide", "enable", "gate", "phase", "clock", "start"} => ~sdc.out
  /\ ios.pc = "idle" /\ ios.calls > 0 /\ ~ios.fatal =>
       IF ios.req = 0 THEN ~sdc.out ELSE Clocked(ios.req)
=============================================================================
