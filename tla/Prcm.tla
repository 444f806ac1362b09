-------------------------------- MODULE Prcm --------------------------------
(***************************************************************************)
(* The firmware's clock control unit                                       *)
(* (ar100s/driver/prcm/prcm-sun60iw2p1/ccu.c, sclk.c, mclk.c, reset.c):    *)
(* what its setters and getters do to the registers, as operators on one   *)
(* record.  A call that is refused leaves the registers as they are.       *)
(***************************************************************************)
EXTENDS Integers

CONSTANTS
  Dcxo,          \* CCU_DCXO_FREQ and CCU_SYS_CLK24M_FREQ
  Pll200, Pll300,  \* CCU_CPUS_PLL0_FREQ, CCU_CPUS_PERIO_300M_FREQ
  ApbsPll,       \* CCU_APBS2_PLL0_FREQ
  Iosc, Losc,    \* iosc_freq and losc_freq before the calibration
  Khz,           \* units of frequency in one kHz
  MaxMs          \* 0xffffffff / (CCU_DCXO_FREQ / 1000)

ASSUME PrcmAssumption ==
  {Dcxo, Pll200, Pll300, ApbsPll, Iosc, Losc, Khz, MaxMs} \subseteq Nat \ {0}

Gated == {"R_TWI", "R_UART", "R_TIMER0_1", "R_RTC", "MSGBOX", "APBS_R_CIR", "R_CIR"}
Resettable == {"R_TWI", "R_UART", "R_TIMER0_1", "R_PWM", "R_RTC", "APBS_R_CIR",
               "VDD_SYS", "SPINLOCK", "MSGBOX"}

\* R_IR_RX_CLOCK_REG beside its gate: source bit, factor n, factor m - 1
CirReg == [src : 0 .. 1, n : 0 .. 3, m : 0 .. 31]

\* a bus register: source and factor m - 1
BusReg == [src : 0 .. 7, m : 0 .. 31]

Regs == [on : SUBSET Gated, nreset : SUBSET Resettable, cir : CirReg,
         cpus : BusReg, apbs0 : BusReg, apbs1 : BusReg, iosc : Nat, losc : Nat, known : BOOLEAN]

-----------------------------------------------------------------------------
\* ccu_init: of every bus the divider first, then the source
ccu_init(r) ==
  [r EXCEPT !.cpus = [src |-> 3, m |-> 0], !.apbs0 = [src |-> 3, m |-> 1],
            !.apbs1 = [src |-> 4, m |-> 0]]

\* iosc_freq_init: the crystal and the RC oscillator are each timed over the
\* same number of CPU cycles (ht, xt, in milliseconds); a sample that cannot
\* be right changes nothing, and a good one is taken once.
iosc_freq_init(r, ht, xt) ==
  IF r.known \/ ht = 0 \/ xt = 0 \/ ht > MaxMs THEN r
  ELSE LET xf == ((Dcxo \div Khz) * ht) \div xt
       IN  [r EXCEPT !.iosc = xf * Khz, !.losc = (xf * Khz) \div 512, !.known = TRUE]

\* the frequency of a bus by the source its register selects
ccu_get_sclk_freq(r, sclk) ==
  CASE sclk = "CPUS" ->
         CASE r.cpus.src = 0 -> Dcxo [] r.cpus.src = 1 -> r.losc [] r.cpus.src = 2 -> r.iosc
           [] r.cpus.src = 3 -> Pll200 [] r.cpus.src = 4 -> Pll300 [] OTHER -> 0
    [] sclk = "APBS2" ->
         CASE r.apbs1.src = 0 -> Dcxo [] r.apbs1.src = 1 -> r.losc [] r.apbs1.src = 2 -> r.iosc
           [] r.apbs1.src = 3 -> ApbsPll [] r.apbs1.src = 4 -> Dcxo [] OTHER -> 0
    [] OTHER -> 0

ccu_set_mclk_onoff(r, mclk, on) ==
  IF mclk \notin Gated THEN r
  ELSE [r EXCEPT !.on = IF on THEN @ \cup {mclk} ELSE @ \ {mclk}]

ccu_set_mclk_reset(r, mclk, nreset) ==
  IF mclk \notin Resettable THEN r
  ELSE [r EXCEPT !.nreset = IF nreset THEN @ \cup {mclk} ELSE @ \ {mclk}]

\* assert, then release
ccu_reset_module(r, mclk) == ccu_set_mclk_reset(ccu_set_mclk_reset(r, mclk, FALSE), mclk, TRUE)

\* only the infrared receiver has a source and a divider
ccu_set_mclk_src(r, mclk, sclk) ==
  IF mclk # "R_CIR" \/ sclk \notin {"LOSC", "HOSC"} THEN r
  ELSE [r EXCEPT !.cir.src = IF sclk = "HOSC" THEN 1 ELSE 0]

ccu_get_mclk_src(r, mclk) ==
  IF mclk # "R_CIR" THEN "NONE" ELSE IF r.cir.src = 1 THEN "HOSC" ELSE "LOSC"

\* mutant: the quotient is rounded down
calc_clk_ratio_nm_down(div) ==
  CASE div < 33 -> [n |-> 0, m |-> div]
    [] div \in 33 .. 64 -> [n |-> 1, m |-> div \div 2]
    [] div \in 65 .. 128 -> [n |-> 2, m |-> div \div 4]
    [] div \in 129 .. 256 -> [n |-> 3, m |-> div \div 8]

\* the smallest power of two that leaves a quotient of at most 32, and the
\* quotient rounded up
calc_clk_ratio_nm(div) ==
  CASE div < 33 -> [n |-> 0, m |-> div]
    [] div \in 33 .. 64 -> [n |-> 1, m |-> (div + 1) \div 2]
    [] div \in 65 .. 128 -> [n |-> 2, m |-> (div + 3) \div 4]
    [] div \in 129 .. 256 -> [n |-> 3, m |-> (div + 7) \div 8]

\* 257 and more are refused.  For 0 the factor m - 1 is 0xffffffff, and every
\* bit of the register is set, the gate and the source included.
ccu_set_mclk_div(r, mclk, div) ==
  IF mclk # "R_CIR" \/ div > 256 THEN r
  ELSE IF div = 0 THEN [r EXCEPT !.cir = [src |-> 1, n |-> 3, m |-> 31], !.on = @ \cup {"R_CIR"}]
  ELSE LET f == calc_clk_ratio_nm(div) IN [r EXCEPT !.cir.n = f.n, !.cir.m = f.m - 1]

ccu_get_mclk_div(r, mclk) ==
  IF mclk # "R_CIR" THEN -22 ELSE (r.cir.m + 1) * 2^r.cir.n
=============================================================================
