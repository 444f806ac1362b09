-------------------------------- MODULE Clock --------------------------------
(***************************************************************************)
(* a7s_clock_init and a7s_clock_reset (clock_a733.c), one register write   *)
(* or one lock sample per step: the bus clocks go to the crystal (sys24),   *)
(* REFPLL, PERI0 and PERI1 are programmed, their distribution gates are    *)
(* opened, and the buses go to their nominal rates.                        *)
(*                                                                         *)
(* The PLLs themselves are the environment: after a change a PLL settles,  *)
(* and while it settles its LOCK bit may read as set, but not in           *)
(* StableReads consecutive samples (the manual's rule).                    *)
(***************************************************************************)
EXTENDS Integers, Sequences

CONSTANTS
  StableReads,   \* A7S_PLL_LOCK_STABLE_READS
  Timeout,       \* A7S_PLL_LOCK_TIMEOUT_US, samples of one wait
  Divs,          \* bus dividers an earlier boot stage may have left
  RefFactors     \* factors it may have left in REFPLL, those of the crystal apart

ASSUME ClockAssumption ==
  /\ StableReads \in Nat \ {0} /\ Timeout \in Nat /\ Divs \subseteq Nat \ {0}
  /\ RefFactors \subseteq [n : 1..256, d : 1..128]

Plls == <<"ref", "peri0", "peri1">>
Pll == {"ref", "peri0", "peri1"}
Buses == <<"ahb", "apb0", "apb1", "uart">>
Bus == {"ahb", "apb0", "apb1", "uart"}

VARIABLES
  dcxo,      \* crystal, in kHz
  found,     \* REFPLL's register as the earlier stage left it (history)
  pll,       \* control register of each PLL
  phys,      \* what the PLL does: "off", "settling", "locked"
  bus,       \* source and divider of each bus
  dist,      \* distribution gates of PERI0 and PERI1
  stuck,     \* registers that ignore writes
  pc, i, cur,  \* phase, step of the phase, PLL being handled
  was,       \* was_enabled
  good, t,   \* stable, samples of this wait
  hi,        \* samples in a row that saw the LOCK bit
  ret        \* where the 24 MHz switch returns to

vars == <<dcxo, found, pll, phys, bus, dist, stuck, pc, i, cur, was, good, t, hi, ret>>
ctl  == <<i, cur, was, good, t, hi, ret>>
env  == <<dcxo, found, stuck>>

(* Output rates in kHz: REFPLL is dcxo * n / div, whatever factors it has;  *)
(* PERI0 multiplies it; sys24 is the crystal itself.                        *)
Factors(x) == CASE x = 19200 -> [n |-> 100, d |-> 80]
                [] x = 24000 -> [n |-> 100, d |-> 100]
                [] x = 26000 -> [n |-> 96, d |-> 104]

RefRate == (dcxo * pll["ref"].cfg.n) \div pll["ref"].cfg.d
SourceRate(b) ==
  IF bus[b].src = "sys24" THEN dcxo
  ELSE (RefRate * pll["peri0"].cfg.n) \div (IF b = "uart" THEN 5 ELSE 4)
Rate(b) == SourceRate(b) \div bus[b].div
NominalDiv(b) == CASE b = "ahb" -> 3 [] b = "uart" -> 20 [] OTHER -> 6

\* the nominal rate of a bus in MHz, and what it comes to in kHz when REFPLL
\* is not at 24 MHz
Nominal(b) == CASE b = "ahb" -> 200 [] b = "uart" -> 24 [] OTHER -> 100
Scaled(b)  == (Nominal(b) * RefRate) \div 24
Ceiling(b) == IF bus[b].src = "sys24" THEN dcxo ELSE Scaled(b)

Running(p) == pll[p].enable /\ pll[p].ldo /\ pll[p].locken /\ pll[p].out
Usable(p) == phys[p] = "locked" /\ Running(p)
UsesPeri(b) == bus[b].src = "peri"

PeriFactors == [n |-> 100, d |-> 1]
Off(f)  == [enable |-> FALSE, ldo |-> FALSE, locken |-> FALSE, out |-> FALSE, cfg |-> f, sdm |-> FALSE]
On(f)   == [enable |-> TRUE, ldo |-> TRUE, locken |-> TRUE, out |-> TRUE, cfg |-> f, sdm |-> FALSE]
Unseen(f) == [On(f) EXCEPT !.locken = FALSE]

\* any PLL setting an earlier stage leaves, a REFPLL at other factors than the
\* crystal's included; a bus it left on PERI0 works
Init ==
  /\ dcxo \in {19200, 24000, 26000}
  /\ pll \in [ref : {Off([n |-> 1, d |-> 1])}
                    \cup UNION {{On(f), Unseen(f)} : f \in RefFactors \cup {Factors(dcxo)}},
             peri0 : {Off(PeriFactors), On(PeriFactors), On([n |-> 50, d |-> 1]),
                      [On(PeriFactors) EXCEPT !.sdm = TRUE]},
             peri1 : {Off(PeriFactors), On(PeriFactors), Unseen(PeriFactors)}]
  /\ \A p \in Pll : pll[p].enable => pll["ref"].enable
  /\ phys \in [ref : {"off", "settling", "locked"}, peri0 : {"off", "settling", "locked"},
              peri1 : {"off", "locked"}]
  /\ \A p \in Pll : (phys[p] = "off") = ~ pll[p].enable
  /\ bus \in [Bus -> [src : {"sys24", "peri"}, div : Divs]]
  /\ \A b \in {"apb0", "apb1"} : bus[b] = bus["apb0"]
  /\ dist \in BOOLEAN
  /\ \A b \in Bus : /\ UsesPeri(b) => phys["ref"] = "locked" /\ Usable("peri0") /\ dist
                    /\ Rate(b) <= Ceiling(b)
  /\ found = pll["ref"]
  /\ stuck \in {{}} \cup {{r} : r \in Bus \cup {"dist"}}
  /\ pc = "down" /\ i = 1 /\ cur = 1 /\ was = FALSE /\ good = 0 /\ t = 0 /\ hi = 0
  /\ ret = "pll"

-----------------------------------------------------------------------------
(* a7s_bus_use_sys24, a7s_bus_use_nominal_rates: two writes per bus         *)

BusAt(k) == Buses[(k + 1) \div 2]
First(k) == k % 2 = 1

SetBus(b, f, v) == bus' = IF b \in stuck THEN bus ELSE [bus EXCEPT ![b][f] = v]

\* a7s_bus_switch_to_sys24: source first, divider second
DownStep(b, first) == IF first THEN SetBus(b, "src", "sys24") ELSE SetBus(b, "div", 1)

Down ==
  /\ pc = "down" /\ i <= 8
  /\ DownStep(BusAt(i), First(i))
  /\ i' = i + 1
  /\ UNCHANGED <<env, pll, phys, dist, pc, cur, was, good, t, hi, ret>>

OnSys24(b) == bus[b] = [src |-> "sys24", div |-> 1]

DownDone ==
  /\ pc = "down" /\ i > 8
  /\ pc' = IF ret = "pll" /\ \E b \in Bus : ~ OnSys24(b) THEN "err" ELSE ret
  /\ i' = 1 /\ cur' = 1
  /\ UNCHANGED <<env, pll, phys, bus, dist, was, good, t, hi, ret>>

\* mutant: the error return leaves the buses as they are
BackMissing == pc' = "err" /\ UNCHANGED <<i, ret>>

\* the error returns of a7s_clock_init once it may have left 24 MHz
Back == pc' = "down" /\ i' = 1 /\ ret' = "err"

\* a7s_bus_switch_up: divider first, source second
UpStep(b, first) == IF first THEN SetBus(b, "div", NominalDiv(b)) ELSE SetBus(b, "src", "peri")

Up ==
  /\ pc = "up" /\ i <= 8
  /\ UpStep(BusAt(i), First(i))
  /\ i' = i + 1
  /\ UNCHANGED <<env, pll, phys, dist, pc, cur, was, good, t, hi, ret>>

AtNominal(b) == bus[b] = [src |-> "peri", div |-> NominalDiv(b)]

UpDone ==
  /\ pc = "up" /\ i > 8
  /\ IF \A b \in Bus : AtNominal(b) THEN pc' = "ok" /\ UNCHANGED <<i, ret>> ELSE Back
  /\ UNCHANGED <<env, pll, phys, bus, dist, cur, was, good, t, hi>>

\* a7s_peri_distribution_enable of both PERI PLLs
Distribute ==
  /\ pc = "dist"
  /\ dist' = (dist \/ "dist" \notin stuck)
  /\ IF dist' THEN pc' = "up" /\ i' = 1 /\ UNCHANGED ret ELSE Back
  /\ UNCHANGED <<env, pll, phys, bus, cur, was, good, t, hi>>

-----------------------------------------------------------------------------
(* a7s_pll_program                                                          *)

P == Plls[cur]
Wanted(p) == IF p = "ref" THEN Factors(dcxo) ELSE PeriFactors

\* a PLL that is reprogrammed settles again, and so do those it feeds
Unsettle(p, new) ==
  [q \in Pll |->
     IF q = p THEN (IF ~ new.enable THEN "off"
                    ELSE IF ~ pll[p].enable \/ new.cfg # pll[p].cfg \/ new.sdm # pll[p].sdm
                           THEN "settling" ELSE phys[p])
     ELSE IF p = "ref" /\ phys[q] = "locked" /\ new.cfg # pll[p].cfg THEN "settling"
     ELSE phys[q]]

SetPll(new) == pll' = [pll EXCEPT ![P] = new] /\ phys' = Unsettle(P, new)

NextPll == IF cur = 3 THEN pc' = "dist" /\ UNCHANGED cur ELSE pc' = "pll" /\ cur' = cur + 1

\* the return for PERI1 switches the buses to 24 MHz once more
PllFailed == IF P = "peri1" THEN Back ELSE pc' = "err" /\ UNCHANGED <<i, ret>>

\* a7s_pll_is_running: REFPLL keeps its factors, whatever they are
Check ==
  /\ pc = "pll"
  /\ was' = pll[P].enable
  /\ pc' = IF Running(P) /\ (P = "ref" \/ pll[P].cfg = Wanted(P)) /\ ~ pll[P].sdm
             THEN "check" ELSE "program"
  /\ i' = 1 /\ good' = 0 /\ t' = 0 /\ hi' = 0
  /\ UNCHANGED <<env, pll, phys, bus, dist, cur, ret>>

\* mutant: a PLL that runs is reprogrammed with its outputs open
ProgramStepOpen(k) ==
  LET r == pll[P]
  IN  CASE k = 1 -> [r EXCEPT !.sdm = FALSE]
        [] k = 2 -> [r EXCEPT !.out = TRUE, !.ldo = TRUE]
        [] k = 3 -> [r EXCEPT !.locken = IF was THEN FALSE ELSE @]
        [] k = 4 -> [r EXCEPT !.cfg = Wanted(P)]
        [] k = 5 -> [r EXCEPT !.enable = TRUE]
        [] k = 6 -> [r EXCEPT !.locken = TRUE]

\* pattern off; outputs and lock detection off, or supplies and outputs on;
\* factors; enable; lock detection on
ProgramStep(k) ==
  LET r == pll[P]
  IN  CASE k = 1 -> [r EXCEPT !.sdm = FALSE]
        [] k = 2 -> [r EXCEPT !.out = ~ was, !.ldo = TRUE]
        [] k = 3 -> [r EXCEPT !.locken = IF was THEN FALSE ELSE @]
        [] k = 4 -> [r EXCEPT !.cfg = Wanted(P)]
        [] k = 5 -> [r EXCEPT !.enable = TRUE]
        [] k = 6 -> [r EXCEPT !.locken = TRUE]

\* a7s_read_dcxo_rate finds no stable status
DcxoUnknown ==
  /\ pc = "program" /\ P = "ref" /\ i = 1
  /\ PllFailed
  /\ UNCHANGED <<env, pll, phys, bus, dist, cur, was, good, t, hi>>

Program ==
  /\ pc = "program" /\ i <= 6
  /\ SetPll(ProgramStep(i))
  /\ i' = i + 1
  /\ pc' = IF i = 6 THEN "lock" ELSE pc
  /\ good' = 0 /\ t' = 0 /\ hi' = 0
  /\ UNCHANGED <<env, bus, dist, cur, was, ret>>

\* mutant: the samples that saw the lock need not be consecutive
CountSum(set) == IF set THEN good + 1 ELSE good

Count(set) == IF set THEN good + 1 ELSE 0

\* a7s_pll_wait_stable: one sample of the LOCK bit
Sample(set) ==
  /\ pc \in {"check", "recheck", "lock"} /\ good < StableReads /\ t < Timeout
  /\ phys[P] = "locked" => set
  /\ phys[P] = "off" => ~ set
  /\ phys[P] = "settling" /\ set => hi + 1 < StableReads
  /\ good' = Count(set) /\ t' = t + 1
  /\ hi' = IF set THEN hi + 1 ELSE 0
  /\ UNCHANGED <<env, pll, phys, bus, dist, pc, i, cur, was, ret>>

Stable ==
  /\ pc \in {"check", "recheck", "lock"} /\ good = StableReads
  /\ IF pc = "lock" /\ was
       THEN SetPll([pll[P] EXCEPT !.out = TRUE])
       ELSE UNCHANGED <<pll, phys>>
  /\ NextPll
  /\ UNCHANGED <<env, bus, dist, i, was, good, t, hi, ret>>

\* a PLL found unlocked is programmed (REFPLL after a second look by
\* a7s_pll_program, which also wants its factors); one that does not lock is
\* gated
Unstable ==
  /\ pc \in {"check", "recheck", "lock"} /\ good < StableReads /\ t = Timeout
  /\ good' = 0 /\ t' = 0 /\ hi' = 0
  /\ \/ /\ pc # "lock"
        /\ pc' = IF pc = "check" /\ P = "ref" /\ pll[P].cfg = Wanted(P) THEN "recheck" ELSE "program"
        /\ i' = 1
        /\ UNCHANGED <<pll, phys, ret>>
     \/ /\ pc = "lock"
        /\ SetPll([pll[P] EXCEPT !.out = FALSE])
        /\ PllFailed
  /\ UNCHANGED <<env, bus, dist, cur, was>>

\* the PLL under test settles (the others had all of its time to settle)
Settle ==
  /\ phys[P] = "settling"
  /\ phys' = [phys EXCEPT ![P] = "locked"]
  /\ UNCHANGED <<env, pll, bus, dist, pc, ctl>>

-----------------------------------------------------------------------------
\* a7s_clock_reset, from boot0_clear_env
Reset ==
  /\ pc \in {"ok", "err"}
  /\ pc' = "down" /\ i' = 1 /\ ret' = "fel"
  /\ UNCHANGED <<env, pll, phys, bus, dist, cur, was, good, t, hi>>

Fel == pc = "fel" /\ UNCHANGED vars

Next ==
  \/ Down \/ DownDone \/ Up \/ UpDone \/ Distribute
  \/ Check \/ DcxoUnknown \/ Program \/ (\E set \in BOOLEAN : Sample(set))
  \/ Stable \/ Unstable \/ Settle \/ Reset \/ Fel

Spec == Init /\ [][Next]_vars
-----------------------------------------------------------------------------
(***************************************************************************)
(* A bus that runs from PERI0 has a source: the PLL and the one that feeds *)
(* it are locked, its outputs and the distribution gates are open.  A lock *)
(* that was only a glitch never carries a bus.                             *)
(***************************************************************************)
BusHasSource ==
  \A b \in Bus : UsesPeri(b) =>
    Usable("peri0") /\ phys["ref"] = "locked" /\ pll["ref"].out /\ dist

(***************************************************************************)
(* No bus is ever faster than its nominal rate, between the two writes of  *)
(* a switch, on the error paths and with a stuck register included: on the *)
(* crystal it has at most the crystal's rate, on PERI0 at most the nominal *)
(* rate scaled by what REFPLL is off 24 MHz, since a7s_ref_pll_init keeps  *)
(* a stable REFPLL whatever its factors.                                   *)
(***************************************************************************)
NoOverclock == \A b \in Bus : Rate(b) <= Ceiling(b)

(***************************************************************************)
(* "24 MHz fallback requested": when a7s_clock_init fails, and when FEL is *)
(* entered, every bus whose register works is on the crystal.  Success     *)
(* means that REFPLL is at 24 MHz, or runs untouched as it was found, and  *)
(* that all four buses have exactly the rate this REFPLL gives them: with  *)
(* 24 MHz their nominal ones.                                              *)
(***************************************************************************)
Outcome ==
  /\ pc \in {"err", "fel"} => \A b \in Bus \ stuck : OnSys24(b)
  /\ pc = "ok" => /\ RefRate = 24000 \/ (pll["ref"] = found /\ Running("ref"))
                  /\ \A b \in Bus : AtNominal(b) /\ Rate(b) = Scaled(b)

(***************************************************************************)
(* A PLL is only touched while no bus depends on it, and while one that    *)
(* was running gets new factors its outputs are closed until it is locked  *)
(* ("Isolate consumers first").                                            *)
(***************************************************************************)
Isolated ==
  [][/\ pll' # pll => \A b \in Bus : ~ UsesPeri(b)
     /\ pc \in {"program", "lock"} /\ was /\ i > 2 /\ phys[P] = "settling" => ~ pll[P].out]_vars

\* So a7s_clock_init never leaves a bus without a clock that it can run on, at
\* any step between two register writes.
BusesSafe == BusHasSource /\ NoOverclock
=============================================================================
