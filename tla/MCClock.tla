------------------------------- MODULE MCClock -------------------------------
(* Clock and ClockDiag for TLC: three stable reads as in the code, a wait of *)
(* a few samples, and buses left on any legal rate by an earlier stage.  The *)
(* registers the bring-up leaves alone have every source selected, the PLLs  *)
(* off, at their smallest, at a usual and at their largest factors.  REFPLL  *)
(* may be found at the factors of test_stable_ref_pll_is_preserved.          *)
EXTENDS ClockDiag

MCRefFactors == {[n |-> 89, d |-> 91]}

MCPll ==
  {[PLL_EN |-> e, LOCK_ENABLE |-> 1, LOCK |-> e, PLL_OUTPUT_GATE |-> 1, PLL_OUTPUT0_GATE |-> 1,
    PLL_OUTPUT1_GATE |-> e, PLL_FREF_SEL |-> x[1], PLL_N |-> x[2], PLL_INPUT_DIV |-> x[3],
    PLL_OUTPUT_DIV |-> x[4], PLL_OUTPUT0_DIV |-> x[4], PLL_OUTPUT1_DIV |-> x[3]] :
     e \in {0, 1}, x \in {<<0, 0, 0, 0>>, <<1, 86, 1, 2>>, <<1, 255, 0, 7>>}}

MCOther ==
  {[pll |-> p, clk |-> [GATING |-> 1 - (k \div 7), SEL |-> k % 7, M |-> 3 * k],
    lin |-> [EN |-> p.PLL_EN, GATE |-> 1, N |-> p.PLL_N, P |-> 2, M0 |-> 1, M1 |-> k],
    cpu |-> [SEL |-> k % 7, P |-> 2, APB |-> 1, GIC |-> 2, AXI |-> 3], slow |-> k % 4, gates |-> k < 6] :
     p \in MCPll, k \in 0..7}

\* the mask a7s_peri_distribution_enable writes is what the header documents
GateBits(def) == {def.sw[x] : x \in DOMAIN def.sw} \cup {def.auto[x] : x \in DOMAIN def.auto}
ASSUME DistributionGates ==
  \A def \in {PERI0PLL_GATE_EN_REG, PERI1PLL_GATE_EN_REG} : GateBits(def) = A7S_PERI_DISTRIBUTION_GATES
=============================================================================
