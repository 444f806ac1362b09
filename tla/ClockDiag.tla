------------------------------ MODULE ClockDiag ------------------------------
(***************************************************************************)
(* a7s_clock_read_rates and a7s_clock_dump (clock_diag_a733.c): the rates  *)
(* boot0 reports, decoded by shifts and masks from what the registers      *)
(* hold.  A register is its layout and a value for each field; reading     *)
(* bits that are no field of the layout yields 0.  Rates are in kHz, 0 is  *)
(* "off".                                                                  *)
(***************************************************************************)
EXTENDS Clock, ClockRegs

CONSTANT OtherImages   \* settings of the registers a7s_clock_init leaves alone

ASSUME OtherAssumption ==
  \A o \in OtherImages : \A v \in {o.pll, o.clk} : \A x \in DOMAIN v : v[x] \in Nat

Get(reg, lo, w) ==
  LET at == {x \in DOMAIN reg.layout : reg.layout[x] = <<lo, w>>}
  IN  IF at = {} THEN 0 ELSE reg.v[CHOOSE x \in at : TRUE]
IsSet(reg, b) == Get(reg, b, 1) = 1

\* struct a7s_clock_rates
Rates ==
  {"dcxo", "ref", "cpu_back_pll", "cpu_a_pll", "cpu_b_pll", "dsu_pll", "cpu_a", "cpu_b", "dsu",
   "dsu_axi", "dsu_apb", "dsu_gic", "ddr", "peri0_2x", "peri0_800", "peri0_480", "peri1_2x",
   "peri1_800", "peri1_480", "npu", "de_3x", "cci", "ahb", "apb0", "apb1", "uart", "gic", "nsi",
   "mbus"}

a7s_dcxo_rate(status) == CASE status = 1 -> 19200 [] status = 2 -> 26000 [] OTHER -> 24000

a7s_div_rate(parent, divisor) == IF parent = 0 \/ divisor = 0 THEN 0 ELSE parent \div divisor

a7s_main_pll_input(reg, xo, ref) == IF IsSet(reg, 24) THEN ref ELSE xo

a7s_main_pll_output(reg, parent, p_shift, p_width, gate_bit) ==
  IF ~ (IsSet(reg, 31) /\ IsSet(reg, gate_bit)) THEN 0
  ELSE a7s_div_rate(parent * (Get(reg, 8, 8) + 1),
                    (Get(reg, 1, 1) + 1) * (Get(reg, p_shift, p_width) + 1))

a7s_ref_pll_rate(reg, xo) ==
  IF ~ (IsSet(reg, 31) /\ IsSet(reg, 27)) THEN 0
  ELSE a7s_div_rate(xo * (Get(reg, 8, 8) + 1), (Get(reg, 1, 1) + 1) * (Get(reg, 16, 7) + 1))

a7s_cpu_back_pll_rate(reg, xo) == a7s_main_pll_output(reg, xo, 20, 3, 27)

\* the linear PLLs store N itself
a7s_cpu_linear_pll_rate(reg, xo) ==
  IF ~ (IsSet(reg, 31) /\ IsSet(reg, 27)) THEN 0
  ELSE a7s_div_rate(xo * Get(reg, 8, 8),
                    (Get(reg, 16, 4) + 1) * (Get(reg, 20, 2) + 1) * (Get(reg, 0, 4) + 1))

a7s_cpu_slow_rate(sel, xo) == CASE sel = 0 -> xo [] sel = 1 -> 32 [] sel = 2 -> 16000 [] OTHER -> 0

a7s_cpu_cluster_rate(reg, slow, cluster_pll, peri0_2x, cpu_back) ==
  LET source == Get(reg, 24, 3)
  IN  CASE source < 3 -> slow
        [] source = 3 -> a7s_div_rate(cluster_pll, 2 ^ Get(reg, 16, 2))
        [] source = 4 -> a7s_div_rate(peri0_2x, 2)
        [] source = 5 -> cpu_back
        [] OTHER -> 0

a7s_dsu_rate(reg, slow, dsu_pll, cpu_a, peri0_2x) ==
  LET source == Get(reg, 24, 3)
  IN  CASE source < 3 -> slow
        [] source = 3 -> a7s_div_rate(dsu_pll, 2 ^ Get(reg, 16, 2))
        [] source = 4 -> cpu_a
        [] source = 5 -> a7s_div_rate(peri0_2x, 2)
        [] OTHER -> 0

FactorM(reg) == Get(reg, 0, 5) + 1
Nth(seq, k) == IF k < Len(seq) THEN seq[k + 1] ELSE 0

a7s_standard_bus_rate(reg, xo, peri0_2x) ==
  a7s_div_rate(Nth(<<xo, 32, 16000, a7s_div_rate(peri0_2x, 2)>>, Get(reg, 24, 2)), FactorM(reg))

a7s_uart_rate(reg, xo, peri0_2x, peri0_480) ==
  a7s_div_rate(Nth(<<xo, 32, 16000, a7s_div_rate(peri0_2x, 2), peri0_480>>, Get(reg, 24, 3)), FactorM(reg))

a7s_gic_rate(reg, r) ==
  IF ~ IsSet(reg, 31) THEN 0
  ELSE a7s_div_rate(Nth(<<r.dcxo, 32, a7s_div_rate(r.peri0_2x, 2), r.peri0_480>>, Get(reg, 24, 2)),
                    FactorM(reg))

\* mutant: the sources in the order MBUS has them
NsiRateAsMbus(reg, r) ==
  IF ~ IsSet(reg, 31) THEN 0
  ELSE a7s_div_rate(Nth(<<a7s_div_rate(r.peri0_2x, 2), r.ddr, r.peri0_480, r.cci, r.de_3x, r.npu>>,
                        Get(reg, 24, 3)), FactorM(reg))

a7s_nsi_rate(reg, r) ==
  IF ~ IsSet(reg, 31) THEN 0
  ELSE a7s_div_rate(Nth(<<r.ddr, r.peri0_800, a7s_div_rate(r.peri0_2x, 2), r.cci, r.de_3x, r.npu>>,
                        Get(reg, 24, 3)), FactorM(reg))

a7s_mbus_rate(reg, r) ==
  IF ~ IsSet(reg, 31) THEN 0
  ELSE a7s_div_rate(Nth(<<a7s_div_rate(r.peri0_2x, 2), r.ddr, r.peri0_480,
                          a7s_div_rate(r.peri0_2x, 3), r.cci, r.npu>>,
                        Get(reg, 24, 3)), FactorM(reg))

\* the three outputs of a PERI PLL
PeriOutputs(reg, xo, ref) ==
  LET input == a7s_main_pll_input(reg, xo, ref)
  IN  <<a7s_main_pll_output(reg, input, 20, 3, 27), a7s_main_pll_output(reg, input, 16, 3, 26),
        a7s_main_pll_output(reg, input, 2, 3, 25)>>

Output0(reg, xo, ref) == a7s_main_pll_output(reg, a7s_main_pll_input(reg, xo, ref), 20, 3, 27)
Output1(reg, xo, ref) == a7s_main_pll_output(reg, a7s_main_pll_input(reg, xo, ref), 16, 3, 26)
Gated(open, rate) == IF open THEN rate ELSE 0

\* a7s_clock_read_rates in three parts: the PLLs ...
PllRates(g, xo, ref, peri0, peri1) ==
  [dcxo |-> xo, ref |-> ref, cpu_back_pll |-> a7s_cpu_back_pll_rate(g.BACK, xo),
   cpu_a_pll |-> a7s_cpu_linear_pll_rate(g.A, xo), cpu_b_pll |-> a7s_cpu_linear_pll_rate(g.B, xo),
   dsu_pll |-> a7s_cpu_linear_pll_rate(g.DSU, xo),
   ddr |-> Output0(g.DDR, xo, ref), npu |-> Output0(g.NPU, xo, ref),
   de_3x |-> Output1(g.DE, xo, ref), cci |-> Output0(g.CCI, xo, ref),
   peri0_2x |-> peri0[1], peri0_800 |-> peri0[2], peri0_480 |-> peri0[3],
   peri1_2x |-> peri1[1], peri1_800 |-> peri1[2], peri1_480 |-> peri1[3]]

\* ... the CPUs and the DSU with what it feeds ...
DsuRates(g, dsu) ==
  [dsu |-> dsu, dsu_axi |-> a7s_div_rate(dsu, Get(g.DSU_CLK, 0, 2) + 1),
   dsu_gic |-> a7s_div_rate(dsu, Get(g.DSU_CLK, 2, 2) + 1),
   dsu_apb |-> a7s_div_rate(dsu, Get(g.DSU_CLK, 8, 2) + 1)]

ClusterRate(reg, open, slow, own, r) ==
  Gated(open, a7s_cpu_cluster_rate(reg, slow, own, r.peri0_2x, r.cpu_back_pll))

CpuRates(g, r, slow, cpu_a) ==
  Merge(DsuRates(g, Gated(g.gate_dsu, a7s_dsu_rate(g.DSU_CLK, slow, r.dsu_pll, cpu_a, r.peri0_2x))),
        [cpu_a |-> cpu_a, cpu_b |-> ClusterRate(g.B_CLK, g.gate_b, slow, r.cpu_b_pll, r)])

\* ... and the buses.
BusRates(g, r) ==
  [ahb  |-> a7s_standard_bus_rate(g.AHB, r.dcxo, r.peri0_2x),
   apb0 |-> a7s_standard_bus_rate(g.APB0, r.dcxo, r.peri0_2x),
   apb1 |-> a7s_standard_bus_rate(g.APB1, r.dcxo, r.peri0_2x),
   uart |-> a7s_uart_rate(g.UART, r.dcxo, r.peri0_2x, r.peri0_480),
   gic  |-> a7s_gic_rate(g.GIC, r), nsi |-> a7s_nsi_rate(g.NSI, r), mbus |-> a7s_mbus_rate(g.MBUS, r)]

a7s_clock_read_rates(g) ==
  LET WithCpus(r, slow) ==
        Merge(r, CpuRates(g, r, slow, ClusterRate(g.A_CLK, g.gate_a, slow, r.cpu_a_pll, r)))
      WithBuses(r) == Merge(r, BusRates(g, r))
      OnRef(xo, ref) ==
        WithBuses(WithCpus(PllRates(g, xo, ref, PeriOutputs(g.PERI0, xo, ref), PeriOutputs(g.PERI1, xo, ref)),
                           a7s_cpu_slow_rate(g.slow, xo)))
      OnCrystal(xo) == OnRef(xo, a7s_ref_pll_rate(g.REF, xo))
  IN  OnCrystal(a7s_dcxo_rate(g.xo))

-----------------------------------------------------------------------------
(* a7s_clock_dump: the PLLs it reports, each with its rates and lock state  *)

a7s_pll_lock_state(reg) ==
  IF ~ IsSet(reg, 29) THEN "unchecked" ELSE IF IsSet(reg, 28) THEN "locked" ELSE "unlocked"

a7s_print_single_pll(reg, rate) == [rates |-> <<rate>>, lock |-> a7s_pll_lock_state(reg)]
a7s_print_cpu_pll(reg, rate) == [rates |-> <<rate>>, lock |-> a7s_pll_lock_state(reg)]
a7s_print_main_single(reg, xo, ref) == a7s_print_single_pll(reg, Output0(reg, xo, ref))
a7s_print_main_dual(reg, xo, ref) ==
  [rates |-> <<Output0(reg, xo, ref), Output1(reg, xo, ref)>>, lock |-> a7s_pll_lock_state(reg)]
a7s_print_audio_plls(audio0, audio1, ref) ==
  [AUDIO0 |-> [rates |-> <<a7s_main_pll_output(audio0, ref, 16, 7, 27)>>, lock |-> a7s_pll_lock_state(audio0)],
   AUDIO1 |-> [rates |-> <<a7s_main_pll_output(audio1, ref, 20, 3, 27), a7s_main_pll_output(audio1, ref, 16, 3, 27)>>,
               lock |-> a7s_pll_lock_state(audio1)]]

\* g: the registers, r: their rates, read first
a7s_clock_dump(g, r) ==
  LET Peri(reg, x2, x800, x480) == [rates |-> <<x2, x800, x480>>, lock |-> a7s_pll_lock_state(reg)]
  IN  Merge(
       [REF |-> a7s_print_single_pll(g.REF, r.ref),
        BACK |-> a7s_print_cpu_pll(g.BACK, r.cpu_back_pll), A |-> a7s_print_cpu_pll(g.A, r.cpu_a_pll),
        B |-> a7s_print_cpu_pll(g.B, r.cpu_b_pll), DSU |-> a7s_print_cpu_pll(g.DSU, r.dsu_pll),
        DDR |-> a7s_print_single_pll(g.DDR, r.ddr),
        PERI0 |-> Peri(g.PERI0, r.peri0_2x, r.peri0_800, r.peri0_480),
        PERI1 |-> Peri(g.PERI1, r.peri1_2x, r.peri1_800, r.peri1_480),
        GPU0 |-> a7s_print_main_single(g.GPU0, r.dcxo, r.ref),
        VIDEO0 |-> a7s_print_main_dual(g.VIDEO0, r.dcxo, r.ref),
        VIDEO1 |-> a7s_print_main_dual(g.VIDEO1, r.dcxo, r.ref),
        VIDEO2 |-> a7s_print_main_dual(g.VIDEO2, r.dcxo, r.ref),
        VE0 |-> a7s_print_main_single(g.VE0, r.dcxo, r.ref),
        VE1 |-> a7s_print_main_single(g.VE1, r.dcxo, r.ref),
        NPU |-> a7s_print_single_pll(g.NPU, r.npu), DE |-> a7s_print_main_dual(g.DE, r.dcxo, r.ref),
        CCI |-> a7s_print_single_pll(g.CCI, r.cci)],
       a7s_print_audio_plls(g.AUDIO0, g.AUDIO1, r.ref))

-----------------------------------------------------------------------------
(* What the registers hold when boot0 dumps them                            *)

Num(b) == IF b THEN 1 ELSE 0
Reg(layout, v) ==
  [layout |-> layout, v |-> [x \in DOMAIN layout |-> IF x \in DOMAIN v THEN v[x] % 2 ^ layout[x][2] ELSE 0]]

\* a PLL of Clock: REFPLL with its output divider, a PERI PLL with /2, /3, /5
PllReg(p) ==
  LET r == pll[p]
      common == [PLL_EN |-> Num(r.enable), PLL_LDO_EN |-> Num(r.ldo), LOCK_ENABLE |-> Num(r.locken),
                 LOCK |-> Num(phys[p] = "locked"), PLL_N |-> r.cfg.n - 1]
  IN  IF p = "ref"
        THEN Reg(PLL_REF_CTRL_REG, Merge(common, [PLL_OUTPUT_GATE |-> Num(r.out), PLL_REG_EN |-> 1,
                                                  PLL_OUTPUT_DIV |-> r.cfg.d - 1]))
        ELSE Reg(PLL_PERI0_CTRL_REG,
                 Merge(common, [PLL_OUTPUT0_GATE |-> Num(r.out), PLL_OUTPUT1_GATE |-> Num(r.out),
                                PLL_OUTPUT2_GATE |-> Num(r.out), PLL_FREF_SEL |-> 1,
                                PLL_OUTPUT0_DIV |-> 1, PLL_OUTPUT1_DIV |-> 2, PLL_OUTPUT2_DIV |-> 4]))

BusReg(b, def) ==
  Reg(def.fields, [SEL |-> IF bus[b].src = "sys24" THEN 0 ELSE IF b = "uart" THEN 4 ELSE 3,
                   M |-> bus[b].div - 1])

\* the registers of the CPU PLLs and clocks, laid out as this code reads them
LinearPll == [EN |-> Bit(31), LOCK_ENABLE |-> Bit(29), LOCK |-> Bit(28), GATE |-> Bit(27), M0 |-> Bits(21, 20),
              P |-> Bits(19, 16), N |-> Bits(15, 8), M1 |-> Bits(3, 0)]
CpuClk == [SEL |-> Bits(26, 24), P |-> Bits(17, 16), APB |-> Bits(9, 8), GIC |-> Bits(3, 2), AXI |-> Bits(1, 0)]

\* every register the dump reads; o sets those that a7s_clock_init does not
Image(o) ==
  LET Main(layout) == Reg(layout, o.pll)
      Clk(def) == Reg(def.fields, o.clk)
  IN  [xo |-> CASE dcxo = 19200 -> 1 [] dcxo = 26000 -> 2 [] OTHER -> 0,
       REF |-> PllReg("ref"), PERI0 |-> PllReg("peri0"), PERI1 |-> PllReg("peri1"),
       AHB |-> BusReg("ahb", AHB_CLK_REG), APB0 |-> BusReg("apb0", APB0_CLK_REG),
       APB1 |-> BusReg("apb1", APB1_CLK_REG), UART |-> BusReg("uart", APB_UART_CLK_REG),
       GIC |-> Clk(GIC_CLK_REG), NSI |-> Clk(NSI_CLK_REG), MBUS |-> Clk(MBUS_CLK_REG),
       DDR |-> Main(PLL_DDR_CTRL_REG), GPU0 |-> Main(PLL_GPU0_CTRL_REG),
       VIDEO0 |-> Main(PLL_VIDEO0_CTRL_REG), VIDEO1 |-> Main(PLL_VIDEO1_CTRL_REG),
       VIDEO2 |-> Main(PLL_VIDEO2_CTRL_REG), VE0 |-> Main(PLL_VE0_CTRL_REG),
       VE1 |-> Main(PLL_VE1_CTRL_REG), AUDIO0 |-> Main(PLL_AUDIO0_CTRL_REG),
       AUDIO1 |-> Main(PLL_DE_CTRL_REG), NPU |-> Main(PLL_NPU_CTRL_REG),
       DE |-> Main(PLL_DE_CTRL_REG), CCI |-> Main(PLL_CCI_CTRL_REG), BACK |-> Main(PLL_DDR_CTRL_REG),
       A |-> Reg(LinearPll, o.lin), B |-> Reg(LinearPll, o.lin), DSU |-> Reg(LinearPll, o.lin),
       A_CLK |-> Reg(CpuClk, o.cpu), B_CLK |-> Reg(CpuClk, o.cpu), DSU_CLK |-> Reg(CpuClk, o.cpu),
       slow |-> o.slow, gate_a |-> o.gates, gate_b |-> o.gates, gate_dsu |-> o.gates]

-----------------------------------------------------------------------------
(* The rates by the register header: fields and sources by name             *)

\* gate and divider field of an output
Only   == <<"PLL_OUTPUT_GATE", "PLL_OUTPUT_DIV">>
First0 == <<"PLL_OUTPUT0_GATE", "PLL_OUTPUT0_DIV">>
Second == <<"PLL_OUTPUT1_GATE", "PLL_OUTPUT1_DIV">>
Third  == <<"PLL_OUTPUT2_GATE", "PLL_OUTPUT2_DIV">>

NamedOutput(reg, xo, ref, out) ==
  LET v == reg.v
      from == IF "PLL_FREF_SEL" \in DOMAIN v /\ v["PLL_FREF_SEL"] = 1 THEN ref ELSE xo
  IN  IF v["PLL_EN"] = 1 /\ v[out[1]] = 1
        THEN (from * (v["PLL_N"] + 1)) \div ((v["PLL_INPUT_DIV"] + 1) * (v[out[2]] + 1))
        ELSE 0

NamedSources(g) ==
  LET xo == dcxo
      ref == NamedOutput(g.REF, xo, 0, Only)
  IN  [HOSC |-> xo, CLK32K |-> 32, CLK16M_RC |-> 16000,
       PERI0_800M |-> NamedOutput(g.PERI0, xo, ref, Second),
       PERI0_600M |-> NamedOutput(g.PERI0, xo, ref, First0) \div 2,
       PERI0_480M |-> NamedOutput(g.PERI0, xo, ref, Third),
       PERI0_400M |-> NamedOutput(g.PERI0, xo, ref, First0) \div 3,
       DDRPLL |-> NamedOutput(g.DDR, xo, ref, Only), CCIPLL |-> NamedOutput(g.CCI, xo, ref, Only),
       DEPLL3X |-> NamedOutput(g.DE, xo, ref, Second), NPUPLL |-> NamedOutput(g.NPU, xo, ref, Only)]

NamedRate(s, reg, def) ==
  LET v == reg.v
  IN  IF ("GATING" \in DOMAIN v => v["GATING"] = 1) /\ v["SEL"] < Len(def.src)
        THEN s[def.src[v["SEL"] + 1]] \div (v["M"] + 1)
        ELSE 0

DefOf == [AHB |-> AHB_CLK_REG, APB0 |-> APB0_CLK_REG, APB1 |-> APB1_CLK_REG, UART |-> APB_UART_CLK_REG,
          GIC |-> GIC_CLK_REG, NSI |-> NSI_CLK_REG, MBUS |-> MBUS_CLK_REG]
OutputsOf == [GPU0 |-> <<Only>>, VE0 |-> <<Only>>, VE1 |-> <<Only>>, VIDEO0 |-> <<First0, Second>>,
              VIDEO1 |-> <<First0, Second>>, VIDEO2 |-> <<First0, Second>>, DE |-> <<First0, Second>>,
              AUDIO0 |-> <<Only>>, DDR |-> <<Only>>, NPU |-> <<Only>>, CCI |-> <<Only>>,
              PERI0 |-> <<First0, Second, Third>>, PERI1 |-> <<First0, Second, Third>>]

\* registers g, rates read r, what is printed d, sources by name s
DumpAgrees(g, r, d, s) ==
  LET rate == [AHB |-> r.ahb, APB0 |-> r.apb0, APB1 |-> r.apb1, UART |-> r.uart, GIC |-> r.gic,
               NSI |-> r.nsi, MBUS |-> r.mbus]
  IN  /\ DOMAIN r = Rates
      /\ \A c \in DOMAIN DefOf : rate[c] = NamedRate(s, g[c], DefOf[c])
      /\ <<r.ahb, r.apb0, r.apb1, r.uart>> = [k \in 1..4 |-> Rate(Buses[k])]
      /\ \A p \in DOMAIN OutputsOf :
           (p = "AUDIO0" => g.AUDIO0.v["PLL_FREF_SEL"] = 1) =>
             d[p].rates = [k \in DOMAIN OutputsOf[p] |-> NamedOutput(g[p], r.dcxo, r.ref, OutputsOf[p][k])]
      /\ {d["REF"].lock, d["PERI0"].lock} = {"locked"}

(***************************************************************************)
(* The dump tells the truth about the tree a7s_clock_init left: every bus  *)
(* and fabric clock has the rate its source and divider give by the        *)
(* register header's names, 0 exactly when it is off; the four buses have  *)
(* the rates of Clock; every PLL output printed is that output of that     *)
(* PLL; and the PLLs the buses depend on are reported locked.  One thing   *)
(* the dump does not read is AUDIO0's reference select: it takes REFPLL.   *)
(***************************************************************************)
DumpTrue ==
  LET Dumped(g, r) == DumpAgrees(g, r, a7s_clock_dump(g, r), NamedSources(g))
      Read(g) == Dumped(g, a7s_clock_read_rates(g))
  IN  pc = "ok" => \A o \in OtherImages : Read(Image(o))
=============================================================================
