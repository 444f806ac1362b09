------------------------------ MODULE ClockRegs ------------------------------
(***************************************************************************)
(* The clock registers boot0 programs or reads, as the register header     *)
(* (clock_autogen.h) lays them out: which bits each field has and, for a   *)
(* selector, what each code selects.  The C code uses none of these names: *)
(* it shifts and masks by hand, so the header is an independent reference  *)
(* for ClockDiag.  Bits are those of the CLEAR_MASKs.                      *)
(***************************************************************************)
EXTENDS Integers

Bit(b) == <<b, 1>>
Bits(hi, lo) == <<lo, hi - lo + 1>>

\* f, and g where f says nothing
Merge(f, g) == [x \in DOMAIN f \cup DOMAIN g |-> IF x \in DOMAIN f THEN f[x] ELSE g[x]]

\* the fields all PLL control registers have
PllCommon ==
  [PLL_EN |-> Bit(31), PLL_LDO_EN |-> Bit(30), LOCK_ENABLE |-> Bit(29), LOCK |-> Bit(28),
   PLL_N |-> Bits(15, 8), PLL_UNLOCK_MDSEL |-> Bits(7, 6), PLL_LOCK_MDSEL |-> Bit(5),
   PLL_INPUT_DIV |-> Bit(1)]

PLL_REF_CTRL_REG ==
  Merge(PllCommon,
        [PLL_OUTPUT_GATE |-> Bit(27), PLL_REG_EN |-> Bit(24), PLL_OUTPUT_DIV |-> Bits(22, 16)])

OneOutput == [PLL_OUTPUT_GATE |-> Bit(27), PLL_FREF_SEL |-> Bit(24), PLL_OUTPUT_DIV |-> Bits(22, 20)]
TwoOutputs ==
  [PLL_OUTPUT0_GATE |-> Bit(27), PLL_OUTPUT1_GATE |-> Bit(26), PLL_FREF_SEL |-> Bit(24),
   PLL_OUTPUT0_DIV |-> Bits(22, 20), PLL_OUTPUT1_DIV |-> Bits(18, 16)]
ThreeOutputs == Merge(TwoOutputs, [PLL_OUTPUT2_GATE |-> Bit(25), PLL_OUTPUT2_DIV |-> Bits(4, 2)])

PLL_DDR_CTRL_REG    == Merge(PllCommon, OneOutput)
PLL_PERI0_CTRL_REG  == Merge(PllCommon, ThreeOutputs)
PLL_PERI1_CTRL_REG  == Merge(PllCommon, ThreeOutputs)
PLL_GPU0_CTRL_REG   == Merge(PllCommon, OneOutput)
PLL_VIDEO0_CTRL_REG == Merge(PllCommon, TwoOutputs)
PLL_VIDEO1_CTRL_REG == Merge(PllCommon, TwoOutputs)
PLL_VIDEO2_CTRL_REG == Merge(PllCommon, TwoOutputs)
PLL_VE0_CTRL_REG    == Merge(PllCommon, OneOutput)
PLL_VE1_CTRL_REG    == Merge(PllCommon, OneOutput)
PLL_AUDIO0_CTRL_REG == Merge(PllCommon, Merge([PLL_OUTPUT_DIV |-> Bits(22, 16)], OneOutput))
PLL_NPU_CTRL_REG    == Merge(PllCommon, OneOutput)
PLL_DE_CTRL_REG     == Merge(PllCommon, TwoOutputs)
PLL_CCI_CTRL_REG    == Merge(PllCommon, OneOutput)

\* a clock with a source: its fields, and what each selector code selects
BusSources == <<"HOSC", "CLK32K", "CLK16M_RC", "PERI0_600M">>
AHB_CLK_REG  == [fields |-> [SEL |-> Bits(25, 24), M |-> Bits(4, 0)], src |-> BusSources]
APB0_CLK_REG == [fields |-> [SEL |-> Bits(25, 24), M |-> Bits(4, 0)], src |-> BusSources]
APB1_CLK_REG == [fields |-> [SEL |-> Bits(25, 24), M |-> Bits(4, 0)], src |-> BusSources]
APB_UART_CLK_REG ==
  [fields |-> [SEL |-> Bits(26, 24), M |-> Bits(4, 0)],
   src |-> <<"HOSC", "CLK32K", "CLK16M_RC", "PERI0_600M", "PERI0_480M">>]
GIC_CLK_REG ==
  [fields |-> [GATING |-> Bit(31), SEL |-> Bits(25, 24), M |-> Bits(4, 0)],
   src |-> <<"HOSC", "CLK32K", "PERI0_600M", "PERI0_480M">>]
NSI_CLK_REG ==
  [fields |-> [GATING |-> Bit(31), RST |-> Bit(30), DFS_EN |-> Bit(28), UPD |-> Bit(27),
               SEL |-> Bits(26, 24), M |-> Bits(4, 0)],
   src |-> <<"DDRPLL", "PERI0_800M", "PERI0_600M", "CCIPLL", "DEPLL3X", "NPUPLL">>]
MBUS_CLK_REG ==
  [fields |-> [GATING |-> Bit(31), RST |-> Bit(30), DFS_EN |-> Bit(28), UPD |-> Bit(27),
               SEL |-> Bits(26, 24), M |-> Bits(4, 0)],
   src |-> <<"PERI0_600M", "DDRPLL", "PERI0_480M", "PERI0_400M", "CCIPLL", "NPUPLL">>]

\* the distribution gates of a PERI PLL: the ones software opens, and the
\* ones that keep a clock from being gated automatically
PERI0PLL_GATE_EN_REG ==
  [sw |-> [DSP_300M |-> 31, PLL2X |-> 27, M800 |-> 26, M600 |-> 25, ALL_480M |-> 24, M480 |-> 23,
           M160 |-> 22, ALL_300M |-> 21, M300 |-> 20, M150 |-> 19, ALL_400M |-> 18, M400 |-> 17,
           M200 |-> 16],
   auto |-> [PLL2X |-> 11, M800 |-> 10, M600 |-> 9, ALL_480M |-> 8, M480 |-> 7, M160 |-> 6,
             ALL_300M |-> 5, M300 |-> 4, M150 |-> 3, ALL_400M |-> 2, M400 |-> 1, M200 |-> 0]]
PERI1PLL_GATE_EN_REG ==
  [sw |-> [DSP_300M |-> 31, M800 |-> 27, ALL_600M |-> 26, M600 |-> 25, ALL_480M |-> 24, M480 |-> 23,
           M160 |-> 22, ALL_300M |-> 21, M300 |-> 20, M150 |-> 19, ALL_400M |-> 18, M400 |-> 17,
           M200 |-> 16],
   auto |-> [M800 |-> 11, ALL_600M |-> 10, M600 |-> 9, ALL_480M |-> 8, M480 |-> 7, M160 |-> 6,
             ALL_300M |-> 5, M300 |-> 4, M150 |-> 3, ALL_400M |-> 2, M400 |-> 1, M200 |-> 0]]

\* 0x8fff0fff, the bits a7s_peri_distribution_enable sets
A7S_PERI_DISTRIBUTION_GATES == {31} \cup 16..27 \cup 0..11
=============================================================================
