----------------------------- MODULE MCFirmware -----------------------------
(* Frequencies in units of 100 Hz; an address space of 256 bytes, a tick     *)
(* space of 5; rates that fit both clocks, only the fast one, or neither.    *)
EXTENDS Firmware

Number(n, w) == [kind |-> "number", len |-> n, align |-> w]
Text(n) == [kind |-> "string", len |-> n, align |-> 0]
Char == [kind |-> "char", len |-> 1, align |-> 0]
Escape == [kind |-> "other", len |-> 2, align |-> 0]

MCFormats ==
  {[kind |-> 3, tokens |-> <<Text(12), Number(11, 0), Char>>],
   [kind |-> 1, tokens |-> <<Text(239), Number(11, 9), Text(300), Number(11, 0)>>],
   [kind |-> 1, tokens |-> <<Text(250), Number(11, 0)>>],
   [kind |-> 1, tokens |-> <<Text(230), Escape, Number(1, 9), Text(20)>>]}

MCMessages ==
  [type : {"DDRFREQ", "WAKEUP_SRC", "FAKE_POWER_OFF", "LOOPBACK", "other"}, paras : {<<0>>}]
  \cup [type : {"CPU_OP"}, paras : {<<0, 1, 0, 0, 3>>, <<0, 1, 0, 0, 1>>}]
  \cup [type : {"SYS_OP"}, paras : {<<2>>, <<4>>}]
  \cup [type : {"UART_BAUDRATE"}, paras : {<<>>, <<25000>>, <<400000>>}]
  \cup [type : {"DEBUG_LEVEL"}, paras : {<<3>>, <<0>>}]
  \cup [type : {"DRAM_CRC"}, paras : {<<1, 124, 4>>, <<1, 252, 8>>, <<1, 120, 12>>, <<2, 64, 4>>}]

\* the factors of ccu_set_mclk_div give the smallest ratio that is no less than
\* the one asked for, and touch nothing else
ASSUME Divider ==
  LET ratios == {n * 2^k : n \in 1 .. 32, k \in 0 .. 3}
  IN  \A d \in 1 .. 256 :
        LET r == ccu_set_mclk_div(PrcmReset, "R_CIR", d)
        IN  /\ ccu_get_mclk_div(r, "R_CIR") = Min({q \in ratios : q >= d})
            /\ [r EXCEPT !.cir = PrcmReset.cir] = PrcmReset /\ r.cir.src = 0

MCSamples == {<<40, 60>>, <<0, 60>>}
=============================================================================
