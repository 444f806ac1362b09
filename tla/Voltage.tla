------------------------------ MODULE Voltage ------------------------------
(***************************************************************************)
(* The selector of an AXP8191 rail for a voltage (src/axp8191_voltage.c).  *)
(* A rail's voltages are a sequence of linear ranges, with gaps between    *)
(* them.                                                                   *)
(***************************************************************************)
EXTENDS Integers, Sequences

Range(mv, lo, hi, step) == [min |-> mv, lo |-> lo, hi |-> hi, step |-> step]

\* voltage_descs
Ranges ==
  [dcdc6 |-> <<Range(500, 0, 70, 10), Range(1220, 71, 87, 20), Range(1800, 88, 103, 20),
               Range(2440, 104, 112, 40)>>,
   dcdc7 |-> <<Range(500, 0, 70, 10), Range(1220, 71, 87, 20)>>,
   dcdc8 |-> <<Range(500, 0, 70, 10), Range(1220, 71, 87, 20), Range(1900, 88, 103, 100)>>,
   eldo  |-> <<Range(500, 0, 40, 25)>>,
   cldo  |-> <<Range(500, 0, 29, 100)>>]

RailKind == DOMAIN Ranges

\* voltage_mask of a7s_dram_rails, as the number of selectors it leaves room for
Room == [dcdc6 |-> 128, dcdc7 |-> 128, dcdc8 |-> 128, eldo |-> 64, cldo |-> 32]

\* range_max_mv
MaxMv(r) == r.min + (r.hi - r.lo) * r.step

\* The request within the limits of the rail.
Clamp(k, mv) ==
  LET least == Ranges[k][1].min
      most  == MaxMv(Ranges[k][Len(Ranges[k])])
  IN  IF mv < least THEN least ELSE IF mv > most THEN most ELSE mv

\* mutant: the offset is rounded down.
InRangeDown(r, mv) == r.lo + (IF mv <= r.min THEN 0 ELSE (mv - r.min) \div r.step)

\* The selector within a range: the voltage is rounded up.
InRange(r, mv) == r.lo + (IF mv <= r.min THEN 0 ELSE (mv - r.min + r.step - 1) \div r.step)

\* a7s_axp8191_voltage_selector: the first range that reaches the voltage.
Selector(k, mv) ==
  LET v == Clamp(k, mv)
      i == CHOOSE n \in DOMAIN Ranges[k] :
             /\ v <= MaxMv(Ranges[k][n])
             /\ \A j \in 1..(n - 1) : v > MaxMv(Ranges[k][j])
  IN  InRange(Ranges[k][i], v)

\* The voltage a selector stands for, by the chip's ranges.
Millivolts(k, s) ==
  LET r == Ranges[k][CHOOSE n \in DOMAIN Ranges[k] : s \in Ranges[k][n].lo..Ranges[k][n].hi]
  IN  r.min + (s - r.lo) * r.step

Selectors(k) == UNION {Ranges[k][n].lo..Ranges[k][n].hi : n \in DOMAIN Ranges[k]}

=============================================================================
