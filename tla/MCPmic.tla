------------------------------- MODULE MCPmic -------------------------------
(* A rail of every kind.  Voltages one below, at and one above the ends of   *)
(* every range, which is where the selector changes ranges; requests that    *)
(* leave the voltage or the switch, and one for a rail that does not exist.  *)
EXTENDS Pmic

MCKindOf == [cldo5 |-> "cldo", dcdc6 |-> "dcdc6", dcdc7 |-> "dcdc7", dcdc8 |-> "dcdc8", eldo1 |-> "eldo"]
Edges(k) ==
  UNION {{v - 1, v, v + 1} : v \in UNION {{r.min, r.min + r.step, MaxMv(r)} : r \in {Ranges[k][n] : n \in DOMAIN Ranges[k]}}}
MCRequests ==
  UNION {{<<r, v, 1>> : v \in Edges(MCKindOf[r])} : r \in DOMAIN MCKindOf}
    \cup {<<"dcdc8", 0, 0>>, <<"dcdc8", 1060, -1>>, <<"dcdc9", 900, 1>>}
=============================================================================
