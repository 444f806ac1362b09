------------------------------ MODULE MCPower ------------------------------
(* Two rails that share an on/off register.                                  *)
EXTENDS Power

MCRegOf == [dcdc1 |-> "ctl1", dcdc2 |-> "ctl1"]
=============================================================================
