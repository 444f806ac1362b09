----------------------------- MODULE RailSwitch -----------------------------
(***************************************************************************)
(* What pmu_set_voltage_state promises the standby service, and what Rails *)
(* takes for granted in SetVoltageOff and SetVoltageOn: a call switches    *)
(* the rail it was asked to switch and no other, at most once, and is OK   *)
(* only if it did; a call that fails may or may not have switched it.      *)
(***************************************************************************)
CONSTANT Rail

VARIABLES
  powered,     \* the rails that are on
  req,         \* the call in progress, or None
  done,        \* its rail has been switched
  result       \* of the last call

vars == <<powered, req, done, result>>

None == [rail |-> "none", on |-> FALSE]

Init ==
  /\ powered \in SUBSET Rail
  /\ req = None /\ done = FALSE /\ result = "OK"

Request ==
  /\ req = None /\ req' # None /\ done' = FALSE
  /\ UNCHANGED <<powered, result>>

Switch ==
  /\ req # None /\ req.rail \in Rail /\ ~done
  /\ powered' = IF req.on THEN powered \cup {req.rail} ELSE powered \ {req.rail}
  /\ done' = TRUE
  /\ UNCHANGED <<req, result>>

Return ==
  /\ req # None
  /\ result' \in {"OK", "error"} /\ (result' = "OK" => done)
  /\ req' = None /\ done' = FALSE
  /\ UNCHANGED powered

Next == Request \/ Switch \/ Return

Spec == Init /\ [][Next]_vars
=============================================================================
