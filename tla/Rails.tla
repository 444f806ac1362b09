-------------------------------- MODULE Rails --------------------------------
(***************************************************************************)
(* The rail transaction of the standby service: which PMIC outputs are     *)
(* switched off on the way into standby, how they are recorded in a LIFO   *)
(* array, and how a failed TWI access on the way in or out is survived.    *)
(* Source: plat_standby.c, dm_restore_off_rails .. dm_resume, over         *)
(* pmu_set_voltage_state (pmu.c, pmu_axp8191.c).                           *)
(*                                                                         *)
(* One action is one iteration of a loop of the source, so that every      *)
(* prefix of a pass is a state.  The standby state machine calls           *)
(* dm_suspend and, whatever dm_suspend returned, dm_resume afterwards;     *)
(* here the two may be called in any order, any number of times.           *)
(***************************************************************************)
EXTENDS Integers

CONSTANTS
  AXP_POWER_MAX,   \* rails the masks of the device tree can name (32)
  NGroup           \* mask words dm_suspend goes through (6), in their order

ASSUME RailsAssumption ==
  /\ AXP_POWER_MAX \in Nat \ {0}
  /\ NGroup \in Nat \ {0}

Rail  == 0 .. AXP_POWER_MAX - 1
Group == 1 .. NGroup

VARIABLES
  mask,          \* mask[g]: the g-th standby_vcc_*/vdd_* word, as a set of rails
  powered,       \* PMIC on/off register bits: the rails that are on
  dm_off_order,  \* u8 dm_off_order[AXP_POWER_MAX]
  dm_off_count,
  dm_off_mask,   \* u32 bit mask, as a set of rails
  failed_order,  \* locals of dm_restore_off_rails
  failed_count,
  pc,            \* "idle", "restore" (while loop), "off" (for loop)
  goal,          \* the call: "suspend", "rollback" (dm_suspend, failed), "resume"
  group, type,   \* cursors of dm_suspend and of dm_power_off_mask
  ret,           \* result of the last completed call
  unseen         \* history: rails that are off without a recorded success

vars == <<mask, powered, dm_off_order, dm_off_count, dm_off_mask, failed_order,
          failed_count, pc, goal, group, type, ret, unseen>>

(***************************************************************************)
(* axp8191_pmu_set_voltage_state: read, modify, write.  The read or the    *)
(* write may fail on the bus; a write that is reported as failed may have  *)
(* reached the PMIC (the error can be that of the stop condition).         *)
(***************************************************************************)
SetVoltageOff(r, ok) ==
  IF ok THEN /\ powered' = powered \ {r}
             /\ UNCHANGED unseen
        ELSE \/ UNCHANGED <<powered, unseen>>
             \/ /\ powered' = powered \ {r}
                /\ unseen' = unseen \cup {r}

SetVoltageOn(r, ok) ==
  /\ powered' \in IF ok THEN {powered \cup {r}} ELSE {powered, powered \cup {r}}
  /\ unseen' = unseen \ powered'

Init ==
  /\ mask \in [Group -> SUBSET Rail]
  /\ powered \in SUBSET Rail
  /\ unseen = Rail \ powered
  /\ dm_off_order = [i \in Rail |-> 0]
  /\ dm_off_count = 0
  /\ dm_off_mask = {}
  /\ failed_order = [i \in Rail |-> 0]
  /\ failed_count = 0
  /\ pc = "idle"
  /\ goal = "resume"
  /\ group = 1
  /\ type = 0
  /\ ret = "OK"

Restore(why) ==
  /\ pc' = "restore"
  /\ goal' = why
  /\ failed_count' = 0

(***************************************************************************)
(* dm_suspend, entry: rails left over from an earlier failed resume are    *)
(* restored first; otherwise the bookkeeping is cleared and the first mask *)
(* word is started.                                                        *)
(***************************************************************************)
StartPowerOff ==
  /\ pc' = "off"
  /\ dm_off_count' = 0
  /\ dm_off_mask' = {}
  /\ group' = 1
  /\ type' = 0

\* mutant: dm_suspend clears the record without restoring what it holds
SuspendForgets ==
  /\ pc = "idle"
  /\ StartPowerOff
  /\ goal' = "suspend"
  /\ UNCHANGED <<mask, powered, dm_off_order, failed_order, failed_count, ret, unseen>>

SuspendBegin ==
  /\ pc = "idle"
  /\ IF dm_off_count > 0
       THEN Restore("suspend") /\ UNCHANGED <<dm_off_count, dm_off_mask, group, type>>
       ELSE StartPowerOff /\ goal' = "suspend" /\ UNCHANGED failed_count
  /\ UNCHANGED <<mask, powered, dm_off_order, failed_order, ret, unseen>>

ResumeBegin ==
  /\ pc = "idle"
  /\ Restore("resume")
  /\ UNCHANGED <<mask, powered, dm_off_order, dm_off_count, dm_off_mask,
                 failed_order, group, type, ret, unseen>>

(***************************************************************************)
(* One iteration of the while loop of dm_restore_off_rails.                *)
(***************************************************************************)
\* mutant: the bit is cleared before the result of the write is known
RestoreRailClears(ok) ==
  /\ pc = "restore"
  /\ dm_off_count > 0
  /\ LET r == dm_off_order[dm_off_count - 1]
     IN  /\ SetVoltageOn(r, ok)
         /\ dm_off_mask' = dm_off_mask \ {r}
         /\ dm_off_count' = dm_off_count - 1
         /\ IF ok THEN UNCHANGED <<failed_order, failed_count>>
                  ELSE /\ failed_order' = [failed_order EXCEPT ![failed_count] = r]
                       /\ failed_count' = failed_count + 1
  /\ UNCHANGED <<mask, dm_off_order, pc, goal, group, type, ret>>

RestoreRail(ok) ==
  /\ pc = "restore"
  /\ dm_off_count > 0
  /\ LET r == dm_off_order[dm_off_count - 1]
     IN  /\ SetVoltageOn(r, ok)
         /\ dm_off_count' = dm_off_count - 1
         /\ IF ok THEN /\ dm_off_mask' = dm_off_mask \ {r}
                       /\ UNCHANGED <<failed_order, failed_count>>
                  ELSE /\ failed_order' = [failed_order EXCEPT ![failed_count] = r]
                       /\ failed_count' = failed_count + 1
                       /\ UNCHANGED dm_off_mask
  /\ UNCHANGED <<mask, dm_off_order, pc, goal, group, type, ret>>

(***************************************************************************)
(* The end of dm_restore_off_rails: failed rails go back into the array in *)
(* shutdown order, and the caller decides.                                 *)
(***************************************************************************)
\* mutant: the failed rails are copied back without reversing them
PutBackUnreversed ==
  [i \in Rail |-> IF i < failed_count THEN failed_order[i] ELSE dm_off_order[i]]

PutBack ==
  [i \in Rail |-> IF i < failed_count THEN failed_order[failed_count - i - 1]
                                      ELSE dm_off_order[i]]

\* mutant: rails that could not be restored do not block the next standby
RestoreDoneProceeds ==
  /\ pc = "restore"
  /\ dm_off_count = 0
  /\ dm_off_order' = PutBack
  /\ IF goal = "suspend"
       THEN /\ pc' = "off"
            /\ dm_off_count' = failed_count
            /\ group' = 1
            /\ type' = 0
            /\ UNCHANGED <<dm_off_mask, ret>>
       ELSE /\ pc' = "idle"
            /\ dm_off_count' = failed_count
            /\ ret' = IF failed_count = 0 /\ goal = "resume" THEN "OK" ELSE "error"
            /\ UNCHANGED <<dm_off_mask, group, type>>
  /\ UNCHANGED <<mask, powered, failed_order, failed_count, goal, unseen>>

RestoreDone ==
  /\ pc = "restore"
  /\ dm_off_count = 0
  /\ dm_off_order' = PutBack
  /\ IF goal = "suspend" /\ failed_count = 0
       THEN StartPowerOff /\ UNCHANGED ret
       ELSE /\ pc' = "idle"
            /\ dm_off_count' = failed_count
            /\ ret' = IF failed_count = 0 /\ goal = "resume" THEN "OK" ELSE "error"
            /\ UNCHANGED <<dm_off_mask, group, type>>
  /\ UNCHANGED <<mask, powered, failed_order, failed_count, goal, unseen>>

(***************************************************************************)
(* One iteration of the for loop of dm_power_off_mask, for the current     *)
(* mask word; and the step to the next word or out of dm_suspend.          *)
(***************************************************************************)
ToSwitchOff == type \in mask[group] /\ type \notin dm_off_mask

SkipRail ==
  /\ pc = "off"
  /\ type < AXP_POWER_MAX
  /\ ~ToSwitchOff
  /\ type' = type + 1
  /\ UNCHANGED <<mask, powered, dm_off_order, dm_off_count, dm_off_mask,
                 failed_order, failed_count, pc, goal, group, ret, unseen>>

PowerOffRail ==
  /\ pc = "off"
  /\ type < AXP_POWER_MAX
  /\ ToSwitchOff
  /\ SetVoltageOff(type, TRUE)
  /\ dm_off_order' = [dm_off_order EXCEPT ![dm_off_count] = type]
  /\ dm_off_count' = dm_off_count + 1
  /\ dm_off_mask' = dm_off_mask \cup {type}
  /\ type' = type + 1
  /\ UNCHANGED <<mask, failed_order, failed_count, pc, goal, group, ret>>

\* goto rollback: dm_restore_off_rails, and the error of the power-off is returned
PowerOffFailed ==
  /\ pc = "off"
  /\ type < AXP_POWER_MAX
  /\ ToSwitchOff
  /\ SetVoltageOff(type, FALSE)
  /\ Restore("rollback")
  /\ UNCHANGED <<mask, dm_off_order, dm_off_count, dm_off_mask, failed_order,
                 group, type, ret>>

MaskDone ==
  /\ pc = "off"
  /\ type = AXP_POWER_MAX
  /\ IF group < NGroup
       THEN group' = group + 1 /\ type' = 0 /\ UNCHANGED <<pc, ret>>
       ELSE pc' = "idle" /\ ret' = "OK" /\ UNCHANGED <<group, type>>
  /\ UNCHANGED <<mask, powered, dm_off_order, dm_off_count, dm_off_mask,
                 failed_order, failed_count, goal, unseen>>

Next ==
  \/ SuspendBegin
  \/ ResumeBegin
  \/ \E ok \in BOOLEAN : RestoreRail(ok)
  \/ RestoreDone
  \/ SkipRail
  \/ PowerOffRail
  \/ PowerOffFailed
  \/ MaskDone

Spec == Init /\ [][Next]_vars

-----------------------------------------------------------------------------
(* Type invariant of the transaction's variables.                          *)
TypeOK ==
  /\ mask \in [Group -> SUBSET Rail]
  /\ powered \in SUBSET Rail
  /\ dm_off_order \in [Rail -> Rail]
  /\ dm_off_count \in 0 .. AXP_POWER_MAX
  /\ dm_off_mask \in SUBSET Rail
  /\ failed_order \in [Rail -> Rail]
  /\ failed_count \in 0 .. AXP_POWER_MAX
  /\ pc \in {"idle", "restore", "off"}
  /\ goal \in {"suspend", "rollback", "resume"}
  /\ group \in Group
  /\ type \in 0 .. AXP_POWER_MAX
  /\ ret \in {"OK", "error"}
  /\ unseen \in SUBSET Rail

\* Entries of the two arrays that are in use; outside the loop of
\* dm_restore_off_rails the local failed_order is dead.
Recorded == {dm_off_order[i] : i \in 0 .. dm_off_count - 1}
Failed   == IF pc = "restore" THEN {failed_order[i] : i \in 0 .. failed_count - 1} ELSE {}

(***************************************************************************)
(* dm_off_mask and the order array are two records of the same fact: the   *)
(* bit of a rail is set exactly when the rail is in the array (or has just *)
(* failed to come back), and no rail is in the arrays twice.  This is what *)
(* keeps dm_off_order[dm_off_count++] inside its 32 entries and what makes *)
(* clearing both in dm_suspend lose nothing.                               *)
(***************************************************************************)
RecordsAgree ==
  /\ dm_off_mask = Recorded \cup Failed
  /\ Recorded \cap Failed = {}
  /\ \A i, j \in 0 .. dm_off_count - 1 :
       dm_off_order[i] = dm_off_order[j] => i = j
  /\ pc = "restore" => \A i, j \in 0 .. failed_count - 1 :
       failed_order[i] = failed_order[j] => i = j

(***************************************************************************)
(* No rail that standby switched off is forgotten: a rail that is off has  *)
(* its bit in dm_off_mask, so a later pass of dm_restore_off_rails retries *)
(* it, over any number of failed suspends and resumes.  Not covered by the *)
(* code, and excluded here by the history variable unseen: a rail that was *)
(* off before, and a rail whose power-off was reported as failed although  *)
(* the write reached the PMIC.                                             *)
(***************************************************************************)
NoRailForgotten == Rail \ powered \subseteq dm_off_mask \cup unseen

(***************************************************************************)
(* "Preserve failed rails in shutdown order so a later retry stays LIFO."  *)
(* The array is in shutdown order (mask word by mask word, within a word   *)
(* by rail number) whatever failed before, and while a restore pass runs   *)
(* the failed rails come after everything that is still to be tried.       *)
(***************************************************************************)
FirstIn(r, g) == r \in mask[g] /\ \A h \in Group : h < g => r \notin mask[h]

Before(r, s) ==
  \E g, h \in Group :
    FirstIn(r, g) /\ FirstIn(s, h) /\ (g < h \/ (g = h /\ r < s))

ShutdownOrder ==
  /\ \A i, j \in 0 .. dm_off_count - 1 :
       i < j => Before(dm_off_order[i], dm_off_order[j])
  /\ pc = "restore" =>
       /\ \A i, j \in 0 .. failed_count - 1 :
            i < j => Before(failed_order[j], failed_order[i])
       /\ \A i \in 0 .. dm_off_count - 1, j \in 0 .. failed_count - 1 :
            Before(dm_off_order[i], failed_order[j])

(***************************************************************************)
(* What the results mean.  dm_suspend returns OK only with every rail of   *)
(* every mask word off and recorded; dm_resume returns OK only with        *)
(* nothing left to restore.                                                *)
(***************************************************************************)
AllMasked == UNION {mask[g] : g \in Group}

OkMeansDone ==
  pc = "idle" /\ ret = "OK" =>
    /\ goal = "suspend" => dm_off_mask = AllMasked /\ powered \cap AllMasked = {}
    /\ goal = "resume" => dm_off_mask = {} /\ dm_off_count = 0

(***************************************************************************)
(* A step never switches a rail off while a rail of an earlier standby is  *)
(* still unrestored ("unrestored rails block standby"): the rails that are *)
(* recorded when one goes off are exactly those that the current pass has  *)
(* gone by.                                                                *)
(***************************************************************************)
GoneBy(r, g) == r \in mask[g] /\ (g < group \/ (g = group /\ r < type))
ThisPass == {r \in Rail : \E g \in Group : GoneBy(r, g)}

OnlyThisPass ==
  [][powered' # powered /\ powered' \subseteq powered => dm_off_mask = ThisPass]_vars

-----------------------------------------------------------------------------
(***************************************************************************)
(* The inductive invariant behind the properties above.  PassInv ties the  *)
(* bit mask to the cursors of dm_suspend, Stamped says that every recorded *)
(* rail has a place in the shutdown order, and Room that the two arrays    *)
(* together never need more than AXP_POWER_MAX entries.                    *)
(***************************************************************************)
PassInv ==
  pc = "off" => /\ goal = "suspend"
                /\ dm_off_mask = ThisPass
                /\ powered \cap dm_off_mask = {}

Stamped ==
  \A r \in dm_off_mask : \E g \in Group :
    FirstIn(r, g) /\ (pc = "off" => GoneBy(r, g))

Room == pc = "restore" => dm_off_count + failed_count <= AXP_POWER_MAX

IInv ==
  /\ TypeOK
  /\ RecordsAgree
  /\ NoRailForgotten
  /\ ShutdownOrder
  /\ OkMeansDone
  /\ PassInv
  /\ Stamped
  /\ Room
=============================================================================
