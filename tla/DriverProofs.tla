---------------------------- MODULE DriverProofs ----------------------------
(***************************************************************************)
(* Proofs about three drivers of the AR100S firmware, for every value of   *)
(* their constants: the rails of the standby transaction (Rails), the      *)
(* message box (Mailbox) and the hardware timers (Timers).  The three      *)
(* share no state and no name.                                             *)
(***************************************************************************)
EXTENDS Rails, Mailbox, Timers, FiniteSetTheorems, TLAPS

(***************************************************************************)
(* The rails.  IInv is inductive for every number of rails and of mask     *)
(* words, so the record of switched-off rails is complete, without         *)
(* duplicates and in shutdown order in every reachable state.              *)
(***************************************************************************)

(***************************************************************************)
(* The array has room: a rail that is not among the n distinct entries *)
(* of an array of rails leaves n below AXP_POWER_MAX (pigeonhole).     *)
(***************************************************************************)
LEMMA RoomForOneMore ==
  ASSUME NEW order \in [Rail -> Rail], NEW n \in 0 .. AXP_POWER_MAX,
         \A i, j \in 0 .. n - 1 : order[i] = order[j] => i = j,
         NEW r \in Rail, \A i \in 0 .. n - 1 : order[i] # r
  PROVE  n < AXP_POWER_MAX
<1> SUFFICES ASSUME n = AXP_POWER_MAX PROVE FALSE
  BY RailsAssumption
<1> DEFINE f == [i \in 0 .. n |-> IF i = n THEN r ELSE order[i]]
<1>1. f \in [0 .. n -> Rail]
  BY RailsAssumption DEF Rail
<1>2. IsFiniteSet(0 .. n) /\ Cardinality(0 .. n) = n + 1
  BY FS_Interval, RailsAssumption
<1>3. IsFiniteSet(Rail) /\ Cardinality(Rail) = n
  BY FS_Interval, RailsAssumption DEF Rail
<1>4. \E x, y \in 0 .. n : x # y /\ f[x] = f[y]
  <2> HIDE DEF f
  <2>1. Cardinality(Rail) < Cardinality(0 .. n)
    BY <1>2, <1>3
  <2> QED BY <1>1, <1>2, <1>3, <2>1, FS_PigeonHole
<1> QED BY <1>4, RailsAssumption DEF Rail

\* No rail is off and nothing is recorded when the firmware starts.
LEMMA InitIInv == Init => IInv
<1> SUFFICES ASSUME Init PROVE IInv
  OBVIOUS
<1> USE RailsAssumption DEF Init, Rail, Group
<1>1. TypeOK BY DEF TypeOK
<1>2. RecordsAgree BY DEF RecordsAgree, Recorded, Failed
<1>3. NoRailForgotten BY DEF NoRailForgotten
<1>4. ShutdownOrder BY DEF ShutdownOrder
<1>5. OkMeansDone BY DEF OkMeansDone
<1>6. PassInv /\ Stamped /\ Room BY DEF PassInv, Stamped, Room
<1> QED BY <1>1, <1>2, <1>3, <1>4, <1>5, <1>6 DEF IInv

(***************************************************************************)
(* Starting the power-off loop with nothing recorded: no cursor position   *)
(* has been passed, so the empty mask is the mask of the pass.             *)
(***************************************************************************)
LEMMA StartStep ==
  ASSUME IInv, StartPowerOff, goal' = "suspend", dm_off_mask = {},
         dm_off_order' \in [Rail -> Rail], failed_order' = failed_order,
         failed_count' = failed_count, mask' = mask, powered' = powered,
         unseen' = unseen, ret' = ret
  PROVE  IInv'
<1>1. TypeOK'
  <2>1. 0 \in 0 .. AXP_POWER_MAX /\ 1 \in Group
    BY RailsAssumption DEF Group
  <2> QED BY <2>1 DEF IInv, StartPowerOff, TypeOK
<1> USE RailsAssumption DEF IInv, StartPowerOff, Rail, Group
<1>2. RecordsAgree' BY DEF RecordsAgree, Recorded, Failed
<1>3. NoRailForgotten' BY DEF NoRailForgotten
<1>4. ShutdownOrder' BY DEF ShutdownOrder
<1>5. OkMeansDone' BY DEF OkMeansDone
<1>6. PassInv' BY DEF PassInv, ThisPass, GoneBy, TypeOK
<1>7. Stamped' /\ Room' BY DEF Stamped, Room
<1> QED BY <1>1, <1>2, <1>3, <1>4, <1>5, <1>6, <1>7

\* Beginning a restore pass changes neither the record nor the rails.
LEMMA RestoreStep ==
  ASSUME IInv, NEW why \in {"suspend", "rollback", "resume"}, pc # "restore",
         Restore(why),
         UNCHANGED <<mask, dm_off_order, dm_off_count, dm_off_mask, failed_order,
                     group, type, ret>>,
         powered' \in SUBSET Rail, unseen' \in SUBSET Rail, NoRailForgotten'
  PROVE  IInv'
<1>1. TypeOK'
  <2>1. 0 \in 0 .. AXP_POWER_MAX
    BY RailsAssumption
  <2> QED BY <2>1 DEF IInv, Restore, TypeOK
<1>2. RecordsAgree'
  <2>1. Failed = {} /\ Failed' = {}
    BY DEF Failed, Restore
  <2>2. Recorded' = Recorded
    BY DEF Recorded
  <2> QED BY <2>1, <2>2 DEF RecordsAgree, IInv, Restore
<1> USE RailsAssumption DEF IInv, Restore, Rail, Group
<1>4. ShutdownOrder' BY DEF ShutdownOrder, Before, FirstIn, TypeOK
<1>5. OkMeansDone' BY DEF OkMeansDone
<1>6. PassInv' BY DEF PassInv
<1>7. Stamped' BY DEF Stamped, FirstIn
<1>8. Room' BY DEF Room, TypeOK
<1> QED BY <1>1, <1>2, <1>4, <1>5, <1>6, <1>7, <1>8

(***************************************************************************)
(* One iteration of the restore loop: the rail on top of the array either  *)
(* leaves the record or moves behind the failed ones, which all were       *)
(* switched off after it.                                                  *)
(***************************************************************************)
LEMMA RestoreRailStep ==
  ASSUME IInv, NEW ok \in BOOLEAN, RestoreRail(ok)
  PROVE  IInv'
<1> DEFINE r == dm_off_order[dm_off_count - 1]
<1>1. /\ pc = "restore" /\ pc' = "restore"
      /\ dm_off_count \in 1 .. AXP_POWER_MAX
      /\ dm_off_count' = dm_off_count - 1
      /\ dm_off_count - 1 \in Rail
      /\ r \in Rail
      /\ dm_off_count + failed_count <= AXP_POWER_MAX
      /\ failed_count \in Rail
  BY RailsAssumption DEF RestoreRail, IInv, TypeOK, Room, Rail
<1>a. ok => /\ dm_off_mask' = dm_off_mask \ {r}
            /\ failed_order' = failed_order /\ failed_count' = failed_count
  BY DEF RestoreRail
<1>b. ~ok => /\ failed_order' = [failed_order EXCEPT ![failed_count] = r]
             /\ failed_count' = failed_count + 1
             /\ dm_off_mask' = dm_off_mask
  BY DEF RestoreRail
<1>c. /\ failed_order \in [Rail -> Rail]
      /\ failed_count \in 0 .. AXP_POWER_MAX
      /\ \A i \in 0 .. failed_count - 1 : i \in Rail /\ i # failed_count
  <2>1. failed_order \in [Rail -> Rail] /\ failed_count \in 0 .. AXP_POWER_MAX
    BY DEF IInv, TypeOK
  <2>2. \A i \in 0 .. failed_count - 1 : i \in Rail /\ i # failed_count
    BY <2>1, RailsAssumption DEF Rail
  <2> QED BY <2>1, <2>2
<1> HIDE DEF r
<1>d. ~ok => /\ \A i \in 0 .. failed_count - 1 : failed_order'[i] = failed_order[i]
             /\ failed_order'[failed_count] = r
  BY <1>1, <1>b, <1>c
<1>2. TypeOK'
  <2>1. powered' \in SUBSET Rail /\ unseen' \in SUBSET Rail
    BY <1>1 DEF r, RestoreRail, SetVoltageOn, IInv, TypeOK
  <2>2. dm_off_count' \in 0 .. AXP_POWER_MAX
    BY <1>1, RailsAssumption
  <2>3. failed_count' \in 0 .. AXP_POWER_MAX
    BY <1>1, <1>a, <1>b, <1>c, RailsAssumption
  <2>4. failed_order' \in [Rail -> Rail] /\ dm_off_mask' \in SUBSET Rail
    <3>1. dm_off_mask \in SUBSET Rail
      BY DEF IInv, TypeOK
    <3>2. CASE ok BY <1>a, <1>c, <3>1, <3>2
    <3>3. CASE ~ok
      <4>1. failed_order' = [failed_order EXCEPT ![failed_count] = r]
        BY <1>b, <3>3
      <4>2. r \in Rail /\ failed_order \in [Rail -> Rail]
        BY <1>1, <1>c
      <4>3. failed_order' \in [Rail -> Rail]
        BY <4>1, <4>2
      <4> QED BY <1>b, <3>1, <3>3, <4>3
    <3> QED BY <3>2, <3>3
  <2> QED BY <2>1, <2>2, <2>3, <2>4 DEF RestoreRail, IInv, TypeOK
<1>3. RecordsAgree'
  <2>1. Recorded' = Recorded \ {r} /\ r \in Recorded
    BY <1>1 DEF r, RestoreRail, IInv, RecordsAgree, Recorded, TypeOK
  <2>2. CASE ok
    BY <1>1, <1>a, <2>1, <2>2 DEF RestoreRail, IInv, RecordsAgree, Failed, TypeOK
  <2>3. CASE ~ok
    <3>1. Failed' = Failed \cup {r} /\ dm_off_mask' = dm_off_mask
      <4>1. 0 .. failed_count' - 1 = (0 .. failed_count - 1) \cup {failed_count}
        BY <1>b, <1>c, <2>3
      <4> QED BY <1>1, <1>b, <1>d, <2>3, <4>1 DEF Failed
    <3>2. \A i, j \in 0 .. failed_count' - 1 :
            failed_order'[i] = failed_order'[j] => i = j
      <4>1. \A i \in 0 .. failed_count - 1 : failed_order[i] # r
        BY <1>1, <2>1 DEF IInv, RecordsAgree, Failed
      <4> QED BY <1>1, <1>b, <1>c, <1>d, <2>3, <4>1 DEF IInv, RecordsAgree
    <3> QED
      BY <1>1, <2>1, <3>1, <3>2 DEF RestoreRail, IInv, RecordsAgree, TypeOK
  <2> QED BY <2>2, <2>3
<1>4. NoRailForgotten'
  BY <1>1, <1>a, <1>b DEF r, RestoreRail, SetVoltageOn, IInv, NoRailForgotten, TypeOK
<1>5. ShutdownOrder'
  <2>1. \A x, y : Before(x, y)' <=> Before(x, y)
    BY DEF RestoreRail, Before, FirstIn
  <2>2. \A i, j \in 0 .. dm_off_count' - 1 :
          i < j => Before(dm_off_order'[i], dm_off_order'[j])
    BY <1>1 DEF RestoreRail, IInv, ShutdownOrder
  <2>3. \A i \in 0 .. dm_off_count' - 1 : Before(dm_off_order'[i], r)
    BY <1>1 DEF r, RestoreRail, IInv, ShutdownOrder
  <2>4. CASE ok
    BY <1>1, <1>a, <2>1, <2>2, <2>4 DEF RestoreRail, IInv, ShutdownOrder
  <2>5. CASE ~ok
    <3>1. \A i \in 0 .. failed_count - 1 : failed_order'[i] = failed_order[i]
      BY <1>d, <2>5
    <3>2. failed_order'[failed_count] = r /\ failed_count' = failed_count + 1
      BY <1>b, <1>d, <2>5
    <3>3. \A i, j \in 0 .. failed_count' - 1 :
            i < j => Before(failed_order'[j], failed_order'[i])
      <4> SUFFICES ASSUME NEW i \in 0 .. failed_count' - 1,
                          NEW j \in 0 .. failed_count' - 1, i < j
                   PROVE  Before(failed_order'[j], failed_order'[i])
        OBVIOUS
      <4>1. i \in 0 .. failed_count - 1
        BY <1>c, <3>2
      <4>2. CASE j = failed_count
        <5>1. dm_off_count - 1 \in 0 .. dm_off_count - 1
          BY <1>1
        <5>2. Before(r, failed_order[i])
          BY <1>1, <4>1, <5>1 DEF r, IInv, ShutdownOrder
        <5> QED BY <3>1, <3>2, <4>1, <4>2, <5>2
      <4>3. CASE j # failed_count
        <5>1. j \in 0 .. failed_count - 1
          BY <1>c, <3>2, <4>3
        <5> QED BY <1>1, <3>1, <4>1, <5>1 DEF IInv, ShutdownOrder
      <4> QED BY <4>2, <4>3
    <3>4. \A i \in 0 .. dm_off_count' - 1, j \in 0 .. failed_count' - 1 :
            Before(dm_off_order'[i], failed_order'[j])
      BY <1>1, <2>3, <3>1, <3>2 DEF RestoreRail, IInv, ShutdownOrder, TypeOK
    <3> QED BY <2>1, <2>2, <3>3, <3>4 DEF ShutdownOrder
  <2> QED BY <2>4, <2>5
<1>6. OkMeansDone' /\ PassInv'
  BY <1>1 DEF OkMeansDone, PassInv
<1>7. Stamped'
  BY <1>1, <1>a, <1>b DEF RestoreRail, IInv, Stamped, FirstIn
<1>8. Room'
  BY <1>1, <1>a, <1>b, <1>c, RailsAssumption DEF Room
<1> QED BY <1>2, <1>3, <1>4, <1>5, <1>6, <1>7, <1>8 DEF IInv

(***************************************************************************)
(* The end of the restore loop: putting the failed rails back reverses     *)
(* them, which turns last-off-first into shutdown order again.             *)
(***************************************************************************)
LEMMA RestoreDoneStep ==
  ASSUME IInv, RestoreDone
  PROVE  IInv'
<1>1. /\ pc = "restore" /\ dm_off_count = 0 /\ Recorded = {}
      /\ failed_count \in 0 .. AXP_POWER_MAX
      /\ dm_off_order' = PutBack
      /\ dm_off_mask = Failed
  BY DEF RestoreDone, IInv, RecordsAgree, Recorded, TypeOK
<1>2. PutBack \in [Rail -> Rail]
  <2>1. ASSUME NEW i \in Rail, i < failed_count
        PROVE  failed_count - i - 1 \in Rail
    BY <1>1, <2>1, RailsAssumption DEF Rail
  <2>2. failed_order \in [Rail -> Rail] /\ dm_off_order \in [Rail -> Rail]
    BY DEF IInv, TypeOK
  <2> QED BY <2>1, <2>2 DEF PutBack
<1>3. CASE goal = "suspend" /\ failed_count = 0
  <2>1. dm_off_mask = {}
    BY <1>1, <1>3 DEF Failed
  <2>2. StartPowerOff
    BY <1>3 DEF RestoreDone
  <2> QED BY <1>1, <1>2, <1>3, <2>1, <2>2, StartStep DEF RestoreDone
<1>4. CASE ~(goal = "suspend" /\ failed_count = 0)
  <2>1. /\ pc' = "idle" /\ dm_off_count' = failed_count /\ dm_off_mask' = dm_off_mask
        /\ UNCHANGED <<mask, powered, failed_order, failed_count, goal, group, type, unseen>>
        /\ ret' = IF failed_count = 0 /\ goal = "resume" THEN "OK" ELSE "error"
    BY <1>4 DEF RestoreDone
  <2>2. \A i \in 0 .. failed_count - 1 :
          /\ failed_count - i - 1 \in 0 .. failed_count - 1
          /\ dm_off_order'[i] = failed_order[failed_count - i - 1]
    BY <1>1, RailsAssumption DEF PutBack, Rail
  <2>3. TypeOK'
    BY <1>1, <1>2, <2>1 DEF IInv, TypeOK
  <2>4. Recorded' = Failed /\ Failed' = {}
    <3>1. Recorded' \subseteq Failed
      BY <1>1, <2>1, <2>2 DEF Recorded, Failed
    <3>2. ASSUME NEW i \in 0 .. failed_count - 1 PROVE failed_order[i] \in Recorded'
      <4>1. failed_count - i - 1 \in 0 .. failed_count - 1
        BY <1>1
      <4>2. dm_off_order'[failed_count - i - 1] = failed_order[i]
        <5>1. failed_count - (failed_count - i - 1) - 1 = i
          BY <1>1
        <5> QED BY <2>2, <4>1, <5>1
      <4> QED BY <2>1, <4>1, <4>2 DEF Recorded
    <3>3. Failed \subseteq Recorded'
      BY <1>1, <3>2 DEF Failed
    <3> QED BY <2>1, <3>1, <3>3 DEF Failed
  <2>5. RecordsAgree'
    <3>1. \A i, j \in 0 .. dm_off_count' - 1 :
            dm_off_order'[i] = dm_off_order'[j] => i = j
      BY <1>1, <2>1, <2>2 DEF IInv, RecordsAgree
    <3> QED BY <1>1, <2>1, <2>4, <3>1 DEF RecordsAgree
  <2>6. NoRailForgotten'
    BY <2>1 DEF IInv, NoRailForgotten
  <2>7. ShutdownOrder'
    <3>1. \A x, y : Before(x, y)' <=> Before(x, y)
      BY <2>1 DEF Before, FirstIn
    <3>2. \A i, j \in 0 .. dm_off_count' - 1 :
            i < j => Before(dm_off_order'[i], dm_off_order'[j])
      <4> SUFFICES ASSUME NEW i \in 0 .. failed_count - 1, NEW j \in 0 .. failed_count - 1, i < j
                   PROVE  Before(dm_off_order'[i], dm_off_order'[j])
        BY <2>1
      <4> DEFINE k == failed_count - i - 1
                 h == failed_count - j - 1
      <4>1. h \in 0 .. failed_count - 1 /\ k \in 0 .. failed_count - 1 /\ h < k
        BY <1>1
      <4>2. dm_off_order'[i] = failed_order[k] /\ dm_off_order'[j] = failed_order[h]
        BY <2>2
      <4> HIDE DEF k, h
      <4>3. Before(failed_order[k], failed_order[h])
        BY <1>1, <4>1 DEF IInv, ShutdownOrder
      <4> QED BY <4>2, <4>3
    <3> QED BY <2>1, <3>1, <3>2 DEF ShutdownOrder
  <2>8. OkMeansDone'
    BY <1>1, <2>1, <1>4 DEF OkMeansDone, Failed
  <2>9. PassInv' /\ Stamped' /\ Room'
    BY <2>1 DEF IInv, PassInv, Stamped, Room, FirstIn
  <2> QED BY <2>3, <2>5, <2>6, <2>7, <2>8, <2>9 DEF IInv
<1> QED BY <1>3, <1>4

\* A rail outside the current mask word, or already off, is passed by.
LEMMA SkipRailStep ==
  ASSUME IInv, SkipRail
  PROVE  IInv'
<1>1. /\ pc = "off" /\ pc' = "off" /\ type' = type + 1 /\ type \in Rail
      /\ group \in Group /\ mask \in [Group -> SUBSET Rail]
      /\ UNCHANGED <<mask, powered, dm_off_order, dm_off_count, dm_off_mask,
                     failed_order, failed_count, goal, group, ret, unseen>>
  BY RailsAssumption DEF SkipRail, IInv, TypeOK, Rail
<1>2. TypeOK'
  <2>1. type' \in 0 .. AXP_POWER_MAX
    BY <1>1, RailsAssumption DEF Rail
  <2> QED BY <1>1, <2>1 DEF IInv, TypeOK
<1>3. RecordsAgree'
  BY <1>1 DEF IInv, RecordsAgree, Recorded, Failed
<1>4. NoRailForgotten' /\ OkMeansDone' /\ Room'
  BY <1>1 DEF IInv, NoRailForgotten, OkMeansDone, Room
<1>5. ShutdownOrder'
  BY <1>1 DEF IInv, ShutdownOrder, Before, FirstIn
<1>6. \A r \in Rail, g \in Group :
        GoneBy(r, g)' <=> GoneBy(r, g) \/ (g = group /\ r = type /\ r \in mask[g])
  BY <1>1 DEF GoneBy, Rail, Group
<1>7. PassInv'
  <2>1. type \in mask[group] => type \in dm_off_mask
    BY DEF SkipRail, ToSwitchOff
  <2>2. ThisPass' = ThisPass
    <3>1. \A r \in Rail : (\E g \in Group : GoneBy(r, g)') <=> r \in ThisPass
      BY <1>1, <1>6, <2>1 DEF IInv, PassInv, ThisPass
    <3> QED BY <3>1 DEF ThisPass
  <2> QED BY <1>1, <2>2 DEF IInv, PassInv
<1>8. Stamped'
  BY <1>1, <1>6 DEF IInv, TypeOK, Stamped, FirstIn
<1> QED BY <1>2, <1>3, <1>4, <1>5, <1>7, <1>8 DEF IInv

(***************************************************************************)
(* A rail is switched off and pushed: it is in no earlier mask word (all   *)
(* of those are recorded already), so it comes after everything recorded.  *)
(***************************************************************************)
LEMMA PowerOffRailStep ==
  ASSUME IInv, PowerOffRail
  PROVE  IInv'
<1>1. /\ pc = "off" /\ pc' = "off" /\ type' = type + 1 /\ type \in Rail
      /\ group \in Group /\ mask \in [Group -> SUBSET Rail]
      /\ type \in mask[group] /\ type \notin dm_off_mask
      /\ powered' = powered \ {type}
      /\ dm_off_order' = [dm_off_order EXCEPT ![dm_off_count] = type]
      /\ dm_off_count' = dm_off_count + 1
      /\ dm_off_mask' = dm_off_mask \cup {type}
      /\ UNCHANGED <<mask, failed_order, failed_count, goal, group, ret, unseen>>
  BY RailsAssumption DEF PowerOffRail, ToSwitchOff, SetVoltageOff, IInv, TypeOK, Rail
<1>2. /\ dm_off_order \in [Rail -> Rail] /\ dm_off_count \in 0 .. AXP_POWER_MAX
      /\ powered \in SUBSET Rail /\ dm_off_mask \in SUBSET Rail
  BY DEF IInv, TypeOK
<1>3. dm_off_mask = Recorded
  BY <1>1 DEF IInv, RecordsAgree, Failed
<1>4. dm_off_count < AXP_POWER_MAX
  <2>1. \A i \in 0 .. dm_off_count - 1 : dm_off_order[i] # type
    BY <1>1, <1>3 DEF Recorded
  <2>2. \A i, j \in 0 .. dm_off_count - 1 : dm_off_order[i] = dm_off_order[j] => i = j
    BY DEF IInv, RecordsAgree
  <2> QED BY <1>1, <1>2, <2>1, <2>2, RoomForOneMore
<1>5. /\ dm_off_count \in Rail
      /\ \A i \in 0 .. dm_off_count - 1 : i \in Rail /\ i # dm_off_count
      /\ 0 .. dm_off_count' - 1 = (0 .. dm_off_count - 1) \cup {dm_off_count}
  <2>1. AXP_POWER_MAX \in Nat /\ dm_off_count \in Nat /\ dm_off_count < AXP_POWER_MAX
    BY <1>2, <1>4, RailsAssumption
  <2>2. dm_off_count \in Rail
    BY <2>1 DEF Rail
  <2>3. \A i \in 0 .. dm_off_count - 1 : i \in Rail /\ i # dm_off_count
    BY <2>1 DEF Rail
  <2>4. 0 .. dm_off_count' - 1 = (0 .. dm_off_count - 1) \cup {dm_off_count}
    <3>1. dm_off_count' = dm_off_count + 1
      BY <1>1
    <3> QED BY <2>1, <3>1
  <2> QED BY <2>2, <2>3, <2>4
<1>6. /\ \A i \in 0 .. dm_off_count - 1 : dm_off_order'[i] = dm_off_order[i]
      /\ dm_off_order'[dm_off_count] = type
  BY <1>1, <1>2, <1>5
<1>7. TypeOK'
  <2>1. type' \in 0 .. AXP_POWER_MAX /\ dm_off_count' \in 0 .. AXP_POWER_MAX
    BY <1>1, <1>2, <1>4, RailsAssumption DEF Rail
  <2>2. dm_off_order' \in [Rail -> Rail]
    BY <1>1, <1>2, <1>5
  <2> QED BY <1>1, <1>2, <2>1, <2>2 DEF IInv, TypeOK
<1>8. RecordsAgree'
  <2>1. Recorded' = Recorded \cup {type}
    BY <1>5, <1>6 DEF Recorded
  <2>2. Failed' = {}
    BY <1>1 DEF Failed
  <2>3. \A i, j \in 0 .. dm_off_count' - 1 :
          dm_off_order'[i] = dm_off_order'[j] => i = j
    BY <1>1, <1>3, <1>5, <1>6 DEF IInv, RecordsAgree, Recorded
  <2> QED BY <1>1, <1>3, <2>1, <2>2, <2>3 DEF RecordsAgree
<1>9. NoRailForgotten'
  BY <1>1 DEF IInv, NoRailForgotten
<1>10. FirstIn(type, group)
  BY <1>1 DEF FirstIn, IInv, PassInv, ThisPass, GoneBy
<1>11. \A r \in dm_off_mask : Before(r, type)
  <2>1. \A r \in dm_off_mask : \E g \in Group : FirstIn(r, g) /\ GoneBy(r, g)
    BY <1>1 DEF IInv, Stamped
  <2> QED BY <1>1, <1>10, <2>1 DEF Before, GoneBy
<1>12. ShutdownOrder'
  <2>1. \A x, y : Before(x, y)' <=> Before(x, y)
    BY <1>1 DEF Before, FirstIn
  <2>2. ASSUME NEW i \in 0 .. dm_off_count' - 1, NEW j \in 0 .. dm_off_count' - 1, i < j
        PROVE  Before(dm_off_order'[i], dm_off_order'[j])
    <3>1. i \in 0 .. dm_off_count - 1
      BY <1>1, <1>2, <2>2
    <3>2. CASE j = dm_off_count
      BY <1>3, <1>6, <1>11, <3>1, <3>2 DEF Recorded
    <3>3. CASE j # dm_off_count
      <4>1. j \in 0 .. dm_off_count - 1
        BY <1>5, <3>3
      <4> QED BY <1>6, <2>2, <3>1, <4>1 DEF IInv, ShutdownOrder
    <3> QED BY <3>2, <3>3
  <2> QED BY <1>1, <2>1, <2>2 DEF ShutdownOrder
<1>13. \A r \in Rail, g \in Group :
         GoneBy(r, g)' <=> GoneBy(r, g) \/ (g = group /\ r = type)
  BY <1>1 DEF GoneBy, Rail, Group
<1>14. PassInv'
  <2>1. ThisPass' = ThisPass \cup {type}
    <3>1. \A r \in Rail : (\E g \in Group : GoneBy(r, g)') <=> r \in ThisPass \cup {type}
      BY <1>1, <1>13 DEF ThisPass
    <3> QED BY <1>1, <3>1 DEF ThisPass
  <2> QED BY <1>1, <1>2, <2>1 DEF IInv, PassInv
<1>15. Stamped'
  <2>1. \A r, g : FirstIn(r, g)' <=> FirstIn(r, g)
    BY <1>1 DEF FirstIn
  <2>2. ASSUME NEW r \in dm_off_mask'
        PROVE  \E g \in Group : FirstIn(r, g)' /\ GoneBy(r, g)'
    <3>1. CASE r = type
      BY <1>1, <1>10, <1>13, <2>1, <3>1
    <3>2. CASE r # type
      BY <1>1, <1>2, <1>13, <2>1, <2>2, <3>2 DEF IInv, Stamped
    <3> QED BY <3>1, <3>2
  <2> QED BY <2>2 DEF Stamped
<1>16. OkMeansDone' /\ Room'
  BY <1>1 DEF OkMeansDone, Room
<1> QED BY <1>7, <1>8, <1>9, <1>12, <1>14, <1>15, <1>16 DEF IInv

(***************************************************************************)
(* Past the last rail of a mask word the next word starts at rail 0; past  *)
(* the last word everything masked is recorded and dm_suspend returns OK.  *)
(***************************************************************************)
LEMMA MaskDoneStep ==
  ASSUME IInv, MaskDone
  PROVE  IInv'
<1>1. /\ pc = "off" /\ type = AXP_POWER_MAX
      /\ group \in Group /\ mask \in [Group -> SUBSET Rail]
      /\ goal = "suspend" /\ dm_off_mask = ThisPass /\ powered \cap dm_off_mask = {}
      /\ UNCHANGED <<mask, powered, dm_off_order, dm_off_count, dm_off_mask,
                     failed_order, failed_count, goal, unseen>>
  BY DEF MaskDone, IInv, PassInv, TypeOK
<1>2. \/ group < NGroup /\ group' = group + 1 /\ type' = 0 /\ pc' = pc /\ ret' = ret
      \/ group = NGroup /\ group' = group /\ type' = type /\ pc' = "idle" /\ ret' = "OK"
  BY <1>1, RailsAssumption DEF MaskDone, Group
<1>3. TypeOK'
  <2>1. group' \in Group /\ type' \in 0 .. AXP_POWER_MAX
    BY <1>1, <1>2, RailsAssumption DEF Group
  <2>2. pc' \in {"idle", "restore", "off"} /\ ret' \in {"OK", "error"}
    BY <1>1, <1>2 DEF IInv, TypeOK
  <2> QED BY <1>1, <2>1, <2>2 DEF IInv, TypeOK
<1>4. RecordsAgree'
  BY <1>1, <1>2 DEF IInv, RecordsAgree, Recorded, Failed
<1>5. NoRailForgotten' /\ Room'
  BY <1>1, <1>2 DEF IInv, NoRailForgotten, Room
<1>6. ShutdownOrder'
  BY <1>1, <1>2 DEF IInv, ShutdownOrder, Before, FirstIn
<1>7. CASE group < NGroup
  <2>1. \A r \in Rail, g \in Group : GoneBy(r, g)' <=> GoneBy(r, g)
    BY <1>1, <1>2, <1>7, RailsAssumption DEF GoneBy, Rail, Group
  <2>2. PassInv'
    BY <1>1, <1>2, <1>7, <2>1 DEF PassInv, ThisPass
  <2>3. Stamped'
    BY <1>1, <1>2, <1>7, <2>1 DEF IInv, TypeOK, Stamped, FirstIn
  <2>4. OkMeansDone'
    <3>1. pc' = "off"
      BY <1>1, <1>2, <1>7, RailsAssumption DEF Group
    <3> QED BY <3>1 DEF OkMeansDone
  <2> QED BY <1>3, <1>4, <1>5, <1>6, <2>2, <2>3, <2>4 DEF IInv
<1>8. CASE group = NGroup
  <2>1. pc' = "idle"
    BY <1>1, <1>2, <1>8, RailsAssumption DEF Group
  <2>2. ThisPass = AllMasked
    BY <1>1, <1>8, RailsAssumption DEF ThisPass, AllMasked, GoneBy, Rail, Group
  <2>3. AllMasked' = AllMasked
    BY <1>1 DEF AllMasked
  <2>4. OkMeansDone'
    BY <1>1, <2>1, <2>2, <2>3 DEF OkMeansDone
  <2>5. PassInv' /\ Stamped'
    BY <1>1, <2>1 DEF IInv, PassInv, Stamped, FirstIn
  <2> QED BY <1>3, <1>4, <1>5, <1>6, <2>4, <2>5 DEF IInv
<1> QED BY <1>1, <1>7, <1>8, RailsAssumption DEF Group

(***************************************************************************)
(* IInv holds in every reachable state: the initial state has an empty     *)
(* record, and each action of the transaction preserves it.                *)
(***************************************************************************)
THEOREM RailsInductive == Spec => []IInv
<1>1. IInv /\ [Next]_vars => IInv'
  <2> SUFFICES ASSUME IInv, [Next]_vars PROVE IInv'
    OBVIOUS
  <2>1. CASE SuspendBegin
    <3>1. CASE dm_off_count > 0
      <4>1. NoRailForgotten'
        BY <2>1, <3>1 DEF SuspendBegin, Restore, IInv, NoRailForgotten
      <4> QED BY <2>1, <3>1, <4>1, RestoreStep DEF SuspendBegin, IInv, TypeOK
    <3>2. CASE ~(dm_off_count > 0)
      <4>1. dm_off_mask = {}
        BY <2>1, <3>2, RailsAssumption
        DEF SuspendBegin, IInv, TypeOK, RecordsAgree, Recorded, Failed
      <4> QED BY <2>1, <3>2, <4>1, StartStep DEF SuspendBegin, IInv, TypeOK
    <3> QED BY <3>1, <3>2
  <2>2. CASE ResumeBegin
    <3>1. NoRailForgotten'
      BY <2>2 DEF ResumeBegin, IInv, NoRailForgotten
    <3> QED BY <2>2, <3>1, RestoreStep DEF ResumeBegin, IInv, TypeOK
  <2>3. CASE \E ok \in BOOLEAN : RestoreRail(ok)
    BY <2>3, RestoreRailStep
  <2>4. CASE RestoreDone
    BY <2>4, RestoreDoneStep
  <2>5. CASE SkipRail
    BY <2>5, SkipRailStep
  <2>6. CASE PowerOffRail
    BY <2>6, PowerOffRailStep
  <2>7. CASE PowerOffFailed
    <3>1. NoRailForgotten' /\ powered' \in SUBSET Rail /\ unseen' \in SUBSET Rail
      <4>1. type \in Rail
        BY <2>7, RailsAssumption DEF PowerOffFailed, IInv, TypeOK, Rail
      <4>2. \/ powered' = powered /\ unseen' = unseen
            \/ powered' = powered \ {type} /\ unseen' = unseen \cup {type}
        BY <2>7 DEF PowerOffFailed, SetVoltageOff
      <4> QED BY <2>7, <4>1, <4>2 DEF PowerOffFailed, IInv, NoRailForgotten, TypeOK
    <3> QED BY <2>7, <3>1, RestoreStep DEF PowerOffFailed
  <2>8. CASE MaskDone
    BY <2>8, MaskDoneStep
  <2>9. CASE UNCHANGED vars
    <3> USE <2>9 DEF vars, IInv
    <3>1. TypeOK' BY DEF TypeOK
    <3>2. RecordsAgree'
      <4>1. Recorded' = Recorded /\ Failed' = Failed BY DEF Recorded, Failed
      <4> QED BY <4>1 DEF RecordsAgree
    <3>3. NoRailForgotten' /\ Room' BY DEF NoRailForgotten, Room
    <3>4. ShutdownOrder' BY DEF ShutdownOrder, Before, FirstIn
    <3>5. OkMeansDone' BY DEF OkMeansDone, AllMasked
    <3>6. PassInv' /\ Stamped' BY DEF PassInv, ThisPass, GoneBy, Stamped, FirstIn
    <3> QED BY <3>1, <3>2, <3>3, <3>4, <3>5, <3>6
  <2> QED BY <2>1, <2>2, <2>3, <2>4, <2>5, <2>6, <2>7, <2>8, <2>9 DEF Next
<1> QED BY InitIInv, <1>1, PTL DEF Spec

\* Type correctness of the rail transaction.
THEOREM RailsTypeOK == Spec => []TypeOK
<1>1. IInv => TypeOK BY DEF IInv
<1> QED BY <1>1, RailsInductive, PTL

\* The bit mask and the array of dm_restore_off_rails/dm_power_off_mask agree.
THEOREM RailsRecordsAgree == Spec => []RecordsAgree
<1>1. IInv => RecordsAgree BY DEF IInv
<1> QED BY <1>1, RailsInductive, PTL

\* No rail that standby switched off is forgotten by a failed suspend or resume.
THEOREM RailsNoRailForgotten == Spec => []NoRailForgotten
<1>1. IInv => NoRailForgotten BY DEF IInv
<1> QED BY <1>1, RailsInductive, PTL

\* The record stays in shutdown order, so every retry is last-off-first-on.
THEOREM RailsShutdownOrder == Spec => []ShutdownOrder
<1>1. IInv => ShutdownOrder BY DEF IInv
<1> QED BY <1>1, RailsInductive, PTL

\* OK from dm_suspend means all masked rails off; OK from dm_resume, none left.
THEOREM RailsOkMeansDone == Spec => []OkMeansDone
<1>1. IInv => OkMeansDone BY DEF IInv
<1> QED BY <1>1, RailsInductive, PTL

\* Rails of an earlier standby that are still off block the next one.
THEOREM RailsOnlyThisPass == Spec => OnlyThisPass
<1>1. IInv /\ [Next]_vars =>
        [powered' # powered /\ powered' \subseteq powered => dm_off_mask = ThisPass]_vars
  <2> SUFFICES ASSUME IInv, Next, powered' # powered, powered' \subseteq powered
               PROVE  dm_off_mask = ThisPass
    OBVIOUS
  <2>1. pc = "off"
    BY DEF Next, SuspendBegin, ResumeBegin, RestoreRail, RestoreDone, SkipRail,
           PowerOffRail, PowerOffFailed, MaskDone, SetVoltageOn
  <2> QED BY <2>1 DEF IInv, PassInv
<1> QED BY <1>1, RailsInductive, PTL DEF Spec, OnlyThisPass

-----------------------------------------------------------------------------
(***************************************************************************)
(* The message box.  The words the E902 has still to parse are a row of    *)
(* whole frames, whichever FIFO or side holds them; from it follows that a *)
(* frame parsed is a frame sent.                                           *)
(***************************************************************************)

Words == [f : Nat, of : Types, k : Nat \ {0}, t : Types, c : Nat]

\* The words the E902 has still to parse, those of the frame in hand included,
\* and those the ARM side has still to write.
Row(g, r, a) ==
  [i \in 1 .. Len(g) + Len(r) + Len(a) |->
     IF i <= Len(g) THEN g[i]
     ELSE IF i <= Len(g) + Len(r) THEN r[i - Len(g)] ELSE a[i - Len(g) - Len(r)]]

Total  == Len(got) + Len(rx) + Len(armq)
Stream == Row(got, rx, armq)

\* A row of whole frames, which begins anywhere.
Rows(s, n) ==
  \A i \in 1 .. n :
    /\ s[i] \in Words
    /\ s[i].k = 1 => i < n /\ s[i + 1].k = 2 /\ s[i + 1].f = s[i].f
    /\ s[i].k = 2 =>
         /\ i + s[i].c <= n
         /\ \A j \in 1 .. s[i].c : s[i + j].k = 2 + j /\ s[i + j].f = s[i].f
         /\ i + s[i].c < n => s[i + s[i].c + 1].k = 1

Frames(s, n) == Rows(s, n) /\ (n > 0 => s[1].k = 1)

BoxTypeOK ==
  /\ rx \in Seq(Words) /\ tx \in Seq(Words) /\ got \in Seq(Words) /\ armq \in Seq(Words)
  /\ out \in Seq(Words) /\ armgot \in Seq(Words)
  /\ at \in {"start", "send", "reply", "loop", "query", "drain", "dispatch", "feedback"}
  /\ sent \in Nat

\* The beginning of a frame, and not all of it.
Part(g) == Len(g) < HeaderWords \/ Len(g) < HeaderWords + g[2].c

PlaceInv ==
  /\ at \notin {"reply", "query", "dispatch"} => got = <<>>
  /\ at \in {"send", "feedback"} => out # <<>>
  /\ at \in {"reply", "query"} => Part(got)
  /\ at = "dispatch" => Complete(got) /\ got[1].t # "notify"
  /\ at = "query" => Len(got) + Len(rx) >= HeaderWords
  /\ at = "send" => Len(tx) + Len(out) <= Depth

StreamInv == ~ stalls => at # "drain" /\ Frames(Stream, Total)

BoxIInv == BoxTypeOK /\ PlaceInv /\ StreamInv

-----------------------------------------------------------------------------
\* A frame is a row of whole frames by itself.
LEMMA FrameIs ==
  ASSUME NEW f \in Nat, NEW t \in Types, NEW m \in Nat
  PROVE  /\ Frame(f, t, m) \in Seq(Words) /\ Len(Frame(f, t, m)) = HeaderWords + m
         /\ Frames(Frame(f, t, m), HeaderWords + m)
<1> DEFINE F == Frame(f, t, m)
<1>1. Stray \in Nat
  BY MailboxAssumption
<1>2. HeaderWords + m = 2 + m /\ 2 + m \in Nat /\ "none" \in Types
  BY DEF HeaderWords, Types
<1>3. \A i \in 1 .. 2 + m : F[i] = CASE i = 1 -> [f |-> f, of |-> t, k |-> 1, t |-> t, c |-> 0]
                                     [] i = 2 -> [f |-> f, of |-> t, k |-> 2, t |-> "none", c |-> m]
                                     [] OTHER -> [f |-> f, of |-> t, k |-> i, t |-> "none", c |-> Stray]
  BY <1>2 DEF Frame
<1>4. \A i \in 1 .. 2 + m : F[i] \in Words /\ F[i].k = i /\ F[i].f = f /\ (i = 2 => F[i].c = m)
  <2> SUFFICES ASSUME NEW i \in 1 .. 2 + m
               PROVE  F[i] \in Words /\ F[i].k = i /\ F[i].f = f /\ (i = 2 => F[i].c = m)
    OBVIOUS
  <2> HIDE DEF F
  <2>0. i \in Nat \ {0}
    OBVIOUS
  <2>1. CASE i = 1
    <3>1. F[i] = [f |-> f, of |-> t, k |-> 1, t |-> t, c |-> 0]
      BY <2>1, <1>3, i # 2
    <3> QED  BY <2>1, <3>1 DEF Words
  <2>2. CASE i = 2
    <3>1. F[i] = [f |-> f, of |-> t, k |-> 2, t |-> "none", c |-> m]
      BY <2>2, <1>3, i # 1
    <3> QED  BY <2>2, <3>1, <1>2 DEF Words
  <2>3. CASE i \notin {1, 2}
    <3>1. F[i] = [f |-> f, of |-> t, k |-> i, t |-> "none", c |-> Stray]
      BY <2>3, <1>3
    <3> QED  BY <2>0, <2>3, <3>1, <1>1, <1>2 DEF Words
  <2> QED  BY <2>1, <2>2, <2>3
<1>5. F \in Seq(Words) /\ Len(F) = 2 + m
  <2>1. F = [i \in 1 .. 2 + m |-> F[i]]
    BY <1>2 DEF Frame
  <2> HIDE DEF F
  <2>2. F \in [1 .. 2 + m -> Words]
    BY <2>1, <1>4
  <2> QED  BY <2>2, <1>2
<1>6. Frames(F, 2 + m)
  <2> HIDE DEF F
  <2> QED  BY <1>4, <1>2 DEF Frames, Rows
<1> QED  BY <1>2, <1>5, <1>6

\* A frame behind a row of whole frames makes a longer one.
LEMMA RowsJoin ==
  ASSUME NEW a, NEW n \in Nat, Frames(a, n), NEW b, NEW m \in Nat, m > 0, Frames(b, m),
         NEW s, \A i \in 1 .. n : s[i] = a[i], \A i \in 1 .. m : s[n + i] = b[i]
  PROVE  Frames(s, n + m)
<1>1. \A i \in 1 .. n : /\ s[i] \in Words
                        /\ s[i].k = 1 => i < n + m /\ s[i + 1].k = 2 /\ s[i + 1].f = s[i].f
  BY DEF Frames, Rows
<1>2. ASSUME NEW i \in 1 .. n, s[i].k = 2
      PROVE  /\ i + s[i].c <= n + m
             /\ \A j \in 1 .. s[i].c : s[i + j].k = 2 + j /\ s[i + j].f = s[i].f
             /\ i + s[i].c < n + m => s[i + s[i].c + 1].k = 1
  <2>1. a[i] = s[i] /\ a[i] \in Words /\ s[i].c \in Nat
    BY <1>1 DEF Words
  <2>2. /\ i + a[i].c <= n
        /\ \A j \in 1 .. a[i].c : a[i + j].k = 2 + j /\ a[i + j].f = a[i].f
        /\ i + a[i].c < n => a[i + a[i].c + 1].k = 1
    BY <1>2, <2>1 DEF Frames, Rows
  <2>3. ASSUME NEW j \in 1 .. s[i].c PROVE s[i + j].k = 2 + j /\ s[i + j].f = s[i].f
    <3>1. i + j \in 1 .. n
      BY <2>1, <2>2
    <3> QED  BY <3>1, <2>1, <2>2
  <2>4. CASE i + s[i].c < n
    <3>1. i + s[i].c + 1 \in 1 .. n
      BY <2>1, <2>4
    <3> QED  BY <3>1, <2>1, <2>2, <2>3, <2>4
  <2>5. CASE i + s[i].c = n
    <3>1. s[n + 1].k = 1
      BY DEF Frames
    <3> QED  BY <3>1, <2>1, <2>2, <2>3, <2>5
  <2> QED  BY <2>1, <2>2, <2>4, <2>5
<1>3. ASSUME NEW i \in n + 1 .. n + m
      PROVE  /\ s[i] \in Words
             /\ s[i].k = 1 => i < n + m /\ s[i + 1].k = 2 /\ s[i + 1].f = s[i].f
             /\ s[i].k = 2 =>
                  /\ i + s[i].c <= n + m
                  /\ \A j \in 1 .. s[i].c : s[i + j].k = 2 + j /\ s[i + j].f = s[i].f
                  /\ i + s[i].c < n + m => s[i + s[i].c + 1].k = 1
  <2> DEFINE p == i - n
  <2>1. p \in 1 .. m /\ i = n + p /\ s[i] = b[p]
    BY <1>3
  <2> HIDE DEF p
  <2>2. b[p] \in Words /\ b[p].c \in Nat
    BY <2>1 DEF Frames, Rows, Words
  <2>3. s[i].k = 1 => i < n + m /\ s[i + 1].k = 2 /\ s[i + 1].f = s[i].f
    <3> SUFFICES ASSUME s[i].k = 1 PROVE i < n + m /\ s[i + 1].k = 2 /\ s[i + 1].f = s[i].f
      OBVIOUS
    <3>1. p < m /\ b[p + 1].k = 2 /\ b[p + 1].f = b[p].f
      BY <2>1 DEF Frames, Rows
    <3>2. p + 1 \in 1 .. m /\ i + 1 = n + (p + 1)
      BY <3>1, <2>1
    <3> QED  BY <3>1, <3>2, <2>1
  <2>4. ASSUME s[i].k = 2
        PROVE  /\ i + s[i].c <= n + m
               /\ \A j \in 1 .. s[i].c : s[i + j].k = 2 + j /\ s[i + j].f = s[i].f
               /\ i + s[i].c < n + m => s[i + s[i].c + 1].k = 1
    <3>1. /\ p + b[p].c <= m
          /\ \A j \in 1 .. b[p].c : b[p + j].k = 2 + j /\ b[p + j].f = b[p].f
          /\ p + b[p].c < m => b[p + b[p].c + 1].k = 1
      BY <2>1, <2>4 DEF Frames, Rows
    <3>2. ASSUME NEW j \in 1 .. s[i].c PROVE s[i + j].k = 2 + j /\ s[i + j].f = s[i].f
      <4>1. p + j \in 1 .. m /\ i + j = n + (p + j)
        BY <2>1, <2>2, <3>1
      <4> QED  BY <4>1, <2>1, <3>1
    <3>3. ASSUME i + s[i].c < n + m PROVE s[i + s[i].c + 1].k = 1
      <4>1. p + b[p].c + 1 \in 1 .. m /\ i + s[i].c + 1 = n + (p + b[p].c + 1) /\ p + b[p].c < m
        BY <2>1, <2>2, <3>1, <3>3
      <4> QED  BY <4>1, <2>1, <3>1
    <3> QED  BY <2>1, <2>2, <3>1, <3>2, <3>3
  <2> QED  BY <2>1, <2>2, <2>3, <2>4
<1>4. \A i \in 1 .. n + m : i \in 1 .. n \/ i \in n + 1 .. n + m
  OBVIOUS
<1>5. n + m > 0 => s[1].k = 1
  <2>1. CASE n = 0
    BY <2>1 DEF Frames
  <2>2. CASE n > 0
    BY <2>2 DEF Frames
  <2> QED  BY <2>1, <2>2
<1>6. Rows(s, n + m)
  BY <1>1, <1>2, <1>3, <1>4 DEF Rows
<1> QED  BY <1>5, <1>6 DEF Frames

\* Behind the first frame there is a row of whole frames again, and the words
\* in front of its end are of one frame.
LEMMA RowsFirst ==
  ASSUME NEW s, NEW n \in Nat, n > 0, Frames(s, n)
  PROVE  /\ n >= 2 /\ s[2] \in Words /\ s[2].c \in Nat /\ 2 + s[2].c <= n
         /\ \A i \in 1 .. 2 + s[2].c : s[i].f = s[1].f /\ s[i].k = i
         /\ \A r : (\A i \in 1 .. n - (2 + s[2].c) : r[i] = s[i + (2 + s[2].c)])
                     => Frames(r, n - (2 + s[2].c))
<1>1. 1 \in 1 .. n /\ s[1].k = 1 /\ 1 < n /\ s[2].k = 2 /\ s[2].f = s[1].f
  BY DEF Frames, Rows
<1>2. 2 \in 1 .. n /\ s[2] \in Words /\ s[2].c \in Nat
  BY <1>1 DEF Frames, Rows, Words
<1> DEFINE c == s[2].c
           q == 2 + c
<1>3. /\ q <= n
      /\ \A j \in 1 .. c : s[2 + j].k = 2 + j /\ s[2 + j].f = s[2].f
      /\ q < n => s[q + 1].k = 1
  BY <1>1, <1>2 DEF Frames, Rows
<1>4. ASSUME NEW i \in 1 .. q PROVE s[i].f = s[1].f /\ s[i].k = i
  <2>1. CASE i \in {1, 2}
    BY <2>1, <1>1
  <2>2. CASE i > 2
    <3>1. i - 2 \in 1 .. c /\ 2 + (i - 2) = i
      BY <2>2, <1>2
    <3> QED  BY <3>1, <1>1, <1>3
  <2> QED  BY <2>1, <2>2, <1>2
<1>5. ASSUME NEW r, \A i \in 1 .. n - q : r[i] = s[i + q] PROVE Frames(r, n - q)
  <2> HIDE DEF c
  <2>0. c \in Nat /\ q \in Nat /\ n - q \in Nat
    BY <1>2, <1>3 DEF c
  <2> HIDE DEF q
  <2>1. ASSUME NEW i \in 1 .. n - q
        PROVE  /\ r[i] \in Words
               /\ r[i].k = 1 => i < n - q /\ r[i + 1].k = 2 /\ r[i + 1].f = r[i].f
               /\ r[i].k = 2 =>
                    /\ i + r[i].c <= n - q
                    /\ \A j \in 1 .. r[i].c : r[i + j].k = 2 + j /\ r[i + j].f = r[i].f
                    /\ i + r[i].c < n - q => r[i + r[i].c + 1].k = 1
    <3>1. i + q \in 1 .. n /\ r[i] = s[i + q]
      BY <1>5, <2>0
    <3>2. r[i] \in Words /\ r[i].c \in Nat
      BY <3>1 DEF Frames, Rows, Words
    <3>3. ASSUME r[i].k = 1 PROVE i < n - q /\ r[i + 1].k = 2 /\ r[i + 1].f = r[i].f
      <4>1. i + q < n /\ s[i + q + 1].k = 2 /\ s[i + q + 1].f = s[i + q].f
        BY <3>1, <3>3 DEF Frames, Rows
      <4>2. i + 1 \in 1 .. n - q /\ (i + 1) + q = i + q + 1
        BY <4>1, <2>0
      <4> QED  BY <4>1, <4>2, <3>1, <1>5, <2>0
    <3>4. ASSUME r[i].k = 2
          PROVE  /\ i + r[i].c <= n - q
                 /\ \A j \in 1 .. r[i].c : r[i + j].k = 2 + j /\ r[i + j].f = r[i].f
                 /\ i + r[i].c < n - q => r[i + r[i].c + 1].k = 1
      <4>1. /\ i + q + r[i].c <= n
            /\ \A j \in 1 .. r[i].c : s[i + q + j].k = 2 + j /\ s[i + q + j].f = s[i + q].f
            /\ i + q + r[i].c < n => s[i + q + r[i].c + 1].k = 1
        BY <3>1, <3>4 DEF Frames, Rows
      <4>2. ASSUME NEW j \in 1 .. r[i].c PROVE r[i + j].k = 2 + j /\ r[i + j].f = r[i].f
        <5>1. i + j \in 1 .. n - q /\ (i + j) + q = i + q + j
          BY <4>1, <3>2, <2>0
        <5> QED  BY <5>1, <4>1, <3>1, <1>5
      <4>3. ASSUME i + r[i].c < n - q PROVE r[i + r[i].c + 1].k = 1
        <5>1. i + r[i].c + 1 \in 1 .. n - q /\ (i + r[i].c + 1) + q = i + q + r[i].c + 1
              /\ i + q + r[i].c < n
          BY <4>3, <3>2, <2>0
        <5> QED  BY <5>1, <4>1, <1>5
      <4>4. i + r[i].c <= n - q
        BY <4>1, <3>2, <2>0
      <4> QED  BY <4>2, <4>3, <4>4
    <3> QED  BY <3>2, <3>3, <3>4
  <2>2. n - q > 0 => r[1].k = 1
    <3> SUFFICES ASSUME n - q > 0 PROVE r[1].k = 1
      OBVIOUS
    <3>1. 1 \in 1 .. n - q /\ 1 + q = q + 1 /\ q < n
      BY <2>0
    <3>2. r[1] = s[1 + q]
      BY <3>1, <1>5
    <3> QED  BY <3>1, <3>2, <1>3 DEF q, c
  <2> QED  BY <2>1, <2>2 DEF Frames, Rows
<1> QED  BY <1>1, <1>2, <1>3, <1>4, <1>5

-----------------------------------------------------------------------------
\* A word that is parsed or written stays where it is in the row.
LEMMA RowKept ==
  ASSUME NEW g \in Seq(Words), NEW r \in Seq(Words), NEW a \in Seq(Words)
  PROVE  /\ r # <<>> => /\ Row(Append(g, Head(r)), Tail(r), a) = Row(g, r, a)
                        /\ Len(Append(g, Head(r))) + Len(Tail(r)) = Len(g) + Len(r)
         /\ a # <<>> => /\ Row(g, Append(r, Head(a)), Tail(a)) = Row(g, r, a)
                        /\ Len(Append(r, Head(a))) + Len(Tail(a)) = Len(r) + Len(a)
<1>1. ASSUME r # <<>>
      PROVE  /\ Row(Append(g, Head(r)), Tail(r), a) = Row(g, r, a)
             /\ Len(Append(g, Head(r))) + Len(Tail(r)) = Len(g) + Len(r)
  <2> DEFINE g2 == Append(g, Head(r))
             r2 == Tail(r)
  <2>1. Len(g2) = Len(g) + 1 /\ Len(r2) = Len(r) - 1 /\ Len(r) \in Nat \ {0} /\ Len(g) \in Nat /\ Len(a) \in Nat
    BY <1>1
  <2>2. (\A i \in 1 .. Len(g) : g2[i] = g[i]) /\ g2[Len(g) + 1] = r[1] /\ (\A i \in 1 .. Len(r) - 1 : r2[i] = r[i + 1])
    BY <1>1
  <2> HIDE DEF g2, r2
  <2>3. ASSUME NEW i \in 1 .. Len(g) + Len(r) + Len(a)
        PROVE  (IF i <= Len(g2) THEN g2[i]
                ELSE IF i <= Len(g2) + Len(r2) THEN r2[i - Len(g2)] ELSE a[i - Len(g2) - Len(r2)])
               = (IF i <= Len(g) THEN g[i]
                  ELSE IF i <= Len(g) + Len(r) THEN r[i - Len(g)] ELSE a[i - Len(g) - Len(r)])
    <3>1. CASE i <= Len(g)
      BY <3>1, <2>1, <2>2
    <3>2. CASE i = Len(g) + 1
      BY <3>2, <2>1, <2>2
    <3>3. CASE i > Len(g) + 1 /\ i <= Len(g) + Len(r)
      <4>1. i - Len(g2) \in 1 .. Len(r) - 1 /\ (i - Len(g2)) + 1 = i - Len(g)
        BY <3>3, <2>1
      <4>2. r2[i - Len(g2)] = r[i - Len(g)]
        BY <4>1, <2>2
      <4>3. ~ (i <= Len(g2)) /\ i <= Len(g2) + Len(r2) /\ ~ (i <= Len(g)) /\ i <= Len(g) + Len(r)
        BY <3>3, <2>1
      <4> QED  BY <4>2, <4>3
    <3>4. CASE i > Len(g) + Len(r)
      <4>1. i - Len(g2) - Len(r2) = i - Len(g) - Len(r)
        BY <2>1
      <4> QED  BY <3>4, <4>1, <2>1
    <3> QED  BY <3>1, <3>2, <3>3, <3>4, <2>1
  <2>4. Len(g2) + Len(r2) + Len(a) = Len(g) + Len(r) + Len(a) /\ Len(g2) + Len(r2) = Len(g) + Len(r)
    BY <2>1
  <2>5. Row(g2, r2, a) = Row(g, r, a)
    BY <2>3, <2>4 DEF Row
  <2> QED  BY <2>4, <2>5 DEF g2, r2
<1>2. ASSUME a # <<>>
      PROVE  /\ Row(g, Append(r, Head(a)), Tail(a)) = Row(g, r, a)
             /\ Len(Append(r, Head(a))) + Len(Tail(a)) = Len(r) + Len(a)
  <2> DEFINE r2 == Append(r, Head(a))
             a2 == Tail(a)
  <2>1. Len(r2) = Len(r) + 1 /\ Len(a2) = Len(a) - 1 /\ Len(a) \in Nat \ {0} /\ Len(g) \in Nat /\ Len(r) \in Nat
    BY <1>2
  <2>2. (\A i \in 1 .. Len(r) : r2[i] = r[i]) /\ r2[Len(r) + 1] = a[1] /\ (\A i \in 1 .. Len(a) - 1 : a2[i] = a[i + 1])
    BY <1>2
  <2> HIDE DEF r2, a2
  <2>3. ASSUME NEW i \in 1 .. Len(g) + Len(r) + Len(a)
        PROVE  (IF i <= Len(g) THEN g[i]
                ELSE IF i <= Len(g) + Len(r2) THEN r2[i - Len(g)] ELSE a2[i - Len(g) - Len(r2)])
               = (IF i <= Len(g) THEN g[i]
                  ELSE IF i <= Len(g) + Len(r) THEN r[i - Len(g)] ELSE a[i - Len(g) - Len(r)])
    <3>1. CASE i <= Len(g)
      BY <3>1
    <3>2. CASE i > Len(g) /\ i <= Len(g) + Len(r)
      <4>1. i - Len(g) \in 1 .. Len(r) /\ i <= Len(g) + Len(r2) /\ ~ (i <= Len(g))
        BY <3>2, <2>1
      <4> QED  BY <4>1, <3>2, <2>2
    <3>3. CASE i = Len(g) + Len(r) + 1
      BY <3>3, <2>1, <2>2
    <3>4. CASE i > Len(g) + Len(r) + 1
      <4>1. i - Len(g) - Len(r2) \in 1 .. Len(a) - 1 /\ (i - Len(g) - Len(r2)) + 1 = i - Len(g) - Len(r)
        BY <3>4, <2>1
      <4> QED  BY <4>1, <3>4, <2>1, <2>2, SMTT(30)
    <3>5. \/ i <= Len(g)
          \/ i > Len(g) /\ i <= Len(g) + Len(r)
          \/ i = Len(g) + Len(r) + 1
          \/ i > Len(g) + Len(r) + 1
      <4>1. i \in Int /\ Len(g) \in Int /\ Len(r) \in Int
        BY <2>1
      <4> QED  BY ONLY <4>1
    <3> QED  BY <3>1, <3>2, <3>3, <3>4, <3>5
  <2>4. Len(g) + Len(r2) + Len(a2) = Len(g) + Len(r) + Len(a) /\ Len(r2) + Len(a2) = Len(r) + Len(a)
    BY <2>1
  <2>5. Row(g, r2, a2) = Row(g, r, a)
    BY <2>3, <2>4 DEF Row
  <2> QED  BY <2>4, <2>5 DEF r2, a2
<1> QED  BY <1>1, <1>2

\* Once a whole frame is taken out, whole frames are left.
LEMMA RowTaken ==
  ASSUME NEW g \in Seq(Words), NEW r \in Seq(Words), NEW a \in Seq(Words),
         Frames(Row(g, r, a), Len(g) + Len(r) + Len(a)), Complete(g)
  PROVE  /\ OneFrame(g) /\ Frames(Row(<<>>, r, a), Len(<<>>) + Len(r) + Len(a))
<1> DEFINE s == Row(g, r, a)
           N == Len(g) + Len(r) + Len(a)
           q == 2 + s[2].c
<1>0. Len(g) \in Nat /\ Len(r) \in Nat /\ Len(a) \in Nat /\ N \in Nat /\ Len(g) >= 2 /\ Len(g) = 2 + g[2].c /\ N > 0
  BY DEF Complete, HeaderWords
<1>1. \A i \in 1 .. Len(g) : s[i] = g[i]
  BY <1>0 DEF Row
<1>2. s[2] = g[2] /\ q = Len(g)
  BY <1>0, <1>1
<1>3. ASSUME NEW i \in 1 .. N - Len(g) PROVE Row(<<>>, r, a)[i] = s[i + Len(g)]
  <2> DEFINE k == i + Len(g)
  <2>1. Len(<<>>) = 0 /\ i \in Nat /\ i >= 1 /\ i <= Len(r) + Len(a)
    BY <1>0
  <2>2. k \in Nat /\ k \in 1 .. Len(g) + Len(r) + Len(a) /\ ~ (k <= Len(g)) /\ k - Len(g) = i
    BY <1>0, <2>1, SMTT(30)
  <2>3. i \in 1 .. Len(<<>>) + Len(r) + Len(a) /\ ~ (i <= Len(<<>>)) /\ i - Len(<<>>) = i
    BY <1>0, <2>1
  <2>4. CASE i <= Len(r)
    <3>1. k <= Len(g) + Len(r) /\ i <= Len(<<>>) + Len(r)
      BY <2>4, <2>1, <1>0
    <3>2. Row(<<>>, r, a)[i] = r[i]
      BY <2>3, <3>1 DEF Row
    <3> HIDE DEF k
    <3>3. Row(g, r, a)[k] = r[i]
      BY <2>2, <3>1 DEF Row
    <3> QED  BY <3>2, <3>3 DEF k
  <2>5. CASE ~ (i <= Len(r))
    <3>1. ~ (k <= Len(g) + Len(r)) /\ ~ (i <= Len(<<>>) + Len(r))
      BY <2>5, <2>1, <1>0
    <3>2. Row(<<>>, r, a)[i] = a[i - Len(r)]
      BY <2>3, <3>1 DEF Row
    <3> HIDE DEF k
    <3>3. Row(g, r, a)[k] = a[i - Len(r)]
      BY <2>2, <3>1 DEF Row
    <3> QED  BY <3>2, <3>3 DEF k
  <2> QED  BY <2>4, <2>5
<1>4. Len(<<>>) + Len(r) + Len(a) = N - Len(g)
  BY <1>0
<1> HIDE DEF s, N
<1>5. /\ \A i \in 1 .. q : s[i].f = s[1].f /\ s[i].k = i
      /\ \A t : (\A i \in 1 .. N - q : t[i] = s[i + q]) => Frames(t, N - q)
  BY <1>0, RowsFirst DEF s, N
<1>6. OneFrame(g)
  <2> HIDE DEF q
  <2>0. 1 \in 1 .. Len(g)
    BY <1>0
  <2>1. 1 \in 1 .. Len(g) /\ s[1] = g[1]
    BY <2>0, <1>1
  <2> SUFFICES ASSUME NEW i \in 1 .. Len(g) PROVE g[i].f = g[1].f /\ g[i].k = i
    BY DEF OneFrame
  <2> QED  BY <2>1, <1>1, <1>2, <1>5
<1>7. Frames(Row(<<>>, r, a), N - Len(g))
  BY <1>2, <1>3, <1>5
<1> QED  BY <1>4, <1>6, <1>7

\* With part of a frame in hand and an empty FIFO, the ARM side is in the
\* middle of that frame.
LEMMA RowPart ==
  ASSUME NEW g \in Seq(Words), NEW a \in Seq(Words), g # <<>>, Part(g),
         Frames(Row(g, <<>>, a), Len(g) + Len(<<>>) + Len(a))
  PROVE  a # <<>> /\ a[1].k > 1
<1> DEFINE s == Row(g, <<>>, a)
           N == Len(g) + Len(<<>>) + Len(a)
           q == 2 + s[2].c
<1>0. Len(g) \in Nat \ {0} /\ Len(a) \in Nat /\ N = Len(g) + Len(a) /\ N \in Nat /\ N > 0
  OBVIOUS
<1>1. \A i \in 1 .. Len(g) : s[i] = g[i]
  BY <1>0 DEF Row
<1>2. Len(a) > 0 => s[Len(g) + 1] = a[1]
  BY <1>0 DEF Row
<1> HIDE DEF s, N
<1>3. s[2].c \in Nat /\ q <= N /\ \A i \in 1 .. q : s[i].k = i
  BY <1>0, RowsFirst DEF s, N
<1>4. Len(g) < q
  <2>1. CASE Len(g) < 2
    BY <2>1, <1>0, <1>3
  <2>2. CASE Len(g) >= 2
    <3>1. s[2] = g[2]
      BY <2>2, <1>0, <1>1
    <3> QED  BY <2>2, <3>1, <1>0, <1>3 DEF Part, HeaderWords
  <2> QED  BY <2>1, <2>2, <1>0
<1>5. Len(a) > 0 /\ Len(g) + 1 \in 1 .. q
  BY <1>0, <1>3, <1>4
<1> QED  BY <1>0, <1>2, <1>3, <1>5

\* A frame that the ARM side begins stands behind the words that are left.
LEMMA RowNew ==
  ASSUME NEW g \in Seq(Words), NEW r \in Seq(Words), NEW a \in Seq(Words), Len(a) > 0,
         Frames(a, Len(a)), Frames(Row(g, r, <<>>), Len(g) + Len(r) + Len(<<>>))
  PROVE  Frames(Row(g, r, a), Len(g) + Len(r) + Len(a))
<1> DEFINE b == Row(g, r, <<>>)
           s == Row(g, r, a)
           n == Len(g) + Len(r)
<1>1. n \in Nat /\ Len(g) \in Nat /\ Len(r) \in Nat /\ Len(a) \in Nat /\ n + Len(<<>>) = n
  OBVIOUS
<1>2. ASSUME NEW i \in 1 .. n PROVE s[i] = b[i]
  <2>1. i \in 1 .. n + Len(a) /\ i \in 1 .. n + Len(<<>>) /\ i <= Len(g) + Len(r)
    BY <1>1
  <2> QED  BY <2>1 DEF Row
<1>3. ASSUME NEW i \in 1 .. Len(a) PROVE s[n + i] = a[i]
  <2>1. /\ n + i \in 1 .. n + Len(a) /\ ~ (n + i <= Len(g)) /\ ~ (n + i <= Len(g) + Len(r))
        /\ n + i - Len(g) - Len(r) = i
    BY <1>1
  <2> QED  BY <2>1 DEF Row
<1>4. Frames(b, n)
  BY <1>1
<1> HIDE DEF b, s, n
<1>5. n \in Nat /\ Len(a) \in Nat
  BY <1>1
<1>6. \A i \in 1 .. n : s[i] = b[i]
  BY <1>2
<1>7. \A i \in 1 .. Len(a) : s[n + i] = a[i]
  BY <1>3
<1>8. Frames(s, n + Len(a))
  BY ONLY <1>4, <1>5, <1>6, <1>7, Frames(a, Len(a)), Len(a) > 0, RowsJoin, ZenonT(60)
<1> QED  BY <1>8 DEF s, n

\* A word more makes the frame in hand complete, or leaves it part of a frame.
LEMMA PartGrows ==
  ASSUME NEW g \in Seq(Words), NEW w \in Words, Part(g), ~ Complete(Append(g, w))
  PROVE  Part(Append(g, w))
<1> DEFINE h == Append(g, w)
<1>1. Len(h) = Len(g) + 1 /\ Len(g) \in Nat /\ h \in Seq(Words) /\ \A i \in 1 .. Len(g) : h[i] = g[i]
  OBVIOUS
<1> HIDE DEF h
<1>2. CASE Len(h) >= 2
  <2>1. h[2].c \in Nat
    <3>1. h[2] \in Words
      BY <1>1, <1>2
    <3> QED  BY <3>1 DEF Words
  <2>2. Len(h) # 2 + h[2].c
    BY <1>2 DEF Complete, HeaderWords, h
  <2>3. CASE Len(g) >= 2
    <3>1. h[2] = g[2]
      BY <1>1, <2>3
    <3> QED  BY <3>1, <2>1, <2>2, <2>3, <1>1 DEF Part, HeaderWords, h
  <2>4. CASE Len(g) < 2
    BY <2>1, <2>2, <2>4, <1>1, <1>2 DEF Part, HeaderWords, h
  <2> QED  BY <2>3, <2>4, <1>1
<1>3. CASE Len(h) < 2
  BY <1>3 DEF Part, HeaderWords, h
<1> QED  BY <1>1, <1>2, <1>3

-----------------------------------------------------------------------------
\* The invariant holds initially: the row is empty.
LEMMA MailboxInit == InitBox => BoxIInv
<1> SUFFICES ASSUME InitBox PROVE BoxIInv
  OBVIOUS
<1>1. NotifyParas \in Nat /\ "notify" \in Types
  BY MailboxAssumption DEF Types
<1>2. Frame(0, "notify", NotifyParas) \in Seq(Words)
  BY <1>1, FrameIs
<1>3. BoxTypeOK
  <2>1. <<>> \in Seq(Words)
    OBVIOUS
  <2> HIDE DEF Words
  <2> QED  BY <1>1, <1>2, <2>1 DEF InitBox, BoxTypeOK
<1>4. PlaceInv
  BY DEF InitBox, PlaceInv
<1>5. StreamInv
  <2>1. Total = 0 /\ 1 .. 0 = {}
    BY DEF InitBox, Total
  <2> QED  BY <2>1 DEF InitBox, StreamInv, Frames, Rows
<1> QED  BY <1>3, <1>4, <1>5 DEF BoxIInv

\* Every step keeps the types.
LEMMA MailboxTypes == BoxIInv /\ [NextBox]_boxVars => BoxTypeOK'
<1> SUFFICES ASSUME BoxIInv, [NextBox]_boxVars PROVE BoxTypeOK'
  OBVIOUS
<1>0. BoxTypeOK /\ PlaceInv
  BY DEF BoxIInv
<1>1. NotifyParas \in Nat /\ {"notify", "hard", "async"} \subseteq Types /\ ParaCounts \subseteq Nat
  BY MailboxAssumption DEF Types
<1>e. <<>> \in Seq(Words)
  OBVIOUS
<1>2. CASE SendBegin
  BY <1>0, <1>1, <1>2, FrameIs DEF BoxTypeOK, SendBegin, arm
<1>3. CASE SpaceTimeout \/ ReplyTimeout \/ QueryBegin \/ QueryNone \/ QueryTimeout \/ SendTimeout \/ ArmGiveUp
  BY <1>0, <1>e, <1>3 DEF BoxTypeOK, SpaceTimeout, ReplyTimeout, QueryBegin, QueryNone, QueryTimeout, SendTimeout,
     ArmGiveUp, arm, boxVars
<1>4. CASE SendWord
  <2>1. Head(out) \in Words /\ Tail(out) \in Seq(Words)
    BY <1>0, <1>4 DEF BoxTypeOK, PlaceInv, SendWord
  <2> QED  BY <2>1, <1>0, <1>4 DEF BoxTypeOK, SendWord, arm
<1>5. CASE ReplyWord
  <2>1. Head(rx) \in Words /\ Tail(rx) \in Seq(Words)
    BY <1>0, <1>5 DEF BoxTypeOK, ReplyWord
  <2>2. Append(got, Head(rx)) \in Seq(Words)
    BY <2>1, <1>0 DEF BoxTypeOK
  <2> QED  BY <2>1, <2>2, <1>0, <1>e, <1>5 DEF BoxTypeOK, ReplyWord, arm
<1>6. CASE QueryWord
  <2>1. Head(rx) \in Words /\ Tail(rx) \in Seq(Words)
    BY <1>0, <1>6 DEF BoxTypeOK, QueryWord
  <2>2. Append(got, Head(rx)) \in Seq(Words)
    BY <2>1, <1>0 DEF BoxTypeOK
  <2> QED  BY <2>1, <2>2, <1>0, <1>e, <1>6 DEF BoxTypeOK, QueryWord, AfterFrame, arm
<1>7. CASE Drain
  <2>1. CASE rx = <<>>
    BY <2>1, <1>0, <1>7 DEF BoxTypeOK, Drain, arm
  <2>2. CASE rx # <<>>
    <3>1. Tail(rx) \in Seq(Words)
      BY <2>2, <1>0 DEF BoxTypeOK
    <3> QED  BY <3>1, <2>2, <1>0, <1>7 DEF BoxTypeOK, Drain, arm
  <2> QED  BY <2>1, <2>2
<1>8. CASE Dispatch
  <2>1. got[1].f \in Nat /\ got[2].c \in Nat
    <3>1. got \in Seq(Words) /\ Len(got) >= 2
      BY <1>0, <1>8 DEF BoxTypeOK, PlaceInv, Dispatch, Complete, HeaderWords
    <3>2. got[1] \in Words /\ got[2] \in Words
      BY <3>1
    <3> QED  BY <3>2 DEF Words
  <2>2. Frame(got[1].f, "hard", got[2].c) \in Seq(Words)
    BY <2>1, <1>1, FrameIs
  <2> QED  BY <2>2, <1>0, <1>8 DEF BoxTypeOK, Dispatch, arm
<1>9. CASE \E t \in {"hard", "async"}, n \in ParaCounts : ArmRequest(t, n)
  <2> PICK t \in {"hard", "async"}, n \in ParaCounts : ArmRequest(t, n)
    BY <1>9
  <2>1. sent' \in Nat /\ t \in Types /\ n \in Nat
    BY <1>0, <1>1 DEF BoxTypeOK, ArmRequest
  <2>2. Frame(sent', t, n) \in Seq(Words)
    BY <2>1, FrameIs
  <2> QED  BY <2>1, <2>2, <1>0 DEF BoxTypeOK, ArmRequest
<1>10. CASE ArmReply
  <2>1. sent' \in Nat
    BY <1>0, <1>10 DEF BoxTypeOK, ArmReply
  <2>2. Frame(sent', "notify", NotifyParas) \in Seq(Words)
    BY <2>1, <1>1, FrameIs
  <2> QED  BY <2>1, <2>2, <1>0, <1>10 DEF BoxTypeOK, ArmReply
<1>11. CASE ArmWrite
  BY <1>0, <1>11 DEF BoxTypeOK, ArmWrite
<1>12. CASE ArmRead
  <2>1. Head(tx) \in Words /\ Tail(tx) \in Seq(Words)
    BY <1>0, <1>12 DEF BoxTypeOK, ArmRead
  <2>2. Append(armgot, Head(tx)) \in Seq(Words)
    BY <2>1, <1>0 DEF BoxTypeOK
  <2> QED  BY <2>1, <2>2, <1>0, <1>e, <1>12 DEF BoxTypeOK, ArmRead
<1>13. CASE UNCHANGED boxVars
  BY <1>0, <1>13 DEF BoxTypeOK, boxVars
<1> QED
  BY <1>2, <1>3, <1>4, <1>5, <1>6, <1>7, <1>8, <1>9, <1>10, <1>11, <1>12, <1>13 DEF NextBox, E902, Arm

\* Every step keeps the places: a frame of which a word is missing is not
\* dispatched, and the notify, once begun, has room.
LEMMA MailboxPlaces == BoxIInv /\ [NextBox]_boxVars => PlaceInv'
<1> SUFFICES ASSUME BoxIInv, [NextBox]_boxVars PROVE PlaceInv'
  OBVIOUS
<1>0. BoxTypeOK /\ PlaceInv
  BY DEF BoxIInv
<1>1. NotifyParas \in Nat /\ Depth \in Nat /\ {"notify", "hard"} \subseteq Types
  BY MailboxAssumption DEF Types
<1>2. Part(<<>>)
  BY DEF Part, HeaderWords
<1>3. Len(tx) \in Nat /\ Len(rx) \in Nat /\ Len(out) \in Nat /\ Len(got) \in Nat
  BY <1>0 DEF BoxTypeOK
<1>4. CASE SendBegin
  <2>1. out' \in Seq(Words) /\ Len(out') = HeaderWords + NotifyParas
    BY <1>4, <1>1, FrameIs DEF SendBegin
  <2>2. out' # <<>> /\ Len(tx) + Len(out') <= Depth
    BY <2>1, <1>1, <1>3, <1>4 DEF SendBegin, HeaderWords
  <2> QED  BY <2>2, <1>0, <1>4 DEF PlaceInv, SendBegin
<1>5. CASE SpaceTimeout \/ SendTimeout \/ QueryNone \/ ArmGiveUp
  BY <1>0, <1>5 DEF PlaceInv, SpaceTimeout, SendTimeout, QueryNone, ArmGiveUp, boxVars
<1>6. CASE SendWord
  <2>1. out # <<>> /\ Len(out) > 0 /\ Len(out') = Len(out) - 1 /\ Len(tx') = Len(tx) + 1 /\ got' = <<>>
    BY <1>0, <1>6 DEF BoxTypeOK, PlaceInv, SendWord
  <2>2. CASE Len(out) > 1
    <3>1. at' = at
      BY <2>2, <1>6 DEF SendWord
    <3>2. out' # <<>> /\ (at = "send" => Len(tx') + Len(out') <= Depth)
      BY <2>1, <2>2, <1>0, <1>1, <1>3 DEF PlaceInv
    <3> QED  BY <2>1, <3>1, <3>2, <1>6 DEF PlaceInv, SendWord
  <2>3. CASE ~ (Len(out) > 1)
    <3>1. at' \in {"reply", "loop"}
      BY <2>1, <2>3, <1>3, <1>6 DEF SendWord
    <3> QED  BY <2>1, <3>1, <1>2 DEF PlaceInv
  <2> QED  BY <2>2, <2>3
<1>7. CASE ReplyWord
  <2> DEFINE g == Append(got, Head(rx))
  <2>1. Part(got) /\ Head(rx) \in Words /\ got \in Seq(Words)
    BY <1>0, <1>7 DEF BoxTypeOK, PlaceInv, ReplyWord
  <2>2. CASE Complete(g)
    BY <2>2, <1>7 DEF PlaceInv, ReplyWord
  <2>3. CASE ~ Complete(g)
    <3>1. Part(g)
      BY <2>1, <2>3, PartGrows
    <3>2. got' = g /\ at' = "reply"
      BY <2>3, <1>7 DEF ReplyWord
    <3> HIDE DEF g
    <3> QED  BY <3>1, <3>2 DEF PlaceInv
  <2> QED  BY <2>2, <2>3
<1>8. CASE ReplyTimeout \/ QueryTimeout
  BY <1>8 DEF PlaceInv, ReplyTimeout, QueryTimeout
<1>9. CASE QueryBegin
  <2>1. got' = <<>> /\ at' = "query" /\ Len(got') + Len(rx') >= HeaderWords
    BY <1>0, <1>3, <1>9 DEF PlaceInv, QueryBegin, HeaderWords
  <2> QED  BY <2>1, <1>2 DEF PlaceInv
<1>10. CASE QueryWord
  <2> DEFINE g == Append(got, Head(rx))
  <2>1. Part(got) /\ Head(rx) \in Words /\ got \in Seq(Words) /\ rx \in Seq(Words) /\ rx # <<>>
    BY <1>0, <1>10 DEF BoxTypeOK, PlaceInv, QueryWord
  <2>2. CASE Complete(g)
    <3>1. at' = AfterFrame(g) /\ got' = IF AfterFrame(g) = "loop" THEN <<>> ELSE g
      BY <2>2, <1>10 DEF QueryWord
    <3> HIDE DEF g
    <3>2. AfterFrame(g) = "loop" \/ (AfterFrame(g) = "dispatch" /\ g[1].t # "notify")
      BY DEF AfterFrame
    <3> QED  BY <2>2, <3>1, <3>2 DEF PlaceInv
  <2>3. CASE ~ Complete(g)
    <3>1. Part(g)
      BY <2>1, <2>3, PartGrows
    <3>2. got' = g /\ at' = "query"
      BY <2>3, <1>10 DEF QueryWord
    <3>3. Len(got') + Len(rx') >= HeaderWords
      <4>1. Len(g) = Len(got) + 1 /\ Len(Tail(rx)) = Len(rx) - 1
        BY <2>1
      <4>2. Len(got) + Len(rx) >= HeaderWords
        BY <1>0, <1>10 DEF PlaceInv, QueryWord
      <4> QED  BY <4>1, <4>2, <3>2, <1>3, <1>10 DEF QueryWord, HeaderWords
    <3> HIDE DEF g
    <3> QED  BY <3>1, <3>2, <3>3 DEF PlaceInv
  <2> QED  BY <2>2, <2>3
<1>11. CASE Drain
  BY <1>0, <1>11 DEF PlaceInv, Drain
<1>12. CASE Dispatch
  <2>1. CASE got[1].t = "hard"
    <3>1. got[1].f \in Nat /\ got[2].c \in Nat
      <4>1. got \in Seq(Words) /\ Len(got) >= 2
        BY <1>0, <1>12 DEF BoxTypeOK, PlaceInv, Dispatch, Complete, HeaderWords
      <4>2. got[1] \in Words /\ got[2] \in Words
        BY <4>1
      <4> QED  BY <4>2 DEF Words
    <3>2. out' \in Seq(Words) /\ Len(out') = HeaderWords + got[2].c
      <4>1. Frame(got[1].f, "hard", got[2].c) \in Seq(Words)
            /\ Len(Frame(got[1].f, "hard", got[2].c)) = HeaderWords + got[2].c
        BY <3>1, <1>1, FrameIs
      <4>2. out' = Frame(got[1].f, "hard", got[2].c)
        BY <2>1, <1>12 DEF Dispatch
      <4> QED  BY <4>1, <4>2
    <3>3. out' # <<>>
      BY <3>1, <3>2 DEF HeaderWords
    <3> QED  BY <2>1, <3>3, <1>12 DEF PlaceInv, Dispatch
  <2>2. CASE got[1].t # "hard"
    BY <2>2, <1>12 DEF PlaceInv, Dispatch
  <2> QED  BY <2>1, <2>2
<1>13. CASE \E t \in {"hard", "async"}, n \in ParaCounts : ArmRequest(t, n)
  BY <1>0, <1>13 DEF PlaceInv, ArmRequest
<1>14. CASE ArmReply
  BY <1>0, <1>14 DEF PlaceInv, ArmReply
<1>15. CASE ArmWrite
  <2>1. Len(rx') = Len(rx) + 1
    BY <1>0, <1>15 DEF BoxTypeOK, ArmWrite
  <2>2. at = "query" => Len(got) + Len(rx') >= HeaderWords
    BY <2>1, <1>0, <1>3 DEF PlaceInv, HeaderWords
  <2> QED  BY <2>2, <1>0, <1>15 DEF PlaceInv, ArmWrite
<1>16. CASE ArmRead
  <2>1. Len(tx') = Len(tx) - 1
    BY <1>0, <1>16 DEF BoxTypeOK, ArmRead
  <2>2. at = "send" => Len(tx') + Len(out) <= Depth
    BY <2>1, <1>0, <1>1, <1>3 DEF PlaceInv
  <2> QED  BY <2>2, <1>0, <1>16 DEF PlaceInv, ArmRead
<1>17. CASE UNCHANGED boxVars
  BY <1>0, <1>17 DEF PlaceInv, boxVars
<1> QED
  BY <1>4, <1>5, <1>6, <1>7, <1>8, <1>9, <1>10, <1>11, <1>12, <1>13, <1>14, <1>15, <1>16, <1>17
     DEF NextBox, E902, Arm

\* Without a stall, every step leaves a row of whole frames.
LEMMA MailboxStream == BoxIInv /\ [NextBox]_boxVars => StreamInv'
<1> SUFFICES ASSUME BoxIInv, [NextBox]_boxVars, ~ stalls' PROVE at' # "drain" /\ Frames(Stream, Total)'
  BY DEF StreamInv
<1>0. BoxTypeOK /\ PlaceInv /\ StreamInv
  BY DEF BoxIInv
<1>1. ~ stalls
  BY DEF NextBox, E902, Arm, SendBegin, SpaceTimeout, SendWord, SendTimeout, ReplyWord, ReplyTimeout,
     QueryBegin, QueryNone, QueryWord, QueryTimeout, Drain, Dispatch, ArmRequest, ArmReply, ArmWrite,
     ArmRead, ArmGiveUp, arm, boxVars
<1>2. /\ got \in Seq(Words) /\ rx \in Seq(Words) /\ armq \in Seq(Words) /\ <<>> \in Seq(Words)
      /\ sent \in Nat
  BY <1>0 DEF BoxTypeOK
<1>3. at # "drain" /\ Frames(Row(got, rx, armq), Len(got) + Len(rx) + Len(armq))
  BY <1>0, <1>1 DEF StreamInv, Stream, Total
<1> SUFFICES at' # "drain" /\ Frames(Row(got', rx', armq'), Len(got') + Len(rx') + Len(armq'))
  BY DEF Stream, Total
\* what a step does to the row, whichever action takes it
<1>4. CASE at' # "drain" /\ got' = got /\ rx' = rx /\ armq' = armq
  BY <1>3, <1>4
<1>5. CASE SendBegin \/ SpaceTimeout \/ SendWord \/ QueryBegin \/ QueryNone
  BY <1>3, <1>4, <1>5 DEF SendBegin, SpaceTimeout, SendWord, QueryBegin, QueryNone, arm, boxVars
<1>6. CASE ArmRead \/ ArmGiveUp \/ UNCHANGED boxVars
  BY <1>3, <1>4, <1>6 DEF ArmRead, ArmGiveUp, boxVars
<1>7. ~ SendTimeout /\ ~ Drain
  BY <1>1, <1>3 DEF SendTimeout, Drain
\* a timeout in mid-frame would be a stall
<1>8. rx = <<>> /\ ~ MidFrame /\ at \in {"reply", "query"} => got = <<>>
  <2> SUFFICES ASSUME rx = <<>>, at \in {"reply", "query"}, got # <<>> PROVE MidFrame
    OBVIOUS
  <2>1. Part(got)
    BY <1>0 DEF PlaceInv
  <2>2. Frames(Row(got, <<>>, armq), Len(got) + Len(<<>>) + Len(armq))
    BY <1>3
  <2> QED  BY <2>1, <2>2, <1>2, RowPart DEF MidFrame
<1>9. ~ QueryTimeout
  <2> SUFFICES ASSUME QueryTimeout PROVE FALSE
    OBVIOUS
  <2>1. got = <<>> /\ rx = <<>> /\ at = "query"
    BY <1>1, <1>8 DEF QueryTimeout
  <2> QED  BY <2>1, <1>0 DEF PlaceInv, HeaderWords
<1>10. CASE ReplyTimeout
  <2>1. got = <<>> /\ got' = <<>> /\ rx' = rx /\ armq' = armq /\ at' # "drain"
    BY <1>1, <1>8, <1>10 DEF ReplyTimeout, arm
  <2> QED  BY <2>1, <1>4
\* a word of the FIFO joins the frame in hand, or completes it
<1>11. CASE ReplyWord \/ QueryWord
  <2> DEFINE g == Append(got, Head(rx))
  <2>1. rx # <<>> /\ rx' = Tail(rx) /\ armq' = armq /\ at' # "drain"
    BY <1>3, <1>11 DEF ReplyWord, QueryWord, AfterFrame, arm
  <2>2. g \in Seq(Words) /\ rx' \in Seq(Words)
    BY <1>2, <2>1
  <2>3. Row(g, rx', armq) = Row(got, rx, armq) /\ Len(g) + Len(rx') = Len(got) + Len(rx)
    BY <1>2, <2>1, RowKept
  <2>4. got' = g \/ (Complete(g) /\ got' = <<>>)
    BY <1>11 DEF ReplyWord, QueryWord
  <2> HIDE DEF g
  <2>5. Frames(Row(g, rx', armq), Len(g) + Len(rx') + Len(armq))
    BY <1>3, <2>3
  <2>6. CASE got' = g
    BY <2>1, <2>5, <2>6
  <2>7. CASE Complete(g) /\ got' = <<>>
    <3>1. Frames(Row(<<>>, rx', armq), Len(<<>>) + Len(rx') + Len(armq))
      BY <1>2, <2>2, <2>5, <2>7, RowTaken
    <3> QED  BY <2>1, <2>7, <3>1
  <2> QED  BY <2>4, <2>6, <2>7
<1>12. CASE Dispatch
  <2>1. Complete(got) /\ got' = <<>> /\ rx' = rx /\ armq' = armq /\ at' # "drain"
    BY <1>0, <1>12 DEF PlaceInv, Dispatch, arm
  <2>2. Frames(Row(<<>>, rx, armq), Len(<<>>) + Len(rx) + Len(armq))
    BY <1>2, <1>3, <2>1, RowTaken
  <2> QED  BY <2>1, <2>2
\* the ARM side begins a frame behind the others, or writes a word of it
<1>13. ASSUME NEW F \in Seq(Words), Len(F) > 0, Frames(F, Len(F)), armq = <<>>,
              armq' = F, got' = got, rx' = rx, at' = at
       PROVE  at' # "drain" /\ Frames(Row(got', rx', armq'), Len(got') + Len(rx') + Len(armq'))
  <2>1. Frames(Row(got, rx, <<>>), Len(got) + Len(rx) + Len(<<>>))
    BY <1>3, <1>13
  <2>2. Frames(Row(got, rx, F), Len(got) + Len(rx) + Len(F))
    BY <2>1, <1>2, <1>13, RowNew
  <2> QED  BY <2>2, <1>3, <1>13
<1>14. CASE \E t \in {"hard", "async"}, n \in ParaCounts : ArmRequest(t, n)
  <2> PICK t \in {"hard", "async"}, n \in ParaCounts : ArmRequest(t, n)
    BY <1>14
  <2>1. sent' \in Nat /\ t \in Types /\ n \in Nat
    BY <1>2, MailboxAssumption DEF ArmRequest, Types
  <2> DEFINE F == Frame(sent', t, n)
  <2>2. F \in Seq(Words) /\ Len(F) = HeaderWords + n /\ Frames(F, HeaderWords + n)
    BY <2>1, FrameIs
  <2>3. armq = <<>> /\ armq' = F /\ got' = got /\ rx' = rx /\ at' = at
    BY DEF ArmRequest
  <2> HIDE DEF F
  <2>4. Len(F) > 0 /\ Frames(F, Len(F))
    BY <2>1, <2>2 DEF HeaderWords
  <2> QED  BY <2>2, <2>3, <2>4, <1>13
<1>15. CASE ArmReply
  <2>1. sent' \in Nat /\ "notify" \in Types /\ NotifyParas \in Nat
    BY <1>2, <1>15, MailboxAssumption DEF ArmReply, Types
  <2> DEFINE F == Frame(sent', "notify", NotifyParas)
  <2>2. F \in Seq(Words) /\ Len(F) = HeaderWords + NotifyParas /\ Frames(F, HeaderWords + NotifyParas)
    BY <2>1, FrameIs
  <2>3. armq = <<>> /\ armq' = F /\ got' = got /\ rx' = rx /\ at' = at
    BY <1>15 DEF ArmReply
  <2> HIDE DEF F
  <2>4. Len(F) > 0 /\ Frames(F, Len(F))
    BY <2>1, <2>2 DEF HeaderWords
  <2> QED  BY <2>2, <2>3, <2>4, <1>13
<1>16. CASE ArmWrite
  <2>1. armq # <<>> /\ rx' = Append(rx, Head(armq)) /\ armq' = Tail(armq) /\ got' = got /\ at' = at
    BY <1>16 DEF ArmWrite
  <2>2. Row(got, rx', armq') = Row(got, rx, armq) /\ Len(rx') + Len(armq') = Len(rx) + Len(armq)
    BY <1>2, <2>1, RowKept
  <2>3. Len(got) + Len(rx') + Len(armq') = Len(got) + Len(rx) + Len(armq)
    BY <1>2, <2>1, <2>2
  <2> QED  BY <2>1, <2>2, <2>3, <1>3
<1> QED
  BY <1>5, <1>6, <1>7, <1>9, <1>10, <1>11, <1>12, <1>14, <1>15, <1>16 DEF NextBox, E902, Arm

-----------------------------------------------------------------------------
(***************************************************************************)
(* The words that the E902 has in hand, those in the FIFO and those the    *)
(* ARM side has still to write are, without a stall, a row of whole        *)
(* frames: the parser is at a boundary whenever it begins.                 *)
(***************************************************************************)
THEOREM MailboxInductive == SpecBox => []BoxIInv
<1>1. BoxIInv /\ [NextBox]_boxVars => BoxIInv'
  BY MailboxTypes, MailboxPlaces, MailboxStream DEF BoxIInv
<1> QED  BY <1>1, MailboxInit, PTL DEF SpecBox

(***************************************************************************)
(* What message_process_loop hands on is one frame of the ARM side, word   *)
(* for word, and never an answer to the startup notify; and neither side   *)
(* of the driver waits in mid-frame, whatever the depth of the FIFO, the   *)
(* counts and the capacity are and whichever waits time out.               *)
(***************************************************************************)
THEOREM MailboxFramed == SpecBox => []Framed
<1>1. BoxIInv => Framed
  <2> SUFFICES ASSUME BoxIInv PROVE Framed
    OBVIOUS
  <2>1. DispatchedWhole
    <3> SUFFICES ASSUME at = "dispatch", ~ stalls PROVE OneFrame(got) /\ got[1].t # "notify"
      BY DEF DispatchedWhole
    <3>1. got \in Seq(Words) /\ rx \in Seq(Words) /\ armq \in Seq(Words)
      BY DEF BoxIInv, BoxTypeOK
    <3>2. Complete(got) /\ got[1].t # "notify"
      BY DEF BoxIInv, PlaceInv
    <3>3. Frames(Row(got, rx, armq), Len(got) + Len(rx) + Len(armq))
      BY DEF BoxIInv, StreamInv, Stream, Total
    <3> QED  BY <3>1, <3>2, <3>3, RowTaken
  <2>2. WaitsAtBoundary
    <3>1. at = "query" /\ rx = <<>> => Len(got) >= HeaderWords
      <4> SUFFICES ASSUME at = "query", rx = <<>> PROVE Len(got) >= HeaderWords
        OBVIOUS
      <4>1. Len(got) + Len(rx) >= HeaderWords /\ Len(got) \in Nat /\ Len(rx) = 0
        BY DEF BoxIInv, BoxTypeOK, PlaceInv
      <4> QED  BY <4>1 DEF HeaderWords
    <3> QED  BY <3>1 DEF BoxIInv, PlaceInv, WaitsAtBoundary
  <2> QED  BY <2>1, <2>2 DEF Framed
<1> QED  BY <1>1, MailboxInductive, PTL

-----------------------------------------------------------------------------
(***************************************************************************)
(* The timers.  The parts of TimerIInv: who owns which timer, what a       *)
(* stopped timer has left to be cleared, the scale of a timer on the way   *)
(* from clock to clock, its interval, and the time left of a period and of *)
(* a delay.                                                                *)
(***************************************************************************)

Starting  == {"reload", "mode", "ack", "irq", "clic", "enable"}
Stopping  == {"stop irq", "stop clic", "stop ack"}
Releasing == {"rel irq", "rel clic", "rel ack", "uninstall", "free"}
Delaying  == {"d reload", "d ack", "d enable", "d deadline", "d wait", "d stop", "d clear"}
Switching == {"off i0", "off s1", "off i1", "on s0", "on i1", "on s1"}

Pcs == {"boot", "idle", "install"} \cup Starting \cup Stopping \cup Releasing \cup Delaying
         \cup Switching

TimerTypeOK ==
  /\ place \in Pcs
  /\ arg \in [ms : Nat, mode : {"single", "period"}, t : Timer]
  /\ en \subseteq Timer /\ mode \in [Timer -> {"single", "period"}]
  /\ ivl \in [Timer -> Nat] /\ cnt \in [Timer -> Nat] /\ pending \subseteq Timer
  /\ src \in [Timer -> {"ref", "losc", "other"}] /\ ms_ticks \in [Timer -> Nat]
  /\ phase \in 0 .. Ratio - 1 /\ dead \subseteq {0}
  /\ since \in Nat /\ waited \in Nat /\ counted \in Nat /\ want \in Nat
  /\ faults \in Nat

\* Who owns which timer: timer 0 belongs to time_mdelay, timer 1 to a client.
UseInv ==
  /\ place # "boot" => 0 \in used
  /\ handler = used \ {0}
  /\ irq \subseteq {1} /\ ie \subseteq {1} /\ used \subseteq Timer
  /\ place = "boot" => used = {} /\ want = 0
  /\ place = "install" => arg.t = 1
  /\ place \in Starting \cup Stopping \cup Releasing => 1 \in used /\ want = 0
  /\ 1 \in irq \cup ie => 1 \in used

\* What timer 1, stopped, has left to be cleared.
QuietInv ==
  /\ 1 \in en <=> want > 0
  /\ 0 \in en <=> place \in {"d deadline", "d wait", "d stop"}
  /\ want = 0 =>
       /\ 1 \in irq => place \in {"clic", "enable", "stop irq", "rel irq"}
       /\ 1 \in ie => place \in {"enable", "stop irq", "stop clic", "rel irq", "rel clic"}
       /\ 1 \in pending => \/ faults > 0
                           \/ place \in Stopping \cup {"rel irq", "rel clic", "rel ack"}

Ref(t)  == src[t] = "ref" /\ ms_ticks[t] = Fast
Losc(t) == src[t] = "losc" /\ ms_ticks[t] = Slow

\* The clocks change one after the other, the source before the scale.
ClockInv ==
  /\ place \notin {"boot"} \cup Switching => (Ref(0) /\ Ref(1)) \/ (Losc(0) /\ Losc(1))
  /\ place = "off i0" => src[0] = "losc" /\ Ref(1)
  /\ place = "off s1" => Losc(0) /\ Ref(1)
  /\ place = "off i1" => Losc(0) /\ src[1] = "losc" /\ ms_ticks[1] = Fast
  /\ place = "on s0" => Losc(0) /\ Losc(1)
  /\ place \in {"on i1", "on s1"} => Ref(0) /\ Losc(1)

\* The interval of timer 1 is its period on the clock it has.
Fits == want > 0 /\ want * Fast <= MaxCount

PeriodInv ==
  /\ mode[1] = "period" /\ (place # "boot" => mode[0] = "single")
  /\ place \in {"reload", "mode"} => arg.mode = "period"
  /\ place \in Starting => arg.ms > 0 /\ ivl[1] = arg.ms * ms_ticks[1]
  /\ place \in Starting \ {"reload"} => cnt[1] = ivl[1]
  /\ Fits => ivl[1] = want * (IF place = "on s1" THEN Fast ELSE ms_ticks[1])

\* Fast counts until timer t expires.
Left(t) == IF src[t] = "ref" THEN cnt[t] ELSE cnt[t] * Ratio - phase

TickInv ==
  ~ switched /\ Fits =>
    /\ place \notin {"off i1", "on s1"} /\ cnt[1] > 0
    /\ since + Left(1) <= want * Fast
    /\ since + Left(1) + Ratio > want * Fast

Lasted == waited + Ratio > arg.ms * Fast

DelayInv ==
  /\ place \in Delaying \ {"d stop", "d clear"} =>
       /\ arg.ms > 0 /\ ivl[0] = arg.ms * ms_ticks[0] /\ arg.ms * ms_ticks[0] <= MaxCount
  /\ place \in {"d ack", "d enable"} => cnt[0] = ivl[0]
  /\ place = "d enable" => 0 \notin pending
  /\ place \in {"d deadline", "d wait"} =>
       /\ 0 \in pending => Lasted
       /\ 0 \notin pending \cup dead =>
            cnt[0] > 0 /\ waited + Left(0) + Ratio > arg.ms * Fast
  /\ place = "d wait" => counted <= waited
  /\ place = "d stop" => Lasted

TimerIInv == /\ TimerTypeOK /\ UseInv /\ QuietInv /\ ClockInv /\ PeriodInv /\ TickInv /\ DelayInv
        /\ ~ stray

USE DEF Starting, Stopping, Releasing, Delaying, Switching

-----------------------------------------------------------------------------
(* Arithmetic of the two clocks. *)

\* A slow period fits whole fast ones, and the way back loses nothing.
LEMMA Scales ==
  ASSUME NEW w \in Nat
  PROVE  /\ Fast \in Nat \ {0} /\ Fast > Slow
         /\ w * Slow \in Nat /\ w * Fast \in Nat /\ w * Fast = (w * Slow) * Ratio
         /\ (w * Fast) \div Ratio = w * Slow
         /\ w * Fast <= MaxCount => (w * Slow * Ratio) % (MaxCount + 1) = w * Fast
<1>1. Slow \in Nat \ {0} /\ Ratio \in Nat \ {0} /\ Ratio > 1 /\ MaxCount \in Nat
  BY TimersAssumption
<1>2. Fast = Slow * Ratio /\ Fast \in Nat /\ Fast > Slow
  <2>1. Slow * Ratio >= Slow * 2
    BY <1>1
  <2> QED  BY <2>1, <1>1 DEF Fast
<1>3. w * Slow \in Nat /\ w * Fast \in Nat
  BY <1>1, <1>2
<1>4. w * Fast = (w * Slow) * Ratio
  BY <1>1, <1>2
<1>5. \A x \in Nat : (x * Ratio) \div Ratio = x
  BY <1>1
<1>6. \A x \in Nat : x <= MaxCount => x % (MaxCount + 1) = x
  BY <1>1
<1> QED  BY <1>1, <1>2, <1>3, <1>4, <1>5, <1>6

\* A slow count is Ratio fast ones.
LEMMA SlowCount ==
  ASSUME NEW c \in Nat
  PROVE  c * Ratio \in Nat /\ (c > 0 => c * Ratio >= Ratio /\ (c - 1) * Ratio = c * Ratio - Ratio)
<1>1. Ratio \in Nat \ {0}
  BY TimersAssumption
<1> QED  BY <1>1

\* The history counters saturate above every period and delay.
LEMMA CapHigh ==
  /\ Cap \in Nat /\ Cap > MaxCount
  /\ \A m \in Nat : m * Slow <= MaxCount => m * Fast < Cap
<1>1. Slow \in Nat \ {0} /\ Ratio \in Nat \ {0} /\ MaxCount \in Nat
  BY TimersAssumption
<1>2. Cap = MaxCount * Ratio + Slow * Ratio /\ Slow * Ratio > 0 /\ MaxCount * Ratio >= MaxCount
  BY <1>1 DEF Cap
<1>3. ASSUME NEW m \in Nat, m * Slow <= MaxCount PROVE m * Fast < Cap
  <2> DEFINE x == m * Slow
  <2>1. m * Fast = x * Ratio /\ x \in Nat
    BY <1>1, Scales
  <2>2. x <= MaxCount
    BY <1>3
  <2> HIDE DEF x
  <2>3. x * Ratio <= MaxCount * Ratio
    BY <1>1, <2>1, <2>2
  <2> QED  BY <1>1, <1>2, <2>1, <2>3
<1> QED  BY <1>1, <1>2, <1>3

-----------------------------------------------------------------------------
\* The invariant holds before timer_init.
LEMMA TimersInit == InitTimers => TimerIInv
<1> SUFFICES ASSUME InitTimers PROVE TimerIInv
  OBVIOUS
<1>0. Ratio \in Nat \ {0}
  BY TimersAssumption
<1>1. TimerTypeOK
  BY <1>0 DEF InitTimers, TimerTypeOK, Pcs, Timer
<1>2. UseInv /\ QuietInv
  BY DEF InitTimers, UseInv, QuietInv, Timer
<1>3. ClockInv /\ PeriodInv
  BY DEF InitTimers, ClockInv, PeriodInv, Timer, Fits
<1>4. TickInv /\ DelayInv
  BY DEF InitTimers, TickInv, DelayInv, Fits
<1>5. ~ stray
  BY DEF InitTimers
<1> QED  BY <1>1, <1>2, <1>3, <1>4, <1>5 DEF TimerIInv

-----------------------------------------------------------------------------
(* A step of the driver, of the clock or of the interrupt handler. *)

\* timer_request, timer_start, timer_stop and timer_release, but for the steps
\* that write the interval, the counter and the enable bit.
Bits ==
  \/ Install \/ SetMode \/ StartAck \/ StartIrq \/ StartClic
  \/ StopIrq("stop irq", "stop clic") \/ StopClic("stop clic", "stop ack") \/ StopAck("stop ack", "idle")
  \/ StopIrq("rel irq", "rel clic") \/ StopClic("rel clic", "rel ack") \/ StopAck("rel ack", "uninstall")
  \/ Uninstall \/ Free
  \/ Request \/ RequestNone \/ StartRefused \/ StopRefused

\* Every step is one of these.
LEMMA Steps ==
  [NextTimers]_timerVars =>
    \/ Bits \/ TimerInit \/ Start \/ Reload \/ StartEnable \/ Stop("stop irq") \/ Stop("rel irq")
    \/ DelayAll \/ Hosc \/ Time \/ (\E t \in Timer : Isr(t)) \/ UNCHANGED timerVars
BY DEF NextTimers, Process, StopAll, Release, Bits

\* A poll goes on, or gives up and is counted.
LEMMA Polled ==
  ASSUME NEW from, NEW to, NEW giveup, Poll(from, to, giveup), faults \in Nat
  PROVE  /\ place = from /\ faults' \in Nat
         /\ \/ place' = to /\ faults' = faults
            \/ place' = giveup /\ faults' = faults + 1
         /\ place' \in {to, giveup} /\ faults' \in {faults, faults + 1}
<1>1. CASE Go(from, to) /\ UNCHANGED count
  BY <1>1 DEF Go, count
<1>2. CASE Go(from, giveup) /\ faults' = faults + 1
  BY <1>2 DEF Go
<1> QED  BY <1>1, <1>2 DEF Poll

\* Every step keeps the types.
LEMMA TimersTypes == TimerIInv /\ [NextTimers]_timerVars => TimerTypeOK'
<1> SUFFICES ASSUME TimerIInv, [NextTimers]_timerVars PROVE TimerTypeOK'
  OBVIOUS
<1>0. TimerTypeOK
  BY DEF TimerIInv
<1>1. /\ Slow \in Nat /\ Ratio \in Nat \ {0} /\ MaxCount \in Nat /\ Fast \in Nat
      /\ Periods \subseteq Nat /\ Delays \subseteq Nat
  BY TimersAssumption, Scales
<1>2. ms_ticks[0] \in Nat /\ ms_ticks[1] \in Nat
  BY <1>0 DEF TimerTypeOK, Timer
<1>3. CASE Bits
  <2>11. CASE Install
    BY <2>11, <1>0 DEF TimerTypeOK, Pcs, Install, Go, Call, Poll, table, intr, unit, clk, time, hist, count, Timer
  <2>12. CASE SetMode
    BY <2>12, <1>0 DEF TimerTypeOK, Pcs, SetMode, Go, Call, Poll, table, intr, unit, clk, time, hist, count, Timer
  <2>13. CASE StartAck
    <3>1. place' \in Pcs /\ faults' \in Nat
      <4>1. Poll("ack", "irq", "idle")
        BY <2>13 DEF StartAck
      <4>2. faults \in Nat
        BY <1>0 DEF TimerTypeOK
      <4>3. place' \in {"irq", "idle"} /\ faults' \in Nat
        BY <4>1, <4>2, Polled
      <4> QED  BY <4>3 DEF Pcs
    <3>2. pending' \subseteq Timer
      BY <2>13, <1>0 DEF TimerTypeOK, StartAck, Timer
    <3>3. UNCHANGED <<arg, en, mode, ivl, cnt, src, ms_ticks, phase, dead, since, waited, counted, want>>
      BY <2>13 DEF StartAck, clk, time, hist
    <3> QED  BY <3>1, <3>2, <3>3, <1>0 DEF TimerTypeOK
  <2>14. CASE StartIrq
    BY <2>14, <1>0 DEF TimerTypeOK, Pcs, StartIrq, Go, Call, Poll, table, intr, unit, clk, time, hist, count, Timer
  <2>15. CASE StartClic
    BY <2>15, <1>0 DEF TimerTypeOK, Pcs, StartClic, Go, Call, Poll, table, intr, unit, clk, time, hist, count, Timer
  <2>16. CASE Uninstall
    BY <2>16, <1>0 DEF TimerTypeOK, Pcs, Uninstall, Go, Call, Poll, table, intr, unit, clk, time, hist, count, Timer
  <2>17. CASE Free
    BY <2>17, <1>0 DEF TimerTypeOK, Pcs, Free, Go, Call, Poll, table, intr, unit, clk, time, hist, count, Timer
  <2>2. CASE \/ StopIrq("stop irq", "stop clic") \/ StopClic("stop clic", "stop ack")
             \/ StopIrq("rel irq", "rel clic") \/ StopClic("rel clic", "rel ack")
    BY <2>2, <1>0 DEF TimerTypeOK, Pcs, StopIrq, StopClic, Go, table, intr, unit, clk, time, hist, count
  <2>21. CASE StopAck("stop ack", "idle")
    <3>1. place' \in Pcs /\ faults' \in Nat
      <4>1. Poll("stop ack", "idle", "idle")
        BY <2>21 DEF StopAck
      <4>2. faults \in Nat
        BY <1>0 DEF TimerTypeOK
      <4>3. place' \in {"idle", "idle"} /\ faults' \in Nat
        BY <4>1, <4>2, Polled
      <4> QED  BY <4>3 DEF Pcs
    <3>2. pending' \subseteq Timer
      BY <2>21, <1>0 DEF TimerTypeOK, StopAck, Timer
    <3>3. UNCHANGED <<arg, en, mode, ivl, cnt, src, ms_ticks, phase, dead, since, waited, counted, want>>
      BY <2>21 DEF StopAck, clk, time, hist
    <3> QED  BY <3>1, <3>2, <3>3, <1>0 DEF TimerTypeOK
  <2>22. CASE StopAck("rel ack", "uninstall")
    <3>1. place' \in Pcs /\ faults' \in Nat
      <4>1. Poll("rel ack", "uninstall", "idle")
        BY <2>22 DEF StopAck
      <4>2. faults \in Nat
        BY <1>0 DEF TimerTypeOK
      <4>3. place' \in {"uninstall", "idle"} /\ faults' \in Nat
        BY <4>1, <4>2, Polled
      <4> QED  BY <4>3 DEF Pcs
    <3>2. pending' \subseteq Timer
      BY <2>22, <1>0 DEF TimerTypeOK, StopAck, Timer
    <3>3. UNCHANGED <<arg, en, mode, ivl, cnt, src, ms_ticks, phase, dead, since, waited, counted, want>>
      BY <2>22 DEF StopAck, clk, time, hist
    <3> QED  BY <3>1, <3>2, <3>3, <1>0 DEF TimerTypeOK
  <2>4. CASE Request
    <3> DEFINE x == CHOOSE x \in Timer \ used : \A y \in Timer \ used : x <= y
    <3>1. x \in Timer
      <4>1. \E y \in Timer \ used : \A z \in Timer \ used : y <= z
        BY <2>4 DEF Request, Timer
      <4> QED  BY <4>1
    <3>2. arg' = [arg EXCEPT !.t = x] /\ place' = "install"
      BY <2>4 DEF Request, Call, Go
    <3> HIDE DEF x
    <3> QED  BY <3>1, <3>2, <2>4, <1>0 DEF TimerTypeOK, Pcs, Request, Call, intr, unit, clk, time, hist
  <2>5. CASE RequestNone \/ StartRefused \/ StopRefused
    BY <2>5, <1>0 DEF TimerTypeOK, Pcs, RequestNone, StartRefused, StopRefused, Call, Go,
       table, intr, unit, clk, time, hist
  <2> QED  BY <1>3, <2>11, <2>12, <2>13, <2>14, <2>15, <2>16, <2>17, <2>2, <2>21, <2>22, <2>4, <2>5 DEF Bits
<1>4. CASE TimerInit
  BY <1>4, <1>0, <1>1 DEF TimerTypeOK, Pcs, TimerInit, Go, intr, time, hist, count, Timer
<1>5. CASE Start
  <2> PICK ms \in Periods : /\ ms > 0 /\ ms_ticks[1] * ms <= MaxCount
                            /\ arg' = [ms |-> ms, mode |-> "period", t |-> 1]
                            /\ ivl' = [ivl EXCEPT ![1] = ms_ticks[1] * ms]
    BY <1>5 DEF Start
  <2>1. ms \in Nat /\ ms_ticks[1] * ms \in Nat
    BY <1>1, <1>2
  <2> QED  BY <2>1, <1>5, <1>0 DEF TimerTypeOK, Pcs, Start, Call, Go, table, intr, clk, time, hist, Timer
<1>61. CASE Reload
  <2>1. place' \in Pcs /\ faults' \in Nat
    <3>1. Poll("reload", "mode", "idle")
      BY <1>61 DEF Reload
    <3>2. faults \in Nat
      BY <1>0 DEF TimerTypeOK
    <3>3. place' \in {"mode", "idle"} /\ faults' \in Nat
      BY <3>1, <3>2, Polled
    <3> QED  BY <3>3 DEF Pcs
  <2>2. cnt' \in [Timer -> Nat]
    BY <1>61, <1>0 DEF TimerTypeOK, Reload, Timer
  <2>3. UNCHANGED <<arg, en, mode, ivl, pending, src, ms_ticks, phase, dead, since, waited, counted, want>>
    BY <1>61 DEF Reload, clk, time, hist
  <2> QED  BY <2>1, <2>2, <2>3, <1>0 DEF TimerTypeOK
<1>62. CASE StartEnable
  BY <1>62, <1>0 DEF TimerTypeOK, Pcs, StartEnable, Go, Call, Poll, table, intr, unit, clk, time, hist, count, Timer
<1>63. CASE Stop("stop irq")
  BY <1>63, <1>0 DEF TimerTypeOK, Pcs, Stop, Go, Call, Poll, table, intr, unit, clk, time, hist, count, Timer
<1>64. CASE Stop("rel irq")
  BY <1>64, <1>0 DEF TimerTypeOK, Pcs, Stop, Go, Call, Poll, table, intr, unit, clk, time, hist, count, Timer
<1>7. CASE DelayAll
  <2>1. CASE Delay
    <3> PICK ms \in Delays : /\ ms > 0 /\ ms_ticks[0] * ms <= MaxCount
                             /\ arg' = [arg EXCEPT !.ms = ms]
                             /\ ivl' = [ivl EXCEPT ![0] = ms_ticks[0] * ms]
      BY <2>1 DEF Delay
    <3>1. ms \in Nat /\ ms_ticks[0] * ms \in Nat
      BY <1>1, <1>2
    <3> QED  BY <3>1, <2>1, <1>0 DEF TimerTypeOK, Pcs, Delay, Call, Go, table, intr, clk, time, hist, Timer
  <2>2. CASE DelayNone
    BY <2>2, <1>0 DEF TimerTypeOK, Pcs, DelayNone, Go, Call, Poll, table, intr, unit, clk, time, hist, count, Timer
  <2>3. CASE DelayReload
    <3>1. place' \in Pcs /\ faults' \in Nat
      <4>1. Poll("d reload", "d ack", "idle")
        BY <2>3 DEF DelayReload
      <4>2. faults \in Nat
        BY <1>0 DEF TimerTypeOK
      <4>3. place' \in {"d ack", "idle"} /\ faults' \in Nat
        BY <4>1, <4>2, Polled
      <4> QED  BY <4>3 DEF Pcs
    <3>2. cnt' \in [Timer -> Nat]
      BY <2>3, <1>0 DEF TimerTypeOK, DelayReload, Timer
    <3>3. UNCHANGED <<arg, en, mode, ivl, pending, src, ms_ticks, phase, dead, since, waited, counted, want>>
      BY <2>3 DEF DelayReload, clk, time, hist
    <3> QED  BY <3>1, <3>2, <3>3, <1>0 DEF TimerTypeOK
  <2>4. CASE DelayAck
    BY <2>4, <1>0 DEF TimerTypeOK, Pcs, DelayAck, Go, Call, Poll, table, intr, unit, clk, time, hist, count, Timer
  <2>5. CASE DelayEnable
    BY <2>5, <1>0 DEF TimerTypeOK, Pcs, DelayEnable, Go, Call, Poll, table, intr, unit, clk, time, hist, count, Timer
  <2>6. CASE DelayDeadline
    BY <2>6, <1>0 DEF TimerTypeOK, Pcs, DelayDeadline, Go, Call, Poll, table, intr, unit, clk, time, hist, count, Timer
  <2>7. CASE DelayWait
    BY <2>7, <1>0 DEF TimerTypeOK, Pcs, DelayWait, Go, Call, Poll, table, intr, unit, clk, time, hist, count, Timer
  <2>8. CASE DelayStop
    BY <2>8, <1>0 DEF TimerTypeOK, Pcs, DelayStop, Go, Call, Poll, table, intr, unit, clk, time, hist, count, Timer
  <2>9. CASE DelayClear
    BY <2>9, <1>0 DEF TimerTypeOK, Pcs, DelayClear, Go, Call, Poll, table, intr, unit, clk, time, hist, count, Timer
  <2> QED  BY <1>7, <2>1, <2>2, <2>3, <2>4, <2>5, <2>6, <2>7, <2>8, <2>9 DEF DelayAll
<1>8. CASE Hosc
  <2>0. /\ ivl[0] \div Ratio \in Nat /\ ivl[1] \div Ratio \in Nat
        /\ (ivl[0] * Ratio) % (MaxCount + 1) \in Nat /\ (ivl[1] * Ratio) % (MaxCount + 1) \in Nat
    <3>1. ivl[0] \in Nat /\ ivl[1] \in Nat
      BY <1>0 DEF TimerTypeOK, Timer
    <3>2. \A x \in Nat : x \div Ratio \in Nat /\ x * Ratio \in Nat
      BY <1>1
    <3>3. \A x \in Nat : x % (MaxCount + 1) \in Nat
      BY <1>1
    <3> QED  BY <3>1, <3>2, <3>3
  <2>1. CASE HoscOff
    BY <2>1, <2>0, <1>0, <1>1 DEF TimerTypeOK, Pcs, HoscOff, OffSource, Go, Call, Poll, table, intr, unit, clk, time, hist, count, Timer
  <2>2. CASE OffSource("off s1", "off i1", 1) /\ UNCHANGED count
    BY <2>2, <2>0, <1>0, <1>1 DEF TimerTypeOK, Pcs, OffSource, Go, Call, Poll, table, intr, unit, clk, time, hist, count, Timer
  <2>3. CASE OffInterval("off i0", "off s1", 0)
    BY <2>3, <2>0, <1>0, <1>1 DEF TimerTypeOK, Pcs, OffInterval, Go, Call, Poll, table, intr, unit, clk, time, hist, count, Timer
  <2>4. CASE OffInterval("off i1", "idle", 1)
    BY <2>4, <2>0, <1>0, <1>1 DEF TimerTypeOK, Pcs, OffInterval, Go, Call, Poll, table, intr, unit, clk, time, hist, count, Timer
  <2>5. CASE HoscOn
    BY <2>5, <2>0, <1>0, <1>1 DEF TimerTypeOK, Pcs, HoscOn, OnInterval, Go, Call, Poll, table, intr, unit, clk, time, hist, count, Timer
  <2>6. CASE OnInterval("on i1", "on s1", 1) /\ UNCHANGED count
    BY <2>6, <2>0, <1>0, <1>1 DEF TimerTypeOK, Pcs, OnInterval, Go, Call, Poll, table, intr, unit, clk, time, hist, count, Timer
  <2>7. CASE OnSource("on s0", "on i1", 0)
    BY <2>7, <2>0, <1>0, <1>1 DEF TimerTypeOK, Pcs, OnSource, Go, Call, Poll, table, intr, unit, clk, time, hist, count, Timer
  <2>8. CASE OnSource("on s1", "idle", 1)
    BY <2>8, <2>0, <1>0, <1>1 DEF TimerTypeOK, Pcs, OnSource, Go, Call, Poll, table, intr, unit, clk, time, hist, count, Timer
  <2> QED  BY <1>8, <2>1, <2>2, <2>3, <2>4, <2>5, <2>6, <2>7, <2>8 DEF Hosc
<1>9. CASE Time
  <2>1. phase' \in 0 .. Ratio - 1
    <3>1. \A x \in Nat : x % Ratio \in 0 .. Ratio - 1
      BY <1>1
    <3>2. phase + 1 \in Nat
      BY <1>0, <1>1 DEF TimerTypeOK
    <3>3. phase' = (phase + 1) % Ratio
      BY <1>9 DEF Time
    <3> QED  BY <3>1, <3>2, <3>3
  <2>2. cnt' \in [Timer -> Nat]
    <3>1. ASSUME NEW t \in Timer
          PROVE  (IF Expires(t) THEN (IF mode[t] = "period" THEN ivl[t] ELSE 0)
                  ELSE IF Counts(t) THEN cnt[t] - 1 ELSE cnt[t]) \in Nat
      BY <1>0 DEF TimerTypeOK, Counts
    <3> QED  BY <3>1, <1>9 DEF Time
  <2>3. \A n \in Nat : Up(n) \in Nat
    BY DEF Up
  <2>4. since' \in Nat /\ waited' \in Nat /\ counted' \in Nat
    BY <2>3, <1>9, <1>0 DEF Time, TimerTypeOK
  <2>5. pending' \subseteq Timer
    BY <1>9, <1>0 DEF Time, TimerTypeOK
  <2> QED  BY <2>1, <2>2, <2>4, <2>5, <1>9, <1>0 DEF TimerTypeOK, Pcs, Time, clk, count
<1>10. CASE \E t \in Timer : Isr(t)
  BY <1>10, <1>0 DEF TimerTypeOK, Isr, clk, time, count
<1>11. CASE UNCHANGED timerVars
  BY <1>11, <1>0 DEF TimerTypeOK, timerVars
<1> QED  BY <1>3, <1>4, <1>5, <1>61, <1>62, <1>63, <1>64, <1>7, <1>8, <1>9, <1>10, <1>11, Steps

-----------------------------------------------------------------------------
(* What each group of steps leaves alone. *)

\* time_mdelay has timer 0 to itself and leaves timer 1 alone.
LEMMA DelayMoves ==
  ASSUME TimerTypeOK, DelayAll
  PROVE  /\ place \in {"idle"} \cup Delaying /\ place' \in {"idle"} \cup Delaying
         /\ UNCHANGED <<used, handler, isr, irq, ie, mode, src, ms_ticks, phase, dead, lock, since,
                        switched, want, stray>>
         /\ ivl'[1] = ivl[1] /\ cnt'[1] = cnt[1] /\ en' \ {0} = en \ {0}
         /\ pending' \ {0} = pending \ {0} /\ faults' \in {faults, faults + 1}
<1> DEFINE A == /\ place \in {"idle"} \cup Delaying /\ place' \in {"idle"} \cup Delaying
                /\ UNCHANGED <<used, handler, isr, irq, ie, mode, src, ms_ticks, phase, dead, lock, since,
                               switched, want, stray>>
           B == ivl'[1] = ivl[1] /\ cnt'[1] = cnt[1]
           C == en' \ {0} = en \ {0} /\ pending' \ {0} = pending \ {0}
           D == faults' \in {faults, faults + 1}
<1>0. faults \in Nat /\ ivl \in [Timer -> Nat] /\ cnt \in [Timer -> Nat]
  BY DEF TimerTypeOK
<1>1. CASE DelayNone
  <2>1. A
    BY <1>1 DEF DelayNone, Call, Go, table, intr, unit, clk, time, hist, count
  <2>2. faults' = faults
    BY <1>1 DEF DelayNone, Call, count
  <2>3. B
    BY <1>1, <1>0 DEF DelayNone, unit, Timer
  <2>4. C
    BY <1>1 DEF DelayNone, unit
  <2> QED  BY <2>1, <2>2, <2>3, <2>4
<1>2. CASE Delay
  <2>1. A
    BY <1>2 DEF Delay, Call, Go, table, intr, unit, clk, time, hist, count
  <2>2. faults' = faults
    BY <1>2 DEF Delay, Call, count
  <2>3. B
    <3> PICK ms \in Delays : ivl' = [ivl EXCEPT ![0] = ms_ticks[0] * ms]
      BY <1>2 DEF Delay
    <3>1. ivl'[1] = ivl[1]
      BY <1>0 DEF Timer
    <3>2. cnt' = cnt
      BY <1>2 DEF Delay
    <3> QED  BY <3>1, <3>2
  <2>4. C
    BY <1>2 DEF Delay, unit
  <2> QED  BY <2>1, <2>2, <2>3, <2>4
<1>3. CASE DelayReload
  <2>1. Poll("d reload", "d ack", "idle")
    BY <1>3 DEF DelayReload
  <2>2. place = "d reload" /\ place' \in {"d ack", "idle"} /\ D
    BY <2>1, <1>0, Polled
  <2>3. B
    <3>1. cnt' = cnt \/ cnt' = [cnt EXCEPT ![0] = ivl[0]]
      BY <1>3 DEF DelayReload
    <3>2. cnt'[1] = cnt[1]
      BY <3>1, <1>0 DEF Timer
    <3>3. ivl' = ivl
      BY <1>3 DEF DelayReload
    <3> QED  BY <3>2, <3>3
  <2>4. A /\ C
    BY <2>2, <1>3 DEF DelayReload, table, intr, clk, time, hist
  <2> QED  BY <2>2, <2>3, <2>4
<1>4. CASE DelayAck
  <2>1. A
    BY <1>4 DEF DelayAck, Call, Go, table, intr, unit, clk, time, hist, count
  <2>2. faults' = faults
    BY <1>4 DEF DelayAck, Call, count
  <2>3. B
    BY <1>4, <1>0 DEF DelayAck, unit, Timer
  <2>4. C
    BY <1>4 DEF DelayAck, unit
  <2> QED  BY <2>1, <2>2, <2>3, <2>4
<1>5. CASE DelayEnable
  <2>1. A
    BY <1>5 DEF DelayEnable, Call, Go, table, intr, unit, clk, time, hist, count
  <2>2. faults' = faults
    BY <1>5 DEF DelayEnable, Call, count
  <2>3. B
    BY <1>5, <1>0 DEF DelayEnable, unit, Timer
  <2>4. C
    BY <1>5 DEF DelayEnable, unit
  <2> QED  BY <2>1, <2>2, <2>3, <2>4
<1>6. CASE DelayDeadline
  <2>1. A
    BY <1>6 DEF DelayDeadline, Call, Go, table, intr, unit, clk, time, hist, count
  <2>2. faults' = faults
    BY <1>6 DEF DelayDeadline, Call, count
  <2>3. B
    BY <1>6, <1>0 DEF DelayDeadline, unit, Timer
  <2>4. C
    BY <1>6 DEF DelayDeadline, unit
  <2> QED  BY <2>1, <2>2, <2>3, <2>4
<1>7. CASE DelayWait
  <2>1. A
    BY <1>7 DEF DelayWait, Call, Go, table, intr, unit, clk, time, hist, count
  <2>2. faults' = faults
    BY <1>7 DEF DelayWait, Call, count
  <2>3. B
    BY <1>7, <1>0 DEF DelayWait, unit, Timer
  <2>4. C
    BY <1>7 DEF DelayWait, unit
  <2> QED  BY <2>1, <2>2, <2>3, <2>4
<1>8. CASE DelayStop
  <2>1. A
    BY <1>8 DEF DelayStop, Call, Go, table, intr, unit, clk, time, hist, count
  <2>2. faults' = faults
    BY <1>8 DEF DelayStop, Call, count
  <2>3. B
    BY <1>8, <1>0 DEF DelayStop, unit, Timer
  <2>4. C
    BY <1>8 DEF DelayStop, unit
  <2> QED  BY <2>1, <2>2, <2>3, <2>4
<1>9. CASE DelayClear
  <2>1. A
    BY <1>9 DEF DelayClear, Call, Go, table, intr, unit, clk, time, hist, count
  <2>2. faults' = faults
    BY <1>9 DEF DelayClear, Call, count
  <2>3. B
    BY <1>9, <1>0 DEF DelayClear, unit, Timer
  <2>4. C
    BY <1>9 DEF DelayClear, unit
  <2> QED  BY <2>1, <2>2, <2>3, <2>4
<1> QED  BY <1>1, <1>2, <1>3, <1>4, <1>5, <1>6, <1>7, <1>8, <1>9 DEF DelayAll

\* timer_hosc_onoff_cb changes clocks and intervals only.
LEMMA HoscMoves ==
  ASSUME Hosc
  PROVE  /\ place \in {"idle"} \cup Switching /\ place' \in {"idle"} \cup Switching
         /\ UNCHANGED <<arg, used, handler, isr, irq, ie, en, mode, cnt, pending, phase, dead, lock,
                        since, waited, counted, want, stray, faults>>
<1>1. CASE HoscOff
  BY <1>1 DEF HoscOff, OffSource, Call, Go, table, intr, unit, time
<1>2. CASE OffSource("off s1", "off i1", 1) /\ UNCHANGED count
  BY <1>2 DEF OffSource, Go, table, intr, unit, time, count
<1>3. CASE OffInterval("off i0", "off s1", 0) \/ OffInterval("off i1", "idle", 1)
  BY <1>3 DEF OffInterval, Go, table, intr, time, hist, count
<1>4. CASE HoscOn
  BY <1>4 DEF HoscOn, OnInterval, Call, Go, table, intr, time
<1>5. CASE OnInterval("on i1", "on s1", 1) /\ UNCHANGED count
  BY <1>5 DEF OnInterval, Go, table, intr, time, count
<1>6. CASE OnSource("on s0", "on i1", 0) \/ OnSource("on s1", "idle", 1)
  BY <1>6 DEF OnSource, Go, table, intr, unit, time, count
<1> QED  BY <1>1, <1>2, <1>3, <1>4, <1>5, <1>6 DEF Hosc

\* The other steps of the client's calls touch neither clocks nor counters.
LEMMA BitsMoves ==
  ASSUME TimerTypeOK, Bits
  PROVE  /\ place \notin Switching \cup Delaying \cup {"boot", "reload"}
         /\ place' \notin Switching \cup Delaying \cup {"boot", "reload", "mode"}
         /\ place' \in Starting => place \in Starting
         /\ UNCHANGED <<en, ivl, cnt, src, ms_ticks, phase, dead, lock, since, switched, waited, counted,
                        want, stray>>
         /\ arg'.ms = arg.ms /\ arg'.mode = arg.mode /\ mode'[0] = mode[0]
         /\ mode'[1] = (IF place = "mode" THEN arg.mode ELSE mode[1])
         /\ pending' \ {1} = pending \ {1} /\ faults' \in {faults, faults + 1}
<1> DEFINE A == /\ place \notin Switching \cup Delaying \cup {"boot", "reload"}
                /\ place' \notin Switching \cup Delaying \cup {"boot", "reload", "mode"}
                /\ place' \in Starting => place \in Starting
           U == UNCHANGED <<en, ivl, cnt, src, ms_ticks, phase, dead, lock, since, switched, waited, counted,
                            want, stray>>
           B == /\ arg'.ms = arg.ms /\ arg'.mode = arg.mode /\ mode'[0] = mode[0]
                /\ mode'[1] = (IF place = "mode" THEN arg.mode ELSE mode[1])
           C == pending' \ {1} = pending \ {1}
           D == faults' \in {faults, faults + 1}
<1>0. /\ faults \in Nat /\ mode \in [Timer -> {"single", "period"}]
      /\ arg \in [ms : Nat, mode : {"single", "period"}, t : Timer]
  BY DEF TimerTypeOK
<1>1. CASE Install
  <2>1. A
    BY <1>1 DEF Install, Call, Go
  <2>2. U
    BY <1>1 DEF Install, unit, clk, time, hist
  <2>3. B
    BY <1>1, <1>0 DEF Install, Call, Go, unit, Timer
  <2>4. C
    BY <1>1 DEF Install, unit
  <2>5. faults' = faults
    BY <1>1 DEF Install, Call, count
  <2> QED  BY <2>1, <2>2, <2>3, <2>4, <2>5
<1>2. CASE SetMode
  <2>1. A
    BY <1>2 DEF SetMode, Call, Go
  <2>2. U
    BY <1>2 DEF SetMode, unit, clk, time, hist
  <2>3. B
    BY <1>2, <1>0 DEF SetMode, Call, Go, unit, Timer
  <2>4. C
    BY <1>2 DEF SetMode, unit
  <2>5. faults' = faults
    BY <1>2 DEF SetMode, Call, count
  <2> QED  BY <2>1, <2>2, <2>3, <2>4, <2>5
<1>3. CASE StartAck
  <2>1. Poll("ack", "irq", "idle")
    BY <1>3 DEF StartAck
  <2>2. place = "ack" /\ place' \in {"irq", "idle"} /\ D
    BY <2>1, <1>0, Polled
  <2>3. A
    BY <2>2
  <2>4. U /\ arg' = arg /\ mode' = mode
    BY <1>3 DEF StartAck, table, intr, clk, time, hist
  <2>5. C
    BY <1>3 DEF StartAck
  <2> QED  BY <2>2, <2>3, <2>4, <2>5
<1>4. CASE StartIrq
  <2>1. A
    BY <1>4 DEF StartIrq, Call, Go
  <2>2. U
    BY <1>4 DEF StartIrq, unit, clk, time, hist
  <2>3. B
    BY <1>4, <1>0 DEF StartIrq, Call, Go, unit, Timer
  <2>4. C
    BY <1>4 DEF StartIrq, unit
  <2>5. faults' = faults
    BY <1>4 DEF StartIrq, Call, count
  <2> QED  BY <2>1, <2>2, <2>3, <2>4, <2>5
<1>5. CASE StartClic
  <2>1. A
    BY <1>5 DEF StartClic, Call, Go
  <2>2. U
    BY <1>5 DEF StartClic, unit, clk, time, hist
  <2>3. B
    BY <1>5, <1>0 DEF StartClic, Call, Go, unit, Timer
  <2>4. C
    BY <1>5 DEF StartClic, unit
  <2>5. faults' = faults
    BY <1>5 DEF StartClic, Call, count
  <2> QED  BY <2>1, <2>2, <2>3, <2>4, <2>5
<1>6. CASE StopIrq("stop irq", "stop clic")
  <2>1. A
    BY <1>6 DEF StopIrq, Call, Go
  <2>2. U
    BY <1>6 DEF StopIrq, unit, clk, time, hist
  <2>3. B
    BY <1>6, <1>0 DEF StopIrq, Call, Go, unit, Timer
  <2>4. C
    BY <1>6 DEF StopIrq, unit
  <2>5. faults' = faults
    BY <1>6 DEF StopIrq, Call, count
  <2> QED  BY <2>1, <2>2, <2>3, <2>4, <2>5
<1>7. CASE StopClic("stop clic", "stop ack")
  <2>1. A
    BY <1>7 DEF StopClic, Call, Go
  <2>2. U
    BY <1>7 DEF StopClic, unit, clk, time, hist
  <2>3. B
    BY <1>7, <1>0 DEF StopClic, Call, Go, unit, Timer
  <2>4. C
    BY <1>7 DEF StopClic, unit
  <2>5. faults' = faults
    BY <1>7 DEF StopClic, Call, count
  <2> QED  BY <2>1, <2>2, <2>3, <2>4, <2>5
<1>8. CASE StopAck("stop ack", "idle")
  <2>1. Poll("stop ack", "idle", "idle")
    BY <1>8 DEF StopAck
  <2>2. place = "stop ack" /\ place' \in {"idle", "idle"} /\ D
    BY <2>1, <1>0, Polled
  <2>3. A
    BY <2>2
  <2>4. U /\ arg' = arg /\ mode' = mode
    BY <1>8 DEF StopAck, table, intr, clk, time, hist
  <2>5. C
    BY <1>8 DEF StopAck
  <2> QED  BY <2>2, <2>3, <2>4, <2>5
<1>9. CASE StopIrq("rel irq", "rel clic")
  <2>1. A
    BY <1>9 DEF StopIrq, Call, Go
  <2>2. U
    BY <1>9 DEF StopIrq, unit, clk, time, hist
  <2>3. B
    BY <1>9, <1>0 DEF StopIrq, Call, Go, unit, Timer
  <2>4. C
    BY <1>9 DEF StopIrq, unit
  <2>5. faults' = faults
    BY <1>9 DEF StopIrq, Call, count
  <2> QED  BY <2>1, <2>2, <2>3, <2>4, <2>5
<1>10. CASE StopClic("rel clic", "rel ack")
  <2>1. A
    BY <1>10 DEF StopClic, Call, Go
  <2>2. U
    BY <1>10 DEF StopClic, unit, clk, time, hist
  <2>3. B
    BY <1>10, <1>0 DEF StopClic, Call, Go, unit, Timer
  <2>4. C
    BY <1>10 DEF StopClic, unit
  <2>5. faults' = faults
    BY <1>10 DEF StopClic, Call, count
  <2> QED  BY <2>1, <2>2, <2>3, <2>4, <2>5
<1>11. CASE StopAck("rel ack", "uninstall")
  <2>1. Poll("rel ack", "uninstall", "idle")
    BY <1>11 DEF StopAck
  <2>2. place = "rel ack" /\ place' \in {"uninstall", "idle"} /\ D
    BY <2>1, <1>0, Polled
  <2>3. A
    BY <2>2
  <2>4. U /\ arg' = arg /\ mode' = mode
    BY <1>11 DEF StopAck, table, intr, clk, time, hist
  <2>5. C
    BY <1>11 DEF StopAck
  <2> QED  BY <2>2, <2>3, <2>4, <2>5
<1>12. CASE Uninstall
  <2>1. A
    BY <1>12 DEF Uninstall, Call, Go
  <2>2. U
    BY <1>12 DEF Uninstall, unit, clk, time, hist
  <2>3. B
    BY <1>12, <1>0 DEF Uninstall, Call, Go, unit, Timer
  <2>4. C
    BY <1>12 DEF Uninstall, unit
  <2>5. faults' = faults
    BY <1>12 DEF Uninstall, Call, count
  <2> QED  BY <2>1, <2>2, <2>3, <2>4, <2>5
<1>13. CASE Free
  <2>1. A
    BY <1>13 DEF Free, Call, Go
  <2>2. U
    BY <1>13 DEF Free, unit, clk, time, hist
  <2>3. B
    BY <1>13, <1>0 DEF Free, Call, Go, unit, Timer
  <2>4. C
    BY <1>13 DEF Free, unit
  <2>5. faults' = faults
    BY <1>13 DEF Free, Call, count
  <2> QED  BY <2>1, <2>2, <2>3, <2>4, <2>5
<1>14. CASE Request
  <2>1. A
    BY <1>14 DEF Request, Call, Go
  <2>2. U
    BY <1>14 DEF Request, unit, clk, time, hist
  <2>3. B
    BY <1>14, <1>0 DEF Request, Call, Go, unit, Timer
  <2>4. C
    BY <1>14 DEF Request, unit
  <2>5. faults' = faults
    BY <1>14 DEF Request, Call, count
  <2> QED  BY <2>1, <2>2, <2>3, <2>4, <2>5
<1>15. CASE RequestNone
  <2>1. A
    BY <1>15 DEF RequestNone, Call, Go
  <2>2. U
    BY <1>15 DEF RequestNone, unit, clk, time, hist
  <2>3. B
    BY <1>15, <1>0 DEF RequestNone, Call, Go, unit, Timer
  <2>4. C
    BY <1>15 DEF RequestNone, unit
  <2>5. faults' = faults
    BY <1>15 DEF RequestNone, Call, count
  <2> QED  BY <2>1, <2>2, <2>3, <2>4, <2>5
<1>16. CASE StartRefused
  <2>1. A
    BY <1>16 DEF StartRefused, Call, Go
  <2>2. U
    BY <1>16 DEF StartRefused, unit, clk, time, hist
  <2>3. B
    BY <1>16, <1>0 DEF StartRefused, Call, Go, unit, Timer
  <2>4. C
    BY <1>16 DEF StartRefused, unit
  <2>5. faults' = faults
    BY <1>16 DEF StartRefused, Call, count
  <2> QED  BY <2>1, <2>2, <2>3, <2>4, <2>5
<1>17. CASE StopRefused
  <2>1. A
    BY <1>17 DEF StopRefused, Call, Go
  <2>2. U
    BY <1>17 DEF StopRefused, unit, clk, time, hist
  <2>3. B
    BY <1>17, <1>0 DEF StopRefused, Call, Go, unit, Timer
  <2>4. C
    BY <1>17 DEF StopRefused, unit
  <2>5. faults' = faults
    BY <1>17 DEF StopRefused, Call, count
  <2> QED  BY <2>1, <2>2, <2>3, <2>4, <2>5
<1> QED
  BY <1>1, <1>2, <1>3, <1>4, <1>5, <1>6, <1>7, <1>8, <1>9, <1>10, <1>11, <1>12, <1>13, <1>14, <1>15, <1>16, <1>17 DEF Bits

-----------------------------------------------------------------------------
\* Every step keeps the owners: a timer is not freed with its interrupt on.
LEMMA TimersUse == TimerIInv /\ [NextTimers]_timerVars => UseInv'
<1> SUFFICES ASSUME TimerIInv, [NextTimers]_timerVars PROVE UseInv'
  OBVIOUS
<1>0. TimerTypeOK /\ UseInv /\ QuietInv
  BY DEF TimerIInv
<1>1. CASE Bits
  <2>1. CASE Install \/ SetMode \/ StartIrq \/ StartClic \/ Uninstall
    BY <2>1, <1>0 DEF UseInv, Install, SetMode, StartIrq, StartClic, Uninstall, Go, table, intr, hist
  <2>2. CASE Free
    <3>1. 1 \notin irq \cup ie
      BY <2>2, <1>0 DEF UseInv, QuietInv, Free, Go
    <3> QED  BY <2>2, <3>1, <1>0 DEF UseInv, Free, Go, intr, hist
  <2>3. CASE StartAck
    <3>1. Poll("ack", "irq", "idle")
      BY <2>3 DEF StartAck
    <3>2. place = "ack" /\ place' \in {"irq", "idle"}
      BY <3>1, <1>0, Polled DEF TimerTypeOK
    <3> QED  BY <2>3, <3>2, <1>0 DEF UseInv, StartAck, table, intr, hist
  <2>4. CASE StopAck("stop ack", "idle") \/ StopAck("rel ack", "uninstall")
    <3>1. Poll("stop ack", "idle", "idle") \/ Poll("rel ack", "uninstall", "idle")
      BY <2>4 DEF StopAck
    <3>2. place \in {"stop ack", "rel ack"} /\ place' \in {"uninstall", "idle"}
      BY <3>1, <1>0, Polled DEF TimerTypeOK
    <3> QED  BY <2>4, <3>2, <1>0 DEF UseInv, StopAck, table, intr, hist
  <2>5. CASE \/ StopIrq("stop irq", "stop clic") \/ StopClic("stop clic", "stop ack")
             \/ StopIrq("rel irq", "rel clic") \/ StopClic("rel clic", "rel ack")
    BY <2>5, <1>0 DEF UseInv, StopIrq, StopClic, Go, table, intr, hist
  <2>6. CASE Request
    <3>1. Timer \ used = {1}
      BY <2>6, <1>0 DEF Request, Call, Go, UseInv, Timer
    <3>2. (CHOOSE x \in {1} : \A y \in {1} : x <= y) = 1
      OBVIOUS
    <3>3. used' = used \cup {1} /\ handler' = handler \cup {1} /\ arg'.t = 1
      BY <3>1, <3>2, <2>6, <1>0 DEF Request, TimerTypeOK
    <3> QED  BY <3>3, <2>6, <1>0 DEF UseInv, Request, Call, Go, intr, hist, Timer
  <2>7. CASE RequestNone \/ StartRefused \/ StopRefused
    BY <2>7, <1>0 DEF UseInv, RequestNone, StartRefused, StopRefused, Call, Go, table, intr, hist
  <2> QED  BY <1>1, <2>1, <2>2, <2>3, <2>4, <2>5, <2>6, <2>7 DEF Bits
<1>2. CASE TimerInit
  BY <1>2, <1>0 DEF UseInv, TimerInit, Go, intr, hist, Timer
<1>3. CASE Start
  BY <1>3, <1>0 DEF UseInv, Start, Call, Go, table, intr, hist
<1>4. CASE Reload
  <2>1. Poll("reload", "mode", "idle")
    BY <1>4 DEF Reload
  <2>2. place = "reload" /\ place' \in {"mode", "idle"}
    BY <2>1, <1>0, Polled DEF TimerTypeOK
  <2> QED  BY <2>2, <1>4, <1>0 DEF UseInv, Reload, table, intr, hist
<1>5. CASE StartEnable \/ Stop("stop irq") \/ Stop("rel irq")
  BY <1>5, <1>0 DEF UseInv, StartEnable, Stop, Call, Go, table, intr
<1>6. CASE DelayAll
  BY <1>6, <1>0, DelayMoves DEF UseInv
<1>7. CASE Hosc
  BY <1>7, <1>0, HoscMoves DEF UseInv
<1>8. CASE Time \/ (\E t \in Timer : Isr(t)) \/ UNCHANGED timerVars
  BY <1>8, <1>0 DEF UseInv, Time, Isr, table, intr, timerVars
<1> QED  BY <1>1, <1>2, <1>3, <1>4, <1>5, <1>6, <1>7, <1>8, Steps

\* Every step keeps a stopped timer 1 quiet, but for what is yet to be cleared.
LEMMA TimersQuiet == TimerIInv /\ [NextTimers]_timerVars => QuietInv'
<1> SUFFICES ASSUME TimerIInv, [NextTimers]_timerVars PROVE QuietInv'
  OBVIOUS
<1>0. TimerTypeOK /\ UseInv /\ QuietInv /\ PeriodInv /\ want \in Nat /\ faults \in Nat
  BY DEF TimerIInv, TimerTypeOK
<1>1. CASE Bits
  <2>0. en' = en /\ want' = want /\ faults' \in {faults, faults + 1}
    BY <1>0, <1>1, BitsMoves
  <2>1. /\ 1 \in en' <=> want' > 0
        /\ 0 \in en' <=> place' \in {"d deadline", "d wait", "d stop"}
    <3>1. place \notin Delaying /\ place' \notin Delaying
      BY <1>0, <1>1, BitsMoves
    <3> QED  BY <2>0, <3>1, <1>0 DEF QuietInv
  <2>2. ASSUME want = 0
        PROVE  /\ 1 \in irq' => place' \in {"clic", "enable", "stop irq", "rel irq"}
               /\ 1 \in ie' => place' \in {"enable", "stop irq", "stop clic", "rel irq", "rel clic"}
               /\ 1 \in pending' => \/ faults' > 0
                                    \/ place' \in Stopping \cup {"rel irq", "rel clic", "rel ack"}
    <3>0. /\ 1 \in irq => place \in {"clic", "enable", "stop irq", "rel irq"}
          /\ 1 \in ie => place \in {"enable", "stop irq", "stop clic", "rel irq", "rel clic"}
          /\ 1 \in pending => \/ faults > 0
                              \/ place \in Stopping \cup {"rel irq", "rel clic", "rel ack"}
      BY <2>2, <1>0 DEF QuietInv
    <3>1. CASE Install \/ SetMode \/ StartIrq \/ StartClic \/ Uninstall \/ Free
      BY <3>0, <3>1 DEF Install, SetMode, StartIrq, StartClic, Uninstall, Free, Go, intr, unit, count
    <3>2. CASE \/ StopIrq("stop irq", "stop clic") \/ StopClic("stop clic", "stop ack")
               \/ StopIrq("rel irq", "rel clic") \/ StopClic("rel clic", "rel ack")
      BY <3>0, <3>2 DEF StopIrq, StopClic, Go, unit, count
    <3>3. CASE Request \/ RequestNone \/ StartRefused \/ StopRefused
      BY <3>0, <3>3 DEF Request, RequestNone, StartRefused, StopRefused, Call, Go, intr, unit
    <3>4. CASE StartAck
      <4>1. Poll("ack", "irq", "idle")
        BY <3>4 DEF StartAck
      <4>2. place = "ack" /\ ((place' = "irq" /\ faults' = faults) \/ (place' = "idle" /\ faults' = faults + 1))
        BY <4>1, <1>0, Polled
      <4>3. irq' = irq /\ ie' = ie /\ pending' = (IF place' = "irq" THEN pending \ {1} ELSE pending)
        BY <3>4 DEF StartAck, intr
      <4>4. place' = "idle" => faults' > 0
        BY <4>2, <1>0
      <4>5. 1 \notin irq' /\ 1 \notin ie' /\ (1 \in pending' => place' # "irq")
        BY <4>2, <4>3, <3>0
      <4> QED  BY <4>2, <4>4, <4>5
    <3>5. CASE StopAck("stop ack", "idle") \/ StopAck("rel ack", "uninstall")
      <4>1. Poll("stop ack", "idle", "idle") \/ Poll("rel ack", "uninstall", "idle")
        BY <3>5 DEF StopAck
      <4>2. place \in {"stop ack", "rel ack"} /\ (faults' = faults \/ faults' = faults + 1)
        BY <4>1, <1>0, Polled
      <4>3. irq' = irq /\ ie' = ie /\ pending' = (IF faults' = faults THEN pending \ {1} ELSE pending)
        BY <3>5 DEF StopAck, intr
      <4>4. 1 \notin irq' /\ 1 \notin ie'
        BY <4>2, <4>3, <3>0
      <4>5. 1 \in pending' => faults' # faults
        BY <4>3
      <4>6. faults' # faults => faults' > 0
        <5>1. \A n \in Nat : n + 1 > 0
          OBVIOUS
        <5> QED  BY <4>2, <5>1, <1>0
      <4> QED  BY <4>4, <4>5, <4>6
    <3> QED  BY <1>1, <3>1, <3>2, <3>3, <3>4, <3>5 DEF Bits
  <2> QED  BY <2>0, <2>1, <2>2 DEF QuietInv
<1>2. CASE TimerInit
  <2>1. want' = 0 /\ en' = {} /\ irq' = irq /\ ie' = ie /\ pending' = pending /\ place = "boot" /\ place' = "idle"
        /\ faults' = faults /\ want = 0
    BY <1>2, <1>0 DEF TimerInit, Go, intr, hist, count, UseInv
  <2> QED  BY <2>1, <1>0 DEF QuietInv
<1>3. CASE Start
  <2>1. want = 0 /\ want' = want /\ en' = en /\ irq' = irq /\ ie' = ie /\ pending' = pending
        /\ place = "idle" /\ place' = "reload" /\ faults' = faults
    BY <1>3 DEF Start, Call, Go, intr, hist
  <2> QED  BY <2>1, <1>0 DEF QuietInv
<1>4. CASE Reload
  <2>1. Poll("reload", "mode", "idle")
    BY <1>4 DEF Reload
  <2>2. place = "reload" /\ place' \in {"mode", "idle"} /\ (faults' = faults \/ faults' = faults + 1)
    BY <2>1, <1>0, Polled
  <2>3. want' = want /\ want = 0 /\ en' = en /\ irq' = irq /\ ie' = ie /\ pending' = pending
    BY <2>2, <1>4, <1>0 DEF Reload, intr, hist, UseInv
  <2>4. faults > 0 => faults' > 0
    BY <2>2, <1>0
  <2> QED  BY <2>2, <2>3, <2>4, <1>0 DEF QuietInv
<1>5. CASE StartEnable
  <2>1. want' > 0
    BY <1>5, <1>0 DEF StartEnable, Go, PeriodInv
  <2>2. en' = en \cup {1} /\ place = "enable" /\ place' = "idle"
    BY <1>5 DEF StartEnable, Go
  <2>3. want' # 0
    BY <2>1
  <2> QED  BY <2>1, <2>2, <2>3, <1>0 DEF QuietInv
<1>6. CASE Stop("stop irq") \/ Stop("rel irq")
  <2>1. /\ want' = 0 /\ en' = en \ {1} /\ irq' = irq /\ ie' = ie
        /\ place = "idle" /\ place' \in {"stop irq", "rel irq"}
    BY <1>6 DEF Stop, Call, Go, intr
  <2>2. ~ (0 > 0) /\ 1 \notin en' /\ (0 \in en' <=> 0 \in en)
    <3>1. \A S, T : T = S \ {1} => 1 \notin T /\ (0 \in T <=> 0 \in S)
      OBVIOUS
    <3>2. ~ (0 > 0)
      OBVIOUS
    <3> QED  BY <2>1, <3>1, <3>2
  <2> QED  BY <2>1, <2>2, <1>0 DEF QuietInv
<1>7. CASE DelayAll
  <2>1. /\ place \in {"idle"} \cup Delaying /\ place' \in {"idle"} \cup Delaying
        /\ irq' = irq /\ ie' = ie /\ want' = want /\ en' \ {0} = en \ {0}
        /\ pending' \ {0} = pending \ {0} /\ faults' \in {faults, faults + 1}
    BY <1>7, <1>0, DelayMoves
  <2>2. (1 \in en' <=> 1 \in en) /\ (1 \in pending' <=> 1 \in pending)
    <3>1. \A S, T : S \ {0} = T \ {0} => (1 \in S <=> 1 \in T)
      OBVIOUS
    <3> QED  BY <2>1, <3>1
  <2>3. faults > 0 => faults' > 0
    <3>1. \A n \in Nat : \A m \in {n, n + 1} : n > 0 => m > 0
      OBVIOUS
    <3> QED  BY <2>1, <3>1, <1>0
  <2>4. 0 \in en' <=> place' \in {"d deadline", "d wait", "d stop"}
    <3>1. CASE DelayNone \/ Delay \/ DelayAck \/ DelayEnable
      BY <3>1, <1>0 DEF QuietInv, DelayNone, Delay, DelayAck, DelayEnable, Call, Go, unit
    <3>2. CASE DelayDeadline \/ DelayWait \/ DelayStop \/ DelayClear
      BY <3>2, <1>0 DEF QuietInv, DelayDeadline, DelayWait, DelayStop, DelayClear, Go, unit
    <3>3. CASE DelayReload
      <4>1. Poll("d reload", "d ack", "idle") /\ en' = en
        BY <3>3 DEF DelayReload
      <4>2. place = "d reload" /\ place' \in {"d ack", "idle"}
        BY <4>1, <1>0, Polled
      <4> QED  BY <4>1, <4>2, <1>0 DEF QuietInv
    <3> QED  BY <1>7, <3>1, <3>2, <3>3 DEF DelayAll
  <2>5. want = 0 => 1 \notin irq /\ 1 \notin ie /\ (1 \in pending => faults > 0)
    BY <2>1, <1>0 DEF QuietInv
  <2> QED  BY <2>1, <2>2, <2>3, <2>4, <2>5, <1>0 DEF QuietInv
<1>8. CASE Hosc
  <2>1. /\ place \in {"idle"} \cup Switching /\ place' \in {"idle"} \cup Switching
        /\ irq' = irq /\ ie' = ie /\ want' = want /\ en' = en /\ pending' = pending /\ faults' = faults
    BY <1>8, HoscMoves
  <2> QED  BY <2>1, <1>0 DEF QuietInv
<1>9. CASE Time
  <2>1. /\ place' = place /\ irq' = irq /\ ie' = ie /\ want' = want /\ en' = en /\ faults' = faults
        /\ pending' = pending \cup {t \in Timer : Expires(t)}
    BY <1>9 DEF Time, intr, count
  <2>2. want = 0 => ~ Expires(1)
    <3>1. ~ (0 > 0)
      OBVIOUS
    <3> QED  BY <3>1, <1>0 DEF QuietInv, Expires, Counts
  <2> QED  BY <2>1, <2>2, <1>0 DEF QuietInv
<1>10. CASE \E t \in Timer : Isr(t)
  BY <1>10, <1>0 DEF QuietInv, Isr, intr, count
<1>11. CASE UNCHANGED timerVars
  BY <1>11, <1>0 DEF QuietInv, timerVars
<1> QED  BY <1>1, <1>2, <1>3, <1>4, <1>5, <1>6, <1>7, <1>8, <1>9, <1>10, <1>11, Steps

\* No step calls the handler of a timer that is not in use.
LEMMA TimersStray == TimerIInv /\ [NextTimers]_timerVars => ~ stray'
<1> SUFFICES ASSUME TimerIInv, [NextTimers]_timerVars PROVE ~ stray'
  OBVIOUS
<1>0. TimerTypeOK /\ UseInv /\ ~ stray
  BY DEF TimerIInv
<1>1. CASE Bits \/ DelayAll \/ Hosc
  BY <1>1, <1>0, BitsMoves, DelayMoves, HoscMoves
<1>2. CASE TimerInit \/ Start \/ Reload \/ StartEnable \/ Stop("stop irq") \/ Stop("rel irq") \/ Time
  BY <1>2, <1>0 DEF TimerInit, Start, Reload, StartEnable, Stop, Time, hist
<1>3. CASE \E t \in Timer : Isr(t)
  <2> PICK t \in Timer : Isr(t)
    BY <1>3
  <2>1. t = 1 /\ t \in handler \cap used
    <3>1. t \in irq /\ irq \subseteq {1} /\ handler = used \ {0} /\ (1 \in irq => 1 \in used)
      BY <1>0 DEF Isr, UseInv
    <3> QED  BY <3>1
  <2> QED  BY <2>1, <1>0 DEF Isr
<1>4. CASE UNCHANGED timerVars
  BY <1>4, <1>0 DEF timerVars
<1> QED  BY <1>1, <1>2, <1>3, <1>4, Steps

-----------------------------------------------------------------------------
\* Every step keeps the clocks in step with their scales.
LEMMA TimersClock == TimerIInv /\ [NextTimers]_timerVars => ClockInv'
<1> SUFFICES ASSUME TimerIInv, [NextTimers]_timerVars PROVE ClockInv'
  OBVIOUS
<1>0. TimerTypeOK /\ ClockInv /\ src \in [Timer -> {"ref", "losc", "other"}] /\ ms_ticks \in [Timer -> Nat]
  BY DEF TimerIInv, TimerTypeOK
<1>1. ASSUME UNCHANGED <<src, ms_ticks>>, place \notin {"boot"} \cup Switching, place' \notin {"boot"} \cup Switching
      PROVE  ClockInv'
  BY <1>0, <1>1 DEF ClockInv, Ref, Losc
<1>2. CASE Bits \/ DelayAll
  BY <1>0, <1>1, <1>2, BitsMoves, DelayMoves
<1>3. CASE TimerInit
  <2>1. place' = "idle" /\ src' = [t \in Timer |-> "ref"] /\ ms_ticks' = [t \in Timer |-> Fast]
    BY <1>3 DEF TimerInit, Go
  <2> QED  BY <2>1 DEF ClockInv, Ref, Timer
<1>4. CASE Start \/ StartEnable \/ Stop("stop irq") \/ Stop("rel irq")
  BY <1>1, <1>4 DEF Start, StartEnable, Stop, Call, Go, clk
<1>5. CASE Reload
  <2>1. Poll("reload", "mode", "idle") /\ UNCHANGED <<src, ms_ticks>>
    BY <1>5 DEF Reload, clk
  <2>2. place = "reload" /\ place' \in {"mode", "idle"}
    BY <2>1, <1>0, Polled DEF TimerTypeOK
  <2> QED  BY <2>1, <2>2, <1>1
<1>6. CASE Hosc
  <2>1. CASE HoscOff
    <3>1. place = "idle" /\ place' = "off i0" /\ src[0] = "ref" /\ src' = [src EXCEPT ![0] = "losc"] /\ ms_ticks' = ms_ticks
      BY <2>1 DEF HoscOff, OffSource, Call, Go
    <3>2. Ref(1)
      BY <3>1, <1>0 DEF ClockInv, Ref, Losc
    <3>3. src'[0] = "losc" /\ src'[1] = src[1]
      <4>1. src' = [src EXCEPT ![0] = "losc"] /\ src \in [Timer -> {"ref", "losc", "other"}]
        BY <3>1, <1>0
      <4> QED  BY ONLY <4>1 DEF Timer
    <3> QED  BY <3>1, <3>2, <3>3 DEF ClockInv, Ref
  <2>2. CASE OffInterval("off i0", "off s1", 0)
    <3>1. place = "off i0" /\ place' = "off s1" /\ src' = src /\ ms_ticks' = [ms_ticks EXCEPT ![0] = Slow]
      BY <2>2 DEF OffInterval, Go
    <3> QED  BY <3>1, <1>0 DEF ClockInv, Ref, Losc, Timer
  <2>3. CASE OffSource("off s1", "off i1", 1)
    <3>1. place = "off s1" /\ place' = "off i1" /\ src' = [src EXCEPT ![1] = "losc"] /\ ms_ticks' = ms_ticks
      BY <2>3 DEF OffSource, Go
    <3> QED  BY <3>1, <1>0 DEF ClockInv, Ref, Losc, Timer
  <2>4. CASE OffInterval("off i1", "idle", 1)
    <3>1. place = "off i1" /\ place' = "idle" /\ src' = src /\ ms_ticks' = [ms_ticks EXCEPT ![1] = Slow]
      BY <2>4 DEF OffInterval, Go
    <3> QED  BY <3>1, <1>0 DEF ClockInv, Ref, Losc, Timer
  <2>5. CASE HoscOn
    <3>1. place = "idle" /\ place' = "on s0" /\ src[0] = "losc" /\ src' = src /\ ms_ticks' = ms_ticks
      BY <2>5 DEF HoscOn, OnInterval, Call, Go, clk
    <3> QED  BY <3>1, <1>0 DEF ClockInv, Ref, Losc, Timer
  <2>6. CASE OnSource("on s0", "on i1", 0)
    <3>1. place = "on s0" /\ place' = "on i1" /\ src' = [src EXCEPT ![0] = "ref"] /\ ms_ticks' = [ms_ticks EXCEPT ![0] = Fast]
      BY <2>6 DEF OnSource, Go
    <3>2. /\ src'[0] = "ref" /\ src'[1] = src[1] /\ ms_ticks'[0] = Fast /\ ms_ticks'[1] = ms_ticks[1]
      <4>1. src' = [src EXCEPT ![0] = "ref"] /\ src \in [Timer -> {"ref", "losc", "other"}]
        BY <3>1, <1>0
      <4>2. ms_ticks' = [ms_ticks EXCEPT ![0] = Fast] /\ ms_ticks \in [Timer -> Nat]
        BY <3>1, <1>0
      <4>3. src'[0] = "ref" /\ src'[1] = src[1]
        BY ONLY <4>1 DEF Timer
      <4>4. ms_ticks'[0] = Fast /\ ms_ticks'[1] = ms_ticks[1]
        BY ONLY <4>2 DEF Timer
      <4> QED  BY <4>3, <4>4
    <3>3. Losc(1)
      BY <3>1, <1>0 DEF ClockInv
    <3> QED  BY <3>1, <3>2, <3>3 DEF ClockInv, Ref, Losc
  <2>7. CASE OnInterval("on i1", "on s1", 1)
    <3>1. place = "on i1" /\ place' = "on s1" /\ src' = src /\ ms_ticks' = ms_ticks
      BY <2>7 DEF OnInterval, Go, clk
    <3> QED  BY <3>1, <1>0 DEF ClockInv, Ref, Losc, Timer
  <2>8. CASE OnSource("on s1", "idle", 1)
    <3>1. place = "on s1" /\ place' = "idle" /\ src' = [src EXCEPT ![1] = "ref"] /\ ms_ticks' = [ms_ticks EXCEPT ![1] = Fast]
      BY <2>8 DEF OnSource, Go
    <3> QED  BY <3>1, <1>0 DEF ClockInv, Ref, Losc, Timer
  <2> QED  BY <1>6, <2>1, <2>2, <2>3, <2>4, <2>5, <2>6, <2>7, <2>8 DEF Hosc
<1>7. CASE Time \/ (\E t \in Timer : Isr(t)) \/ UNCHANGED timerVars
  <2>1. UNCHANGED <<place, src, ms_ticks>>
    BY <1>7 DEF Time, Isr, clk, timerVars
  <2> QED  BY <2>1, <1>0 DEF ClockInv, Ref, Losc
<1> QED  BY <1>2, <1>3, <1>4, <1>5, <1>6, <1>7, Steps

\* Every step keeps timer 1's interval at its period: the interval is scaled
\* down after the slow clock is selected and up before the fast one is.
LEMMA TimersPeriod == TimerIInv /\ [NextTimers]_timerVars => PeriodInv'
<1> SUFFICES ASSUME TimerIInv, [NextTimers]_timerVars PROVE PeriodInv'
  OBVIOUS
<1>0. TimerTypeOK /\ UseInv /\ QuietInv /\ ClockInv /\ PeriodInv
  BY DEF TimerIInv
<1>1. /\ arg \in [ms : Nat, mode : {"single", "period"}, t : Timer]
      /\ mode \in [Timer -> {"single", "period"}] /\ ivl \in [Timer -> Nat] /\ cnt \in [Timer -> Nat]
      /\ ms_ticks \in [Timer -> Nat] /\ want \in Nat
  BY <1>0 DEF TimerTypeOK
<1>2. ~ (0 > 0)
  OBVIOUS
<1>3. CASE Bits
  BY <1>0, <1>3, BitsMoves DEF PeriodInv, Fits
<1>4. CASE TimerInit
  <2>1. place' = "idle" /\ mode' = [mode EXCEPT ![0] = "single"] /\ want' = 0
    BY <1>4, <1>0 DEF TimerInit, Go, hist, UseInv
  <2>2. mode'[0] = "single" /\ mode'[1] = mode[1]
    BY <2>1, <1>1 DEF Timer
  <2> QED  BY <2>1, <2>2, <1>0, <1>2 DEF PeriodInv, Fits
<1>5. CASE Start
  <2>1. /\ place' = "reload" /\ place = "idle" /\ want' = 0 /\ mode' = mode
        /\ \E ms \in Periods : /\ ms > 0
                               /\ arg' = [ms |-> ms, mode |-> "period", t |-> 1]
                               /\ ivl' = [ivl EXCEPT ![1] = ms_ticks[1] * ms]
        /\ ms_ticks' = ms_ticks
    BY <1>5, <1>0 DEF Start, Call, Go, hist, clk
  <2> PICK ms \in Periods : /\ ms > 0
                            /\ arg' = [ms |-> ms, mode |-> "period", t |-> 1]
                            /\ ivl' = [ivl EXCEPT ![1] = ms_ticks[1] * ms]
    BY <2>1
  <2>2. arg'.ms = ms /\ arg'.mode = "period" /\ ivl'[1] = ms_ticks[1] * ms
    BY <1>1 DEF Timer
  <2>3. ms_ticks[1] * ms = ms * ms_ticks[1]
    BY <1>1, TimersAssumption DEF Timer
  <2> QED  BY <2>1, <2>2, <2>3, <1>0, <1>2 DEF PeriodInv, Fits
<1>6. CASE Reload
  <2>1. Poll("reload", "mode", "idle")
    BY <1>6 DEF Reload
  <2>2. place = "reload" /\ place' \in {"mode", "idle"}
    BY <2>1, <1>0, Polled DEF TimerTypeOK
  <2>3. UNCHANGED <<arg, mode, ivl, ms_ticks, want>> /\ cnt' = (IF place' = "mode" THEN [cnt EXCEPT ![1] = ivl[1]] ELSE cnt)
    BY <1>6 DEF Reload, clk, hist
  <2>4. place' = "mode" => cnt'[1] = ivl'[1]
    BY <2>3, <1>1 DEF Timer
  <2> QED  BY <2>2, <2>3, <2>4, <1>0 DEF PeriodInv, Fits
<1>7. CASE StartEnable
  <2>1. place = "enable" /\ place' = "idle" /\ UNCHANGED <<arg, mode, ivl, ms_ticks>> /\ want' = arg.ms
    BY <1>7 DEF StartEnable, Go, clk
  <2> QED  BY <2>1, <1>0 DEF PeriodInv, Fits
<1>8. CASE Stop("stop irq") \/ Stop("rel irq")
  <2>1. place = "idle" /\ place' \in {"stop irq", "rel irq"} /\ mode' = mode /\ want' = 0
    BY <1>8 DEF Stop, Call, Go
  <2> QED  BY <2>1, <1>0, <1>2 DEF PeriodInv, Fits
<1>9. CASE DelayAll
  <2>1. /\ place \in {"idle"} \cup Delaying /\ place' \in {"idle"} \cup Delaying
        /\ UNCHANGED <<mode, ms_ticks, want>> /\ ivl'[1] = ivl[1]
    BY <1>0, <1>9, DelayMoves
  <2> QED  BY <2>1, <1>0 DEF PeriodInv, Fits
<1>10. CASE Hosc
  <2>1. /\ place \in {"idle"} \cup Switching /\ place' \in {"idle"} \cup Switching
        /\ mode' = mode /\ want' = want
    BY <1>10, HoscMoves
  <2>2. (Fits => ivl'[1] = want * (IF place' = "on s1" THEN Fast ELSE ms_ticks'[1])) => PeriodInv'
    BY <2>1, <1>0 DEF PeriodInv, Fits
  <2> SUFFICES ASSUME Fits PROVE ivl'[1] = want * (IF place' = "on s1" THEN Fast ELSE ms_ticks'[1])
    BY <2>2
  <2>3. ivl[1] = want * (IF place = "on s1" THEN Fast ELSE ms_ticks[1])
    BY <1>0 DEF PeriodInv
  <2>4. CASE HoscOff \/ OffInterval("off i0", "off s1", 0) \/ OffSource("off s1", "off i1", 1)
    <3>1. place # "on s1" /\ place' # "on s1"
      BY <2>4 DEF HoscOff, OffInterval, OffSource, Call, Go
    <3>2. ivl' \in {ivl, [ivl EXCEPT ![0] = ivl[0] \div Ratio]} /\ ms_ticks' \in {ms_ticks, [ms_ticks EXCEPT ![0] = Slow]}
      BY <2>4 DEF HoscOff, OffInterval, OffSource, unit
    <3>3. ivl'[1] = ivl[1] /\ ms_ticks'[1] = ms_ticks[1]
      BY <3>2, <1>1 DEF Timer
    <3> QED  BY <2>3, <3>1, <3>3
  <2>5. CASE OffInterval("off i1", "idle", 1)
    <3>1. /\ place = "off i1" /\ place' = "idle" /\ ivl' = [ivl EXCEPT ![1] = ivl[1] \div Ratio]
          /\ ms_ticks' = [ms_ticks EXCEPT ![1] = Slow]
      BY <2>5 DEF OffInterval, Go
    <3>2. ivl'[1] = ivl[1] \div Ratio /\ ms_ticks'[1] = Slow
      BY <3>1, <1>1 DEF Timer
    <3>3. ivl[1] = want * Fast
      BY <2>3, <3>1, <1>0 DEF ClockInv
    <3>4. (want * Fast) \div Ratio = want * Slow
      BY <1>1, Scales
    <3> QED  BY <3>1, <3>2, <3>3, <3>4
  <2>6. CASE HoscOn \/ OnSource("on s0", "on i1", 0)
    <3>1. place # "on s1" /\ place' # "on s1"
      BY <2>6 DEF HoscOn, OnInterval, OnSource, Call, Go
    <3>2. ivl' \in {ivl, [ivl EXCEPT ![0] = (ivl[0] * Ratio) % (MaxCount + 1)]}
          /\ ms_ticks' \in {ms_ticks, [ms_ticks EXCEPT ![0] = Fast]}
      BY <2>6 DEF HoscOn, OnInterval, OnSource, unit, clk
    <3>3. ivl'[1] = ivl[1] /\ ms_ticks'[1] = ms_ticks[1]
      BY <3>2, <1>1 DEF Timer
    <3> QED  BY <2>3, <3>1, <3>3
  <2>7. CASE OnInterval("on i1", "on s1", 1)
    <3>1. place = "on i1" /\ place' = "on s1" /\ ivl' = [ivl EXCEPT ![1] = (ivl[1] * Ratio) % (MaxCount + 1)]
      BY <2>7 DEF OnInterval, Go
    <3>2. ivl'[1] = (ivl[1] * Ratio) % (MaxCount + 1)
      BY <3>1, <1>1 DEF Timer
    <3>3. ivl[1] = want * Slow
      BY <2>3, <3>1, <1>0 DEF ClockInv, Losc
    <3>4. (want * Slow * Ratio) % (MaxCount + 1) = want * Fast
      BY <1>1, Scales DEF Fits
    <3> QED  BY <3>1, <3>2, <3>3, <3>4
  <2>8. CASE OnSource("on s1", "idle", 1)
    <3>1. place = "on s1" /\ place' = "idle" /\ ivl' = ivl /\ ms_ticks' = [ms_ticks EXCEPT ![1] = Fast]
      BY <2>8 DEF OnSource, Go, unit
    <3>2. ms_ticks'[1] = Fast
      BY <3>1, <1>1 DEF Timer
    <3> QED  BY <3>1, <3>2, <2>3
  <2> QED  BY <1>10, <2>4, <2>5, <2>6, <2>7, <2>8 DEF Hosc
<1>11. CASE Time
  <2>1. /\ UNCHANGED <<place, arg, mode, ivl, ms_ticks, want>>
        /\ cnt' = [t \in Timer |->
                     IF Expires(t) THEN (IF mode[t] = "period" THEN ivl[t] ELSE 0)
                     ELSE IF Counts(t) THEN cnt[t] - 1 ELSE cnt[t]]
    BY <1>11 DEF Time, clk
  <2>2. want = 0 => ~ Counts(1) /\ ~ Expires(1)
    BY <1>0, <1>2 DEF QuietInv, Counts, Expires
  <2>3. want = 0 => cnt'[1] = cnt[1]
    BY <2>1, <2>2 DEF Timer
  <2>4. place \in Starting => want = 0
    BY <1>0 DEF UseInv
  <2> QED  BY <2>1, <2>3, <2>4, <1>0 DEF PeriodInv, Fits
<1>12. CASE (\E t \in Timer : Isr(t)) \/ UNCHANGED timerVars
  <2>1. UNCHANGED <<place, arg, mode, ivl, ms_ticks, want, cnt>>
    BY <1>12 DEF Isr, clk, timerVars
  <2> QED  BY <2>1, <1>0 DEF PeriodInv, Fits
<1> QED
  BY <1>3, <1>4, <1>5, <1>6, <1>7, <1>8, <1>9, <1>10, <1>11, <1>12, Steps

-----------------------------------------------------------------------------
(* Time. *)

\* A timer that counts has at least one period of the fast clock left, exactly
\* one when it expires, and one less after every other one.
LEMMA TimeLeft ==
  ASSUME TimerTypeOK, NEW t \in Timer, Time, src[t] \in {"ref", "losc"}, t \in en \ dead, cnt[t] > 0
  PROVE  /\ Left(t) \in Nat /\ Left(t) >= 1
         /\ Expires(t) => Left(t) = 1
         /\ ~ Expires(t) => cnt'[t] > 0 /\ Left(t)' = Left(t) - 1
         /\ Expires(t) /\ src[t] = "losc" => phase' = 0
<1>0. /\ cnt[t] \in Nat /\ phase \in Nat /\ phase <= Ratio - 1 /\ Ratio \in Nat \ {0}
  BY TimersAssumption DEF TimerTypeOK
<1> DEFINE c == cnt[t]
           p == c * Ratio
<1>1. p \in Nat /\ p >= Ratio /\ (c - 1) * Ratio = p - Ratio
  BY <1>0, SlowCount
<1>2. src' = src /\ phase' = (phase + 1) % Ratio
  BY DEF Time, clk
<1>3. cnt'[t] = IF Expires(t) THEN (IF mode[t] = "period" THEN ivl[t] ELSE 0)
                ELSE IF Counts(t) THEN cnt[t] - 1 ELSE cnt[t]
  BY DEF Time
<1>4. phase' = IF phase = Ratio - 1 THEN 0 ELSE phase + 1
  <2>1. \A x \in Nat : x < Ratio => x % Ratio = x
    BY <1>0
  <2>2. Ratio % Ratio = 0
    BY <1>0
  <2>3. CASE phase = Ratio - 1
    <3>1. phase + 1 = Ratio
      BY <2>3, <1>0
    <3> QED  BY <2>2, <2>3, <3>1, <1>2
  <2>4. CASE phase # Ratio - 1
    <3>1. phase + 1 \in Nat /\ phase + 1 < Ratio
      BY <2>4, <1>0
    <3> QED  BY <2>1, <2>4, <3>1, <1>2
  <2> QED  BY <2>3, <2>4
<1>5. CASE src[t] = "ref"
  <2>1. Left(t) = c /\ Left(t)' = cnt'[t]
    BY <1>2, <1>5 DEF Left
  <2>2. Counts(t) /\ (Expires(t) <=> c = 1) /\ src[t] # "losc"
    BY <1>5 DEF Counts, Expires
  <2>3. c # 1 => cnt'[t] = c - 1
    BY <1>3, <2>2
  <2> QED  BY <1>0, <2>1, <2>2, <2>3
<1>6. CASE src[t] = "losc"
  <2>1. Left(t) = p - phase /\ Left(t)' = cnt'[t] * Ratio - phase'
    BY <1>2, <1>6 DEF Left
  <2>2. (Counts(t) <=> phase = Ratio - 1) /\ (Expires(t) <=> phase = Ratio - 1 /\ c = 1)
    BY <1>6 DEF Counts, Expires
  <2>3. Left(t) \in Nat /\ Left(t) >= 1
    BY <1>0, <1>1, <2>1
  <2>4. CASE phase = Ratio - 1
    <3>1. phase' = 0
      BY <1>4, <2>4
    <3>2. CASE c = 1
      <4>1. p = Ratio
        BY <1>0, <3>2
      <4>2. Left(t) = 1
        BY <1>0, <2>1, <2>4, <4>1
      <4> QED  BY <2>2, <2>3, <2>4, <3>1, <3>2, <4>2
    <3>3. CASE c # 1
      <4>1. cnt'[t] = c - 1 /\ ~ Expires(t)
        BY <1>3, <2>2, <2>4, <3>3
      <4>2. cnt'[t] > 0
        BY <4>1, <3>3, <1>0
      <4>3. Left(t)' = Left(t) - 1
        BY <1>0, <1>1, <2>1, <2>4, <3>1, <4>1
      <4> QED  BY <2>3, <4>1, <4>2, <4>3
    <3> QED  BY <3>2, <3>3
  <2>5. CASE phase # Ratio - 1
    <3>1. cnt'[t] = c /\ phase' = phase + 1 /\ ~ Expires(t)
      BY <1>3, <1>4, <2>2, <2>5
    <3>2. Left(t)' = Left(t) - 1
      <4>1. Left(t)' = p - (phase + 1)
        BY <2>1, <3>1
      <4> HIDE DEF p
      <4>2. p - (phase + 1) = (p - phase) - 1
        <5>1. p \in Int /\ phase \in Int
          BY <1>0, <1>1
        <5> QED  BY ONLY <5>1
      <4> QED  BY <4>1, <4>2, <2>1
    <3> QED  BY <2>3, <3>1, <3>2
  <2> QED  BY <2>4, <2>5
<1> QED  BY <1>5, <1>6

\* A timer loaded with m milliseconds of its clock expires after m, less than
\* one slow count early.
LEMMA LoadedLeft ==
  ASSUME TimerTypeOK, NEW t \in Timer, Ref(t) \/ Losc(t), NEW m \in Nat, m > 0, cnt[t] = m * ms_ticks[t]
  PROVE  /\ cnt[t] > 0 /\ Left(t) <= m * Fast /\ Left(t) + Ratio > m * Fast
         /\ Left(t) \in Int
<1>0. /\ phase \in Nat /\ phase <= Ratio - 1 /\ Ratio \in Nat \ {0} /\ Slow \in Nat \ {0}
  BY TimersAssumption DEF TimerTypeOK
<1>1. m * Fast \in Nat /\ m * Slow \in Nat /\ m * Fast = (m * Slow) * Ratio /\ Fast \in Nat \ {0}
  BY Scales
<1>2. \A x \in Nat \ {0} : m * x > 0
  OBVIOUS
<1>3. CASE Ref(t)
  <2>1. Left(t) = cnt[t] /\ cnt[t] = m * Fast
    BY <1>3 DEF Ref, Left
  <2> QED  BY <2>1, <1>0, <1>1, <1>2
<1>4. CASE Losc(t)
  <2>1. Left(t) = cnt[t] * Ratio - phase /\ cnt[t] = m * Slow
    BY <1>4 DEF Losc, Left
  <2>2. Left(t) = m * Fast - phase
    BY <2>1, <1>1
  <2> QED  BY <2>1, <2>2, <1>0, <1>1, <1>2
<1> QED  BY <1>3, <1>4

\* Every step keeps what is left of timer 1's period.
LEMMA TimersTick == TimerIInv /\ [NextTimers]_timerVars => TickInv'
<1> SUFFICES ASSUME TimerIInv, [NextTimers]_timerVars, ~ switched', Fits'
             PROVE  /\ place' \notin {"off i1", "on s1"} /\ cnt'[1] > 0
                    /\ since' + Left(1)' <= want' * Fast
                    /\ since' + Left(1)' + Ratio > want' * Fast
  BY DEF TickInv
<1>0. TimerTypeOK /\ UseInv /\ QuietInv /\ ClockInv /\ PeriodInv /\ TickInv
  BY DEF TimerIInv
<1>1. /\ want \in Nat /\ since \in Nat /\ arg.ms \in Nat /\ 1 \in Timer /\ Ratio \in Nat \ {0}
      /\ MaxCount \in Nat
  BY <1>0, TimersAssumption DEF TimerTypeOK, Timer
<1>2. ASSUME UNCHANGED <<phase, since, want>>, src'[1] = src[1], cnt'[1] = cnt[1], ~ switched,
             place' \notin {"off i1", "on s1"}
      PROVE  /\ place' \notin {"off i1", "on s1"} /\ cnt'[1] > 0
             /\ since' + Left(1)' <= want' * Fast
             /\ since' + Left(1)' + Ratio > want' * Fast
  <2>1. Fits /\ Left(1)' = Left(1)
    BY <1>2 DEF Fits, Left
  <2> QED  BY <2>1, <1>0, <1>2 DEF TickInv
<1>3. want' # 0
  BY DEF Fits
<1>4. CASE Bits
  BY <1>0, <1>2, <1>4, BitsMoves
<1>5. ~ TimerInit /\ ~ Start /\ ~ Reload /\ ~ Stop("stop irq") /\ ~ Stop("rel irq")
  <2>1. ~ TimerInit /\ ~ Start /\ ~ Stop("stop irq") /\ ~ Stop("rel irq")
    BY <1>0, <1>3 DEF UseInv, TimerInit, Start, Stop, Go, hist
  <2>2. ASSUME Reload PROVE FALSE
    <3>1. Poll("reload", "mode", "idle") /\ want' = want
      BY <2>2 DEF Reload, hist
    <3>2. place = "reload"
      BY <3>1, <1>0, Polled DEF TimerTypeOK
    <3> QED  BY <3>1, <3>2, <1>0, <1>3 DEF UseInv
  <2> QED  BY <2>1, <2>2
<1>6. CASE StartEnable
  <2>1. /\ place = "enable" /\ place' = "idle" /\ want' = arg.ms /\ since' = 0
        /\ UNCHANGED <<src, cnt, phase>>
    BY <1>6 DEF StartEnable, Go, clk, time
  <2>2. cnt[1] = arg.ms * ms_ticks[1] /\ arg.ms > 0
    BY <2>1, <1>0 DEF PeriodInv
  <2>3. Ref(1) \/ Losc(1)
    BY <2>1, <1>0 DEF ClockInv
  <2>4. cnt[1] > 0 /\ Left(1) <= arg.ms * Fast /\ Left(1) + Ratio > arg.ms * Fast /\ Left(1) \in Int
    BY <2>2, <2>3, <1>0, <1>1, LoadedLeft
  <2>5. Left(1)' = Left(1)
    BY <2>1 DEF Left
  <2>6. since' + Left(1)' = Left(1)
    BY <2>1, <2>4, <2>5
  <2> QED  BY <2>1, <2>4, <2>6
<1>7. CASE DelayAll
  BY <1>0, <1>2, <1>7, DelayMoves
<1>8. CASE Hosc
  <2>1. UNCHANGED <<cnt, phase, since, want>>
    BY <1>8, HoscMoves
  <2>2. CASE HoscOff \/ OnSource("on s0", "on i1", 0)
    <3>1. place' \in {"off i0", "on i1"} /\ (switched' = (switched \/ 0 = 1))
      BY <2>2 DEF HoscOff, OffSource, OnSource, Call, Go
    <3>2. 0 # 1
      OBVIOUS
    <3>3. ~ switched
      BY <3>1, <3>2
    <3>4. src' \in {[src EXCEPT ![0] = "losc"], [src EXCEPT ![0] = "ref"]}
      BY <2>2 DEF HoscOff, OffSource, OnSource
    <3>5. src'[1] = src[1]
      <4>1. src \in [Timer -> {"ref", "losc", "other"}]
        BY <1>0 DEF TimerTypeOK
      <4> QED  BY ONLY <4>1, <3>4 DEF Timer
    <3> QED  BY <2>1, <3>1, <3>3, <3>5, <1>2
  <2>3. CASE HoscOn
    <3>1. place' = "on s0" /\ (switched' = (switched \/ 0 = 1)) /\ src' = src
      BY <2>3 DEF HoscOn, OnInterval, Call, Go, clk
    <3>2. 0 # 1
      OBVIOUS
    <3>3. ~ switched
      BY <3>1, <3>2
    <3> QED  BY <2>1, <3>1, <3>3, <1>2
  <2>4. CASE OffInterval("off i0", "off s1", 0)
    <3>1. place' = "off s1" /\ src' = src /\ switched' = switched
      BY <2>4 DEF OffInterval, Go, hist
    <3> QED  BY <2>1, <3>1, <1>2
  <2>5. ~ OffInterval("off i1", "idle", 1)
    <3> SUFFICES ASSUME OffInterval("off i1", "idle", 1) PROVE FALSE
      OBVIOUS
    <3>1. place = "off i1" /\ switched' = switched
      BY DEF OffInterval, Go, hist
    <3>2. Fits
      BY <2>1 DEF Fits
    <3> QED  BY <3>1, <3>2, <1>0 DEF TickInv
  <2>6. ~ OffSource("off s1", "off i1", 1) /\ ~ OnInterval("on i1", "on s1", 1) /\ ~ OnSource("on s1", "idle", 1)
    BY DEF OffSource, OnInterval, OnSource
  <2> QED  BY <1>8, <2>2, <2>3, <2>4, <2>5, <2>6 DEF Hosc
<1>9. CASE Time
  <2>1. UNCHANGED <<place, src, want, ms_ticks>> /\ (switched' = (switched /\ (Expires(1) => place \in {"off i1", "on s1"})))
    BY <1>9 DEF Time, clk
  <2>2. Fits /\ want > 0
    BY <2>1 DEF Fits
  <2>3. place \notin {"boot", "off i1", "on s1"}
    BY <2>1, <2>2, <1>0, <1>9 DEF TickInv, Time
  <2>4. Ref(1) \/ Losc(1)
    BY <2>3, <1>0 DEF ClockInv, TimerTypeOK, Pcs
  <2>5. src[1] \in {"ref", "losc"} /\ 1 \in en \ dead
    <3>1. 1 \in en
      BY <2>2, <1>0 DEF QuietInv
    <3>2. dead \subseteq {0}
      BY <1>0 DEF TimerTypeOK
    <3> QED  BY <2>4, <3>1, <3>2 DEF Ref, Losc
  <2>6. CASE Expires(1)
    <3>1. since' = 0 /\ cnt'[1] = ivl[1]
      BY <2>6, <1>9, <1>0, <1>1 DEF Time, PeriodInv
    <3>2. ivl[1] = want * ms_ticks[1]
      BY <2>2, <2>3, <1>0 DEF PeriodInv
    <3>3. cnt[1] > 0
      BY <2>6 DEF Expires, Counts
    <3>4. src[1] = "losc" => phase' = 0
      BY <2>5, <2>6, <3>3, <1>0, <1>1, <1>9, TimeLeft
    <3>5. want * Fast \in Nat /\ want * Slow \in Nat /\ want * Fast = (want * Slow) * Ratio
          /\ Fast \in Nat \ {0} /\ Slow \in Nat \ {0}
      BY <1>1, Scales, TimersAssumption
    <3>6. \A x \in Nat \ {0} : want * x > 0
      BY <1>1, <2>2
    <3>7. Left(1)' = want * Fast /\ cnt'[1] > 0
      <4>1. CASE Ref(1)
        BY <4>1, <2>1, <3>1, <3>2, <3>5, <3>6 DEF Ref, Left
      <4>2. CASE Losc(1)
        <5>1. src'[1] # "ref" /\ phase' = 0 /\ cnt'[1] = want * Slow
          BY <4>2, <2>1, <3>1, <3>2, <3>4 DEF Losc
        <5>2. Left(1)' = cnt'[1] * Ratio - phase'
          BY <5>1 DEF Left
        <5> QED  BY <5>1, <5>2, <3>5, <3>6
      <4> QED  BY <2>4, <4>1, <4>2
    <3>8. want' * Fast = want * Fast
      BY <2>1
    <3>9. since' + Left(1)' = want * Fast
      BY <3>1, <3>5, <3>7
    <3>10. since' + Left(1)' <= want' * Fast /\ since' + Left(1)' + Ratio > want' * Fast
      BY <3>5, <3>8, <3>9, <1>1
    <3> QED  BY <2>1, <2>3, <3>7, <3>10
  <2>7. CASE ~ Expires(1)
    <3>1. ~ switched
      BY <2>1, <2>7
    <3>2. /\ cnt[1] > 0 /\ since + Left(1) <= want * Fast /\ since + Left(1) + Ratio > want * Fast
      BY <3>1, <2>2, <1>0 DEF TickInv
    <3>3. Left(1) \in Nat /\ Left(1) >= 1 /\ cnt'[1] > 0 /\ Left(1)' = Left(1) - 1
      BY <2>5, <2>7, <3>2, <1>0, <1>1, <1>9, TimeLeft
    <3>4. want * Fast <= MaxCount /\ want * Fast \in Nat
      BY <2>2, <1>1, Scales DEF Fits
    <3>5. since < Cap
      BY <3>2, <3>3, <3>4, <1>1, CapHigh
    <3>6. since' = since + 1
      <4>1. since' = Up(since)
        BY <2>1, <2>7, <1>3, <1>9 DEF Time
      <4> QED  BY <3>5, <4>1 DEF Up
    <3>7. since' + Left(1)' = since + Left(1)
      BY <3>3, <3>6, <1>1
    <3> QED  BY <2>1, <2>3, <3>2, <3>3, <3>7
  <2> QED  BY <2>6, <2>7
<1>10. CASE (\E t \in Timer : Isr(t)) \/ UNCHANGED timerVars
  <2>1. UNCHANGED <<place, src, cnt, phase, since, switched, want>>
    BY <1>10 DEF Isr, clk, time, timerVars
  <2>2. place \notin {"off i1", "on s1"}
    BY <2>1, <1>0 DEF TickInv, Fits
  <2> QED  BY <2>1, <2>2, <1>2
<1> QED  BY <1>4, <1>5, <1>6, <1>7, <1>8, <1>9, <1>10, Steps

\* What the lengths of a delay need of the order of the numbers.
LEMMA Orders ==
  /\ \A a, b, c \in Nat : a <= b /\ c > b => a < c
  /\ \A a, b, c, d \in Nat : a + b > c /\ d >= a => d + b > c
<1>1. \A a, b, c \in Nat : a <= b /\ c > b => a < c
  OBVIOUS
<1>2. \A a, b, c, d \in Nat : a + b > c /\ d >= a => d + b > c
  OBVIOUS
<1> QED  BY <1>1, <1>2

\* The bounded counters of time keep their order.
LEMMA UpKeeps == \A m, n \in Nat : m <= n => Up(m) <= Up(n)
<1> SUFFICES ASSUME NEW m \in Nat, NEW n \in Nat, m <= n PROVE Up(m) <= Up(n)
  OBVIOUS
<1>1. Cap \in Nat
  BY CapHigh
<1> HIDE DEF Cap
<1>2. CASE m < Cap
  BY <1>1, <1>2 DEF Up
<1>3. CASE ~ (m < Cap)
  <2>1. ~ (n < Cap)
    BY <1>1, <1>3
  <2> QED  BY <1>3, <2>1 DEF Up
<1> QED  BY <1>2, <1>3

\* Every step keeps what is left of a delay, and a delay that ends has lasted.
LEMMA TimersDelay == TimerIInv /\ [NextTimers]_timerVars => DelayInv'
<1> SUFFICES ASSUME TimerIInv, [NextTimers]_timerVars PROVE DelayInv'
  OBVIOUS
<1>0. TimerTypeOK /\ UseInv /\ QuietInv /\ ClockInv /\ DelayInv
  BY DEF TimerIInv
<1>1. /\ waited \in Nat /\ counted \in Nat /\ arg.ms \in Nat /\ 0 \in Timer /\ Ratio \in Nat \ {0}
      /\ MaxCount \in Nat /\ ms_ticks \in [Timer -> Nat] /\ ivl \in [Timer -> Nat] /\ cnt \in [Timer -> Nat]
      /\ arg \in [ms : Nat, mode : {"single", "period"}, t : Timer]
  BY <1>0, TimersAssumption DEF TimerTypeOK, Timer
<1>2. arg.ms * Fast \in Nat /\ Fast \in Nat \ {0}
  BY <1>1, Scales
<1>3. place' \notin Delaying => DelayInv'
  BY DEF DelayInv
<1>4. CASE Bits
  BY <1>0, <1>3, <1>4, BitsMoves
<1>5. CASE TimerInit \/ Start \/ StartEnable \/ Stop("stop irq") \/ Stop("rel irq")
  BY <1>3, <1>5 DEF TimerInit, Start, StartEnable, Stop, Call, Go
<1>6. CASE Reload
  <2>1. Poll("reload", "mode", "idle")
    BY <1>6 DEF Reload
  <2>2. place' \in {"mode", "idle"}
    BY <2>1, <1>0, Polled DEF TimerTypeOK
  <2> QED  BY <2>2, <1>3
<1>7. CASE Hosc
  BY <1>3, <1>7, HoscMoves
<1>8. place \in Delaying => Ref(0) \/ Losc(0)
  BY <1>0 DEF ClockInv
<1>9. CASE DelayAll
  <2>1. CASE DelayNone \/ DelayClear
    BY <1>3, <2>1 DEF DelayNone, DelayClear, Call, Go
  <2>2. CASE Delay
    <3> PICK ms \in Delays : /\ ms > 0 /\ ms_ticks[0] * ms <= MaxCount
                             /\ arg' = [arg EXCEPT !.ms = ms]
                             /\ ivl' = [ivl EXCEPT ![0] = ms_ticks[0] * ms]
      BY <2>2 DEF Delay
    <3>1. place' = "d reload" /\ ms_ticks' = ms_ticks
      BY <2>2 DEF Delay, Call, Go, clk
    <3>2. arg'.ms = ms /\ ivl'[0] = ms_ticks[0] * ms
      BY <1>1
    <3>3. ms_ticks[0] * ms = ms * ms_ticks[0]
      BY <1>1, TimersAssumption
    <3> QED  BY <3>1, <3>2, <3>3 DEF DelayInv
  <2>3. CASE DelayReload
    <3>1. Poll("d reload", "d ack", "idle") /\ UNCHANGED <<arg, ivl, ms_ticks>>
          /\ cnt' = (IF place' = "d ack" THEN [cnt EXCEPT ![0] = ivl[0]] ELSE cnt)
      BY <2>3 DEF DelayReload, clk
    <3>2. place = "d reload" /\ place' \in {"d ack", "idle"}
      BY <3>1, <1>0, Polled DEF TimerTypeOK
    <3>3. place' = "d ack" => cnt'[0] = ivl[0]
      BY <3>1, <1>1
    <3> QED  BY <3>1, <3>2, <3>3, <1>0 DEF DelayInv
  <2>4. CASE DelayAck
    <3>1. /\ place = "d ack" /\ place' = "d enable" /\ pending' = pending \ {0}
          /\ UNCHANGED <<arg, ivl, cnt, ms_ticks>>
      BY <2>4 DEF DelayAck, Go, clk
    <3> QED  BY <3>1, <1>0 DEF DelayInv
  <2>5. CASE DelayEnable
    <3>1. /\ place = "d enable" /\ place' = "d deadline" /\ waited' = 0
          /\ UNCHANGED <<arg, ivl, cnt, ms_ticks, src, phase, pending, dead>>
      BY <2>5 DEF DelayEnable, Go, clk, time
    <3>2. arg.ms > 0 /\ cnt[0] = arg.ms * ms_ticks[0] /\ 0 \notin pending
      BY <3>1, <1>0 DEF DelayInv
    <3>3. cnt[0] > 0 /\ Left(0) + Ratio > arg.ms * Fast /\ Left(0) \in Int
      BY <3>1, <3>2, <1>0, <1>1, <1>8, LoadedLeft
    <3>4. Left(0)' = Left(0)
      BY <3>1 DEF Left
    <3>5. waited' + Left(0)' + Ratio > arg.ms * Fast
      <4>1. 0 + Left(0) = Left(0)
        BY <3>3
      <4> QED  BY <4>1, <3>1, <3>3, <3>4
    <3> QED  BY <3>1, <3>2, <3>3, <3>5, <1>0 DEF DelayInv
  <2>6. CASE DelayDeadline
    <3>1. /\ place = "d deadline" /\ place' = "d wait" /\ counted' = 0
          /\ UNCHANGED <<arg, ivl, cnt, ms_ticks, src, phase, pending, dead, waited>>
      BY <2>6 DEF DelayDeadline, Go, unit, clk, time
    <3>2. counted' <= waited'
      <4>1. \A n \in Nat : 0 <= n
        OBVIOUS
      <4>2. waited' \in Nat /\ counted' = 0
        BY <3>1, <1>1
      <4> QED  BY ONLY <4>1, <4>2
    <3> QED  BY <3>1, <3>2, <1>0 DEF DelayInv, Lasted, Left
  <2>7. CASE DelayWait
    <3>1. /\ place = "d wait" /\ place' = "d stop" /\ UNCHANGED <<arg, waited>>
          /\ (0 \in pending \/ counted >= (arg.ms + 1) * Fast)
      BY <2>7 DEF DelayWait, Go, hist
    <3>2. Lasted
      <4>1. counted >= (arg.ms + 1) * Fast => Lasted
        <5>1. (arg.ms + 1) * Fast = arg.ms * Fast + Fast
          BY <1>1, <1>2
        <5>2. counted <= waited
          BY <3>1, <1>0 DEF DelayInv
        <5> QED  BY <5>1, <5>2, <1>1, <1>2 DEF Lasted
      <4> QED  BY <3>1, <4>1, <1>0 DEF DelayInv
    <3> QED  BY <3>1, <3>2 DEF DelayInv, Lasted
  <2>8. CASE DelayStop
    BY <2>8 DEF DelayInv, DelayStop, Go
  <2> QED  BY <1>9, <2>1, <2>2, <2>3, <2>4, <2>5, <2>6, <2>7, <2>8 DEF DelayAll
<1>10. CASE Time
  <2>1. /\ UNCHANGED <<place, arg, ivl, ms_ticks, dead, en>>
        /\ pending' = pending \cup {t \in Timer : Expires(t)}
    BY <1>10 DEF Time, clk
  <2>2. place \in {"d ack", "d enable"} => cnt'[0] = cnt[0] /\ ~ Expires(0)
    <3> SUFFICES ASSUME place \in {"d ack", "d enable"} PROVE cnt'[0] = cnt[0] /\ ~ Expires(0)
      OBVIOUS
    <3>1. ~ Counts(0) /\ ~ Expires(0)
      BY <1>0 DEF QuietInv, Counts, Expires
    <3> QED  BY <3>1, <1>1, <1>10 DEF Time
  <2>3. place \in {"d deadline", "d wait", "d stop"} => waited' = Up(waited)
    BY <1>0, <1>10 DEF Time, QuietInv
  <2>4. \A n \in Nat : Up(n) \in Nat /\ Up(n) >= n /\ (Up(n) = n + 1 \/ n >= Cap)
    BY CapHigh DEF Up
  <2>5. place \in {"d deadline", "d wait"} => arg.ms * Fast < Cap
    <3> SUFFICES ASSUME place \in {"d deadline", "d wait"} PROVE arg.ms * Fast < Cap
      OBVIOUS
    <3>1. arg.ms * ms_ticks[0] <= MaxCount
      BY <1>0 DEF DelayInv
    <3>2. CASE Ref(0)
      <4>1. arg.ms * Fast <= MaxCount
        BY <3>1, <3>2 DEF Ref
      <4>2. arg.ms * Fast \in Nat /\ MaxCount \in Nat
        BY <1>1, Scales, TimersAssumption
      <4> DEFINE x == arg.ms * Fast
      <4> HIDE DEF x
      <4>3. x \in Nat /\ x <= MaxCount
        BY <4>1, <4>2 DEF x
      <4>4. Cap \in Nat /\ Cap > MaxCount
        BY CapHigh
      <4>6. x < Cap
        BY ONLY <4>2, <4>3, <4>4, Orders
      <4> QED  BY <4>6 DEF x
    <3>3. CASE Losc(0)
      <4>1. arg.ms * Slow <= MaxCount
        BY <3>1, <3>3 DEF Losc
      <4> QED  BY <4>1, <1>1, CapHigh
    <3> QED  BY <3>2, <3>3, <1>8
  <2>6. place \in {"d deadline", "d wait", "d stop"} /\ Lasted => Lasted'
    <3> SUFFICES ASSUME place \in {"d deadline", "d wait", "d stop"}, Lasted PROVE Lasted'
      OBVIOUS
    <3>1. waited' \in Nat /\ waited' >= waited
      BY <2>3, <2>4, <1>1
    <3>2. arg'.ms * Fast = arg.ms * Fast
      BY <2>1
    <3>3. waited + Ratio > arg.ms * Fast
      BY DEF Lasted
    <3>4. waited' + Ratio > arg.ms * Fast
      <4>1. arg.ms * Fast \in Nat /\ Ratio \in Nat /\ waited \in Nat
        BY <1>1, Scales, TimersAssumption
      <4> DEFINE x == arg.ms * Fast
      <4> HIDE DEF x
      <4>2. x \in Nat /\ waited + Ratio > x
        BY <4>1, <3>3 DEF x
      <4>4. waited' + Ratio > x
        BY ONLY <4>1, <4>2, <3>1, Orders
      <4> QED  BY <4>4 DEF x
    <3> QED  BY <3>2, <3>4 DEF Lasted
  <2>7. ASSUME place \in {"d deadline", "d wait"}, 0 \notin pending \cup dead
        PROVE  /\ Expires(0) => Lasted'
               /\ ~ Expires(0) => cnt'[0] > 0 /\ waited' + Left(0)' + Ratio > arg.ms * Fast
    <3>1. cnt[0] > 0 /\ waited + Left(0) + Ratio > arg.ms * Fast
      BY <2>7, <1>0 DEF DelayInv
    <3>2. src[0] \in {"ref", "losc"}
      BY <2>7, <1>8 DEF Ref, Losc
    <3>3. 0 \in en \ dead
      BY <2>7, <1>0 DEF QuietInv
    <3>4. /\ Left(0) \in Nat /\ Left(0) >= 1 /\ (Expires(0) => Left(0) = 1)
          /\ ~ Expires(0) => cnt'[0] > 0 /\ Left(0)' = Left(0) - 1
      BY <3>1, <3>2, <3>3, <1>0, <1>1, <1>10, TimeLeft
    <3>5. waited' \in Nat /\ (waited' = waited + 1 \/ waited' >= Cap)
      <4>1. waited' = Up(waited)
        BY <2>3, <2>7
      <4>2. Up(waited) \in Nat /\ Up(waited) >= waited /\ (Up(waited) = waited + 1 \/ waited >= Cap)
        BY <2>4, <1>1
      <4>3. waited >= Cap => Up(waited) >= Cap
        BY <4>2, <1>1, CapHigh
      <4> QED  BY <4>1, <4>2, <4>3
    <3>6. arg.ms * Fast < Cap /\ Cap \in Nat
      BY <2>5, <2>7, CapHigh
    <3>7. ASSUME Expires(0) PROVE Lasted'
      <4>1. waited + 1 + Ratio > arg.ms * Fast
        BY <3>1, <3>4, <3>7
      <4>2. waited' + Ratio > arg.ms * Fast
        BY <4>1, <3>5, <3>6, <1>1, <1>2
      <4>3. arg'.ms * Fast = arg.ms * Fast
        BY <2>1
      <4> QED  BY <4>2, <4>3 DEF Lasted
    <3>8. ASSUME ~ Expires(0) PROVE waited' + Left(0)' + Ratio > arg.ms * Fast
      <4>1. Left(0)' = Left(0) - 1
        BY <3>4, <3>8
      <4> QED  BY <4>1, <3>1, <3>4, <3>5, <3>6, <1>1, <1>2
    <3> QED  BY <3>4, <3>7, <3>8
  <2>8. place = "d wait" => counted' <= waited'
    <3> SUFFICES ASSUME place = "d wait" PROVE counted' <= waited'
      OBVIOUS
    <3>1. counted <= waited /\ counted' = Up(counted) /\ waited' = Up(waited)
      BY <2>3, <1>0, <1>10 DEF DelayInv, Time
    <3>2. \A m, n \in Nat : m <= n => Up(m) <= Up(n)
      BY UpKeeps
    <3>3. counted \in Nat /\ waited \in Nat
      BY <1>1
    <3> QED  BY ONLY <3>1, <3>2, <3>3
  <2>9. ASSUME place \in {"d deadline", "d wait"}
        PROVE  /\ 0 \in pending' => Lasted'
               /\ 0 \notin pending' \cup dead' =>
                    cnt'[0] > 0 /\ waited' + Left(0)' + Ratio > arg'.ms * Fast
    <3>1. Expires(0) => 0 \notin dead
      BY DEF Expires, Counts
    <3>2. 0 \in pending' <=> (0 \in pending \/ Expires(0))
      BY <2>1, <1>1
    <3>3. 0 \in pending => Lasted
      BY <2>9, <1>0 DEF DelayInv
    <3>4. arg'.ms * Fast = arg.ms * Fast /\ dead' = dead
      BY <2>1
    <3> QED  BY <2>6, <2>7, <2>9, <3>1, <3>2, <3>3, <3>4
  <2>10. place = "d enable" => 0 \notin pending'
    BY <2>1, <2>2, <1>0 DEF DelayInv
  <2>11. place = "d stop" => Lasted'
    BY <2>6, <1>0 DEF DelayInv
  <2> QED  BY <2>1, <2>2, <2>8, <2>9, <2>10, <2>11, <1>0 DEF DelayInv
<1>11. CASE (\E t \in Timer : Isr(t)) \/ UNCHANGED timerVars
  <2>1. UNCHANGED <<place, arg, ivl, cnt, ms_ticks, src, phase, dead, waited, counted>>
    BY <1>11 DEF Isr, clk, time, timerVars
  <2>2. 0 \in pending' <=> 0 \in pending
    <3>1. CASE \E t \in Timer : Isr(t)
      <4> PICK t \in Timer : Isr(t)
        BY <3>1
      <4>1. t \in irq /\ irq \subseteq {1} /\ pending' = pending \ {t}
        BY <1>0 DEF Isr, UseInv
      <4> QED  BY <4>1
    <3>2. CASE UNCHANGED timerVars
      BY <3>2 DEF timerVars
    <3> QED  BY <1>11, <3>1, <3>2
  <2> QED  BY <2>1, <2>2, <1>0 DEF DelayInv, Lasted, Left
<1> QED  BY <1>4, <1>5, <1>6, <1>7, <1>9, <1>10, <1>11, Steps

-----------------------------------------------------------------------------
(***************************************************************************)
(* Whenever time passes and the interrupt is taken between the writes of   *)
(* the driver: the scale of a timer follows its clock, a running timer's   *)
(* interval is its period on that clock, and what is left of a period or   *)
(* of a delay is known to less than one slow count.                        *)
(***************************************************************************)
THEOREM TimersInductive == SpecTimers => []TimerIInv
<1>1. TimerIInv /\ [NextTimers]_timerVars => TimerIInv'
  BY TimersTypes, TimersUse, TimersQuiet, TimersStray, TimersClock, TimersPeriod, TimersTick, TimersDelay
     DEF TimerIInv
<1> QED  BY <1>1, TimersInit, PTL DEF SpecTimers

(***************************************************************************)
(* At rest a running timer keeps its period through any number of changes  *)
(* of the clock, a stopped one is silent, and the handler is never called  *)
(* for a timer that is not in use.                                         *)
(***************************************************************************)
THEOREM TimersAreSound == SpecTimers => []TimersSound
<1>1. TimerIInv => TimersSound
  <2> SUFFICES ASSUME TimerIInv PROVE TimersSound
    OBVIOUS
  <2>1. PeriodKept
    <3> SUFFICES ASSUME place = "idle"
                 PROVE  /\ \A t \in Timer : src[t] = (IF ms_ticks[t] = Fast THEN "ref" ELSE "losc")
                        /\ want > 0 /\ want * Fast <= MaxCount => ivl[1] = want * ms_ticks[1]
      BY DEF PeriodKept
    <3>1. Fast # Slow
      <4>1. Fast > Slow /\ Fast \in Nat /\ Slow \in Nat
        BY Scales, TimersAssumption
      <4> QED  BY <4>1
    <3>2. (Ref(0) /\ Ref(1)) \/ (Losc(0) /\ Losc(1))
      BY DEF TimerIInv, ClockInv
    <3>3. \A t \in Timer : src[t] = (IF ms_ticks[t] = Fast THEN "ref" ELSE "losc")
      BY <3>1, <3>2 DEF Ref, Losc, Timer
    <3> QED  BY <3>3 DEF TimerIInv, PeriodInv, Fits
  <2>2. Silent
    <3>1. place = "idle" /\ faults = 0 /\ want = 0 => 1 \notin irq /\ 1 \notin ie /\ 1 \notin pending
      <4>1. ~ (0 > 0)
        OBVIOUS
      <4> QED  BY <4>1 DEF TimerIInv, QuietInv
    <3> QED  BY <3>1 DEF TimerIInv, Silent
  <2> QED  BY <2>1, <2>2 DEF TimersSound
<1> QED  BY <1>1, TimersInductive, PTL

(***************************************************************************)
(* A tick comes exactly a period after the last one, on the slow clock     *)
(* less than one count early, unless the clock has changed in between.     *)
(***************************************************************************)
THEOREM TimersPunctual == SpecTimers => Punctual
<1> DEFINE A == (1 \in pending' \ pending) /\ ~switched /\ want > 0 /\ want * Fast <= MaxCount =>
                  /\ since + 1 <= want * Fast
                  /\ since + 1 + Ratio > want * Fast
<1>1. TimerIInv /\ [NextTimers]_timerVars => [A]_timerVars
  <2> SUFFICES ASSUME TimerIInv, [NextTimers]_timerVars, 1 \in pending' \ pending, ~ switched, Fits
               PROVE  since + 1 <= want * Fast /\ since + 1 + Ratio > want * Fast
    BY DEF Fits
  <2>0. TimerTypeOK /\ QuietInv /\ ClockInv /\ TickInv /\ 1 \in Timer /\ want > 0
    BY DEF TimerIInv, Timer, Fits
  <2>1. Time
    <3>1. CASE Bits
      <4>1. StartAck \/ StopAck("stop ack", "idle") \/ StopAck("rel ack", "uninstall") \/ UNCHANGED pending
        BY <3>1 DEF Bits, Install, SetMode, StartIrq, StartClic, StopIrq, StopClic, Uninstall, Free, Request,
           RequestNone, StartRefused, StopRefused, unit
      <4> QED  BY <4>1 DEF StartAck, StopAck
    <3>2. CASE DelayAll \/ Hosc
      <4>1. ASSUME DelayAll PROVE pending' \ {0} = pending \ {0}
        BY <4>1, <2>0, DelayMoves
      <4>2. ASSUME Hosc PROVE pending' = pending
        BY <4>2, HoscMoves
      <4>3. pending' \ {0} = pending \ {0}
        BY <3>2, <4>1, <4>2
      <4> QED  BY <4>3
    <3>3. CASE TimerInit \/ Start \/ Reload \/ StartEnable \/ Stop("stop irq") \/ Stop("rel irq")
      BY <3>3 DEF TimerInit, Start, Reload, StartEnable, Stop, unit
    <3>4. CASE (\E t \in Timer : Isr(t)) \/ UNCHANGED timerVars
      BY <3>4 DEF Isr, timerVars
    <3> QED  BY <3>1, <3>2, <3>3, <3>4, Steps
  <2>2. Expires(1)
    BY <2>1 DEF Time
  <2>3. cnt[1] > 0 /\ src[1] \in {"ref", "losc"} /\ 1 \in en \ dead
    BY <2>2 DEF Expires, Counts
  <2>4. Left(1) = 1
    BY <2>0, <2>1, <2>2, <2>3, TimeLeft
  <2>5. since + Left(1) <= want * Fast /\ since + Left(1) + Ratio > want * Fast
    BY <2>0 DEF TickInv
  <2> QED  BY <2>4, <2>5
<1>2. SpecTimers => [][NextTimers]_timerVars
  BY PTL DEF SpecTimers
<1> QED  BY <1>1, <1>2, TimersInductive, PTL DEF Punctual

(***************************************************************************)
(* The safety half of Delayed: time_mdelay lasts as long as it was asked   *)
(* to, less than one slow count apart, whether its timer or the deadline   *)
(* ends it.                                                                *)
(***************************************************************************)
THEOREM TimersDelayLasts == SpecTimers => [](place = "d stop" => waited + Ratio > arg.ms * Fast)
<1>1. TimerIInv => (place = "d stop" => waited + Ratio > arg.ms * Fast)
  BY DEF TimerIInv, DelayInv, Lasted
<1> QED  BY <1>1, TimersInductive, PTL
=============================================================================
