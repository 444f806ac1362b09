----------------------------- MODULE PmicProofs -----------------------------
(***************************************************************************)
(* Proofs about Pmic, for every list of rails and requests and any number  *)
(* of failing transfers, and about the selector of Voltage, for every      *)
(* voltage asked for.                                                      *)
(***************************************************************************)
EXTENDS Pmic, TLAPS

-----------------------------------------------------------------------------
(* The selector. *)

\* What every table of voltage_descs has: one to four ranges in rising order,
\* in the selectors and in the voltages, with steps of whole millivolts.
Steps == {10, 20, 25, 40, 100}

Table(R) ==
  /\ DOMAIN R = 1 .. Len(R) /\ Len(R) \in 1 .. 4
  /\ \A i \in 1 .. Len(R) :
       /\ R[i].min \in Nat /\ R[i].lo \in Nat /\ R[i].hi \in Nat /\ R[i].step \in Steps
       /\ R[i].lo <= R[i].hi
       /\ MaxMv(R[i]) \in Nat /\ R[i].min <= MaxMv(R[i])
  /\ \A i, j \in 1 .. Len(R) : i < j => R[i].hi < R[j].lo /\ MaxMv(R[i]) < R[j].min

\* The tables of axp8191_voltage.c: ranges in ascending order, selectors and
\* voltages alike, each selector inside its register field.
LEMMA Tables ==
  ASSUME NEW k \in RailKind
  PROVE  Table(Ranges[k]) /\ \A i \in 1 .. Len(Ranges[k]) : Ranges[k][i].hi < Room[k]
<1> DEFINE Row(mv, lo, hi, step) == [min |-> mv, lo |-> lo, hi |-> hi, step |-> step]
<1>1. k \in {"dcdc6", "dcdc7", "dcdc8", "eldo", "cldo"}
  BY DEF RailKind, Ranges
<1>2. CASE k = "dcdc6"
  <2>1. Ranges[k] = <<Row(500, 0, 70, 10), Row(1220, 71, 87, 20), Row(1800, 88, 103, 20),
                      Row(2440, 104, 112, 40)>> /\ Room[k] = 128
    BY <1>2 DEF Ranges, Range, Room
  <2> QED BY <2>1 DEF Table, MaxMv, Steps
<1>3. CASE k = "dcdc7"
  <2>1. Ranges[k] = <<Row(500, 0, 70, 10), Row(1220, 71, 87, 20)>> /\ Room[k] = 128
    BY <1>3 DEF Ranges, Range, Room
  <2> QED BY <2>1 DEF Table, MaxMv, Steps
<1>4. CASE k = "dcdc8"
  <2>1. Ranges[k] = <<Row(500, 0, 70, 10), Row(1220, 71, 87, 20), Row(1900, 88, 103, 100)>>
        /\ Room[k] = 128
    BY <1>4 DEF Ranges, Range, Room
  <2> QED BY <2>1 DEF Table, MaxMv, Steps
<1>5. CASE k = "eldo"
  <2>1. Ranges[k] = <<Row(500, 0, 40, 25)>> /\ Room[k] = 64
    BY <1>5 DEF Ranges, Range, Room
  <2> QED BY <2>1 DEF Table, MaxMv, Steps
<1>6. CASE k = "cldo"
  <2>1. Ranges[k] = <<Row(500, 0, 29, 100)>> /\ Room[k] = 32
    BY <1>6 DEF Ranges, Range, Room
  <2> QED BY <2>1 DEF Table, MaxMv, Steps
<1> QED BY <1>1, <1>2, <1>3, <1>4, <1>5, <1>6

\* The division rounds up, and keeps to a range that reaches the voltage.
LEMMA RoundsUp ==
  ASSUME NEW d \in Steps, NEW x \in Nat, NEW h \in Nat, x <= h * d
  PROVE  LET q == (x + d - 1) \div d
         IN  /\ q \in 0 .. h /\ q * d >= x
             /\ \A p \in Nat : p < q => p * d < x
<1>1. CASE d = 10
  BY <1>1
<1>2. CASE d = 20
  BY <1>2
<1>3. CASE d = 25
  BY <1>3
<1>4. CASE d = 40
  BY <1>4
<1>5. CASE d = 100
  BY <1>5
<1> QED BY <1>1, <1>2, <1>3, <1>4, <1>5 DEF Steps

\* More of a step is no less, for the steps that occur.
LEMMA Monotone ==
  ASSUME NEW d \in Steps, NEW p \in Nat, NEW q \in Nat, p <= q
  PROVE  p * d <= q * d /\ p * d \in Nat /\ q * d \in Nat
<1>1. CASE d = 10
  BY <1>1
<1>2. CASE d = 20
  BY <1>2
<1>3. CASE d = 25
  BY <1>3
<1>4. CASE d = 40
  BY <1>4
<1>5. CASE d = 100
  BY <1>5
<1> QED BY <1>1, <1>2, <1>3, <1>4, <1>5 DEF Steps

\* A selector of a table stands for a voltage of the one range it lies in.
LEMMA VoltageOf ==
  ASSUME NEW k \in RailKind, NEW n \in 1 .. Len(Ranges[k]), NEW s \in Ranges[k][n].lo .. Ranges[k][n].hi
  PROVE  /\ Millivolts(k, s) = Ranges[k][n].min + (s - Ranges[k][n].lo) * Ranges[k][n].step
         /\ Millivolts(k, s) \in Ranges[k][n].min .. MaxMv(Ranges[k][n])
<1> DEFINE R == Ranges[k]
           In(m) == s \in R[m].lo .. R[m].hi
           c == CHOOSE m \in DOMAIN R : In(m)
<1>1. Table(R)
  BY Tables
<1> HIDE DEF R
<1>2. DOMAIN R = 1 .. Len(R) /\ n \in DOMAIN R /\ In(n)
  BY <1>1 DEF Table, R
<1>3. c \in DOMAIN R /\ In(c)
  BY <1>2
<1>4. c = n
  <2> HIDE DEF c
  <2> QED BY <1>1, <1>2, <1>3, SMTT(30) DEF Table
<1>5. Millivolts(k, s) = R[c].min + (s - R[c].lo) * R[c].step
  BY DEF Millivolts, R
<1>7. /\ s - R[n].lo \in Nat /\ R[n].hi - R[n].lo \in Nat /\ s - R[n].lo <= R[n].hi - R[n].lo
      /\ R[n].step \in Steps /\ R[n].min \in Nat
  BY <1>1, <1>2 DEF Table
<1>8. /\ (s - R[n].lo) * R[n].step <= (R[n].hi - R[n].lo) * R[n].step
      /\ (s - R[n].lo) * R[n].step \in Nat /\ (R[n].hi - R[n].lo) * R[n].step \in Nat
  BY <1>7, Monotone
<1>9. Millivolts(k, s) \in R[n].min .. MaxMv(R[n])
  <2> DEFINE a == (s - R[n].lo) * R[n].step
             b == (R[n].hi - R[n].lo) * R[n].step
  <2>1. Millivolts(k, s) = R[n].min + a /\ MaxMv(R[n]) = R[n].min + b
    BY <1>4, <1>5 DEF MaxMv
  <2>2. a \in Nat /\ b \in Nat /\ a <= b
    BY <1>8
  <2> HIDE DEF a, b
  <2> QED BY <1>7, <2>1, <2>2
<1> QED BY <1>4, <1>5, <1>9 DEF R

\* a7s_axp8191_voltage_selector, for every voltage: the selector fits the
\* field of the rail's register and stands for the least voltage the rail has
\* that is not below the request, brought within the rail's limits.
THEOREM SelectorLeast ==
  ASSUME NEW k \in RailKind, NEW mv \in Nat
  PROVE  LeastNotBelow(k, mv, Selector(k, mv))
<1> DEFINE R == Ranges[k]
           v == Clamp(k, mv)
           First(n) == v <= MaxMv(R[n]) /\ \A j \in 1 .. (n - 1) : v > MaxMv(R[j])
           i == CHOOSE n \in DOMAIN R : First(n)
           s == Selector(k, mv)
<1>1. Table(R) /\ \A n \in 1 .. Len(R) : R[n].hi < Room[k]
  BY Tables
<1>2. /\ DOMAIN R = 1 .. Len(R) /\ Len(R) \in 1 .. 4
      /\ \A n \in 1 .. Len(R) :
           /\ R[n].min \in Nat /\ R[n].lo \in Nat /\ R[n].hi \in Nat /\ R[n].step \in Steps
           /\ R[n].lo <= R[n].hi
           /\ MaxMv(R[n]) \in Nat /\ R[n].min <= MaxMv(R[n])
  BY <1>1 DEF Table
<1>a. v = IF mv < R[1].min THEN R[1].min
          ELSE IF mv > MaxMv(R[Len(R)]) THEN MaxMv(R[Len(R)]) ELSE mv
  BY DEF Clamp
<1>b. s = InRange(R[i], v)
  BY DEF Selector
<1>c. \A n \in 1 .. Len(R) : \A t \in R[n].lo .. R[n].hi :
        /\ Millivolts(k, t) = R[n].min + (t - R[n].lo) * R[n].step
        /\ Millivolts(k, t) \in R[n].min .. MaxMv(R[n])
  BY VoltageOf
<1>d. Selectors(k) = UNION {R[n].lo .. R[n].hi : n \in DOMAIN R}
  BY DEF Selectors
<1>e. LeastNotBelow(k, mv, s) <=>
        /\ s \in Selectors(k) /\ s < Room[k] /\ Millivolts(k, s) >= v
        /\ \A t \in Selectors(k) : Millivolts(k, t) >= v => Millivolts(k, t) >= Millivolts(k, s)
  BY DEF LeastNotBelow
<1> HIDE DEF R, v, s
<1>4. v \in Nat /\ R[1].min <= v /\ v <= MaxMv(R[Len(R)])
  <2>1. \A n \in 1 .. Len(R) : R[1].min <= R[n].min /\ R[n].min \in Nat
    BY <1>1, <1>2 DEF Table
  <2>2. Len(R) \in 1 .. Len(R) /\ 1 \in 1 .. Len(R)
    BY <1>2
  <2> QED BY <1>a, <1>2, <2>1, <2>2
<1>5. \E n \in DOMAIN R : First(n)
  <2>1. \A n \in 1 .. Len(R) : MaxMv(R[n]) \in Nat
    BY <1>2
  <2>2. CASE Len(R) = 1
    BY <1>2, <1>4, <2>1, <2>2
  <2>3. CASE Len(R) = 2
    BY <1>2, <1>4, <2>1, <2>3
  <2>4. CASE Len(R) = 3
    BY <1>2, <1>4, <2>1, <2>4
  <2>5. CASE Len(R) = 4
    BY <1>2, <1>4, <2>1, <2>5
  <2> QED BY <1>2, <2>2, <2>3, <2>4, <2>5
<1>6. i \in 1 .. Len(R) /\ First(i)
  BY <1>2, <1>5
<1> HIDE DEF i
<1> DEFINE r == R[i]
<1>7. /\ r.min \in Nat /\ r.lo \in Nat /\ r.hi \in Nat /\ r.step \in Steps
      /\ r.lo <= r.hi /\ v <= MaxMv(r)
  BY <1>2, <1>6
<1>8. s \in r.lo .. r.hi /\ Millivolts(k, s) >= v
      /\ \A t \in r.lo .. r.hi : Millivolts(k, t) >= v => t >= s
  <2>1. CASE v <= r.min
    <3>1. s = r.lo
      BY <1>b, <1>7, <2>1 DEF InRange
    <3>2. Millivolts(k, s) \in Int /\ Millivolts(k, s) >= r.min
      BY <1>c, <1>2, <1>6, <1>7, <3>1
    <3> QED BY <1>4, <1>7, <2>1, <3>1, <3>2
  <2>2. CASE v > r.min
    <3> DEFINE x == v - r.min
               h == r.hi - r.lo
               q == (x + r.step - 1) \div r.step
    <3>1. x \in Nat /\ h \in Nat /\ r.step \in Steps /\ x <= h * r.step
      <4>1. h \in Nat /\ r.step \in Steps
        BY <1>7
      <4>2. h * r.step \in Nat
        BY <4>1, Monotone
      <4> QED BY <1>4, <1>7, <2>2, <4>1, <4>2 DEF MaxMv
    <3>2. /\ q \in 0 .. h /\ q * r.step >= x
          /\ \A p \in Nat : p < q => p * r.step < x
      BY <3>1, RoundsUp
    <3>3. s = r.lo + q
      <4>1. s = r.lo + ((v - r.min + r.step - 1) \div r.step)
        BY <1>b, <1>4, <1>7, <2>2 DEF InRange
      <4> QED BY <4>1
    <3> HIDE DEF q
    <3>4. s \in r.lo .. r.hi
      BY <1>7, <3>2, <3>3
    <3>5. Millivolts(k, s) = r.min + q * r.step
      <4>1. s - r.lo = q
        BY <1>7, <3>2, <3>3
      <4>2. Millivolts(k, s) = r.min + (s - r.lo) * r.step
        BY <1>c, <1>6, <3>4
      <4> QED BY <4>1, <4>2
    <3>6. Millivolts(k, s) >= v
      <4>1. q * r.step \in Nat
        BY <3>1, <3>2, Monotone
      <4> QED BY <1>4, <1>7, <3>2, <3>5, <4>1
    <3>7. ASSUME NEW t \in r.lo .. r.hi, t < s PROVE ~(Millivolts(k, t) >= v)
      <4>1. t - r.lo \in Nat /\ t - r.lo < q
        BY <1>7, <3>2, <3>3, <3>7
      <4>2. (t - r.lo) * r.step < x /\ (t - r.lo) * r.step \in Nat
        BY <3>1, <3>2, <4>1, Monotone
      <4>3. Millivolts(k, t) = r.min + (t - r.lo) * r.step
        BY <1>c, <1>6
      <4> QED BY <1>4, <1>7, <4>2, <4>3
    <3> QED BY <1>7, <3>4, <3>6, <3>7
  <2> QED BY <1>4, <1>7, <2>1, <2>2
<1>9. s \in Selectors(k) /\ s < Room[k]
  <2>1. s \in Selectors(k)
    BY <1>2, <1>6, <1>8, <1>d
  <2>2. r.hi < Room[k] /\ Room[k] \in Nat
    BY <1>1, <1>6 DEF Room, RailKind, Ranges
  <2> QED BY <1>7, <1>8, <2>1, <2>2
<1>10. ASSUME NEW t \in Selectors(k), Millivolts(k, t) >= v
       PROVE  Millivolts(k, t) >= Millivolts(k, s)
  <2>1. PICK j \in 1 .. Len(R) : t \in R[j].lo .. R[j].hi
    BY <1>2, <1>d
  <2>2. /\ Millivolts(k, t) \in R[j].min .. MaxMv(R[j])
        /\ Millivolts(k, s) \in r.min .. MaxMv(r)
        /\ R[j].min \in Nat /\ r.min \in Nat /\ MaxMv(R[j]) \in Nat /\ MaxMv(r) \in Nat
    BY <1>c, <1>2, <1>6, <1>8, <2>1
  <2>3. CASE j < i
    <3>1. v > MaxMv(R[j])
      BY <1>6, <2>3
    <3> QED BY <1>4, <1>10, <2>2, <3>1
  <2>4. CASE j > i
    <3>1. MaxMv(r) < R[j].min
      BY <1>1, <1>6, <2>4 DEF Table
    <3> QED BY <2>2, <3>1
  <2>5. CASE j = i
    <3> DEFINE p == s - r.lo
               q == t - r.lo
    <3>1. p \in Nat /\ q \in Nat /\ p <= q /\ r.step \in Steps
      BY <1>7, <1>8, <1>10, <2>1, <2>5
    <3>2. Millivolts(k, s) = r.min + p * r.step /\ Millivolts(k, t) = r.min + q * r.step
      BY <1>c, <1>6, <1>8, <2>1, <2>5
    <3> HIDE DEF p, q
    <3>3. p * r.step <= q * r.step /\ p * r.step \in Nat /\ q * r.step \in Nat
      BY <3>1, Monotone
    <3> QED BY <2>2, <3>2, <3>3
  <2> QED BY <1>6, <2>1, <2>3, <2>4, <2>5
<1> QED BY <1>8, <1>9, <1>10, <1>e DEF s

-----------------------------------------------------------------------------
(* The probe, the rails of boot0 and those of the DRAM library. *)

Probing    == {"id", "unlock", "efuse", "page", "config read", "config", "page back", "efuse back",
               "lock back", "checked", "reset read", "reset write"}
Setting    == {"emmc", "ddr", "vol read", "vol write", "on read", "on write", "served"}
BoardSteps == {"npu on read", "npu on", "npu vol", "npu check", "sd read", "sd"}
Checking   == {"emmc sel", "emmc on"} \cup BoardSteps

TypeOK ==
  /\ pc \in {"bus", "fail", "error", "idle"} \cup Probing \cup Setting \cup Checking
  /\ ret \in {"emmc", "ddr"} /\ req[1] \in Rail /\ req[2] \in Nat
  /\ status \in BOOLEAN /\ ready \in BOOLEAN /\ misplaced \in BOOLEAN /\ done \in {"no", "ok", "failed"}
  /\ efuse \in BOOLEAN /\ unlocked \in BOOLEAN /\ reset_ctrl \in BOOLEAN
  /\ page \in {"normal", "ext"} /\ DOMAIN sel = All /\ DOMAIN on = All

Counts == calls \in Nat /\ faults \in Nat

\* Where the caller is, and that a regulator is reached through a chip that
\* counts as ready only.
CallInv ==
  /\ pc \in Probing => ~ready /\ done = "no"
  /\ pc \in Setting \cup Checking \cup {"idle"} => ready
  /\ pc \in Checking => done = "no"
  /\ done = "no" => calls = 0 /\ ret = "emmc" /\ pc # "idle"
  /\ done = "ok" => ready /\ (calls = 0 => pc = "idle")
  /\ done = "failed" => pc = "error"

\* What the restore has closed again, where none of its steps failed.
RestoreInv ==
  /\ pc \in {"efuse back", "lock back", "checked"} /\ ~status => page = "normal"
  /\ pc \in {"lock back", "checked"} /\ ~status => ~efuse
  /\ pc = "checked" /\ ~status => ~unlocked
  /\ pc \in {"reset read", "reset write"} => page = "normal" /\ ~efuse /\ ~unlocked
  /\ NotPoisoned

\* What sunxi_board_init has set so far.
BoardInv ==
  /\ pc \in {"emmc on"} \cup BoardSteps => sel["cldo5"] = Sel1800
  /\ pc \in BoardSteps => on["cldo5"] /\ pads = "auto"
  /\ pads = "auto" /\ calls = 0 => pc \in BoardSteps \cup {"fail", "error", "idle"}
  /\ pc \in {"npu vol", "npu check", "sd read", "sd"} => on[Npu]
  /\ pc \in {"sd read", "sd"} => sel[Npu] = Sel840
  /\ BoardOk

\* The voltage is set before the rail comes on.
VoltageInv ==
  pc \in {"on read", "on write"} /\ req[2] > 0 => sel[req[1]] = Selector(KindOf[req[1]], req[2])

IInv == TypeOK /\ Counts /\ CallInv /\ RestoreInv /\ BoardInv /\ VoltageInv

USE DEF Probing, Setting, BoardSteps, Checking

\* The chip is probed, restored and checked; every later step finds it ready.
\* boot0 starts with the chip in whatever state an earlier boot left it.
LEMMA InitIInv == Init => IInv
<1> SUFFICES ASSUME Init PROVE IInv
  OBVIOUS
<1>1. TypeOK
  <2>1. req[1] = "cldo5" /\ req[2] = 1800
    BY DEF Init
  <2>2. req[1] \in Rail /\ req[2] \in Nat
    BY <2>1, PmicAssumption
  <2>3. DOMAIN sel = All /\ DOMAIN on = All
    BY DEF Init
  <2> QED BY <2>2, <2>3 DEF Init, TypeOK
<1>4. Counts
  BY DEF Init, Counts
<1>2. CallInv /\ RestoreInv /\ VoltageInv
  BY DEF Init, CallInv, RestoreInv, VoltageInv, NotPoisoned
<1>3. BoardInv
  BY DEF Init, BoardInv, BoardOk
<1> QED BY <1>1, <1>2, <1>3, <1>4 DEF IInv

\* The bounds count.
LEMMA CountsKept ==
  ASSUME Counts, [Next]_vars
  PROVE  Counts'
<1> USE DEF Next, vars, chip, probe, keep, call, Transfer, Get, Extended, Restore, BusInit, AlreadyInit,
            ChipId, Unlock, Efuse, PageExt, ConfigRead, Config, PageBack, EfuseBack, LockBack, Checked,
            ResetRead, ResetWrite, Vol, VolRead, VolWrite, OnRead, OnWrite, Served, EmmcSel, EmmcOn,
            NpuOnRead, NpuOn, NpuVol, NpuCheck, SdRead, SdOn, Failed, SetDdrVoltage, Over
<1>1. faults' = faults \/ Fault
  OBVIOUS
<1>2. calls' = calls \/ calls' = calls + 1
  OBVIOUS
<1> QED BY ONLY <1>1, <1>2, Counts DEF Counts, Fault

\* The probe, step by step.
LEMMA ProbeKept ==
  ASSUME IInv, BusInit \/ AlreadyInit \/ ChipId \/ Unlock \/ Efuse \/ PageExt \/ ConfigRead \/
         Config \/ PageBack \/ EfuseBack \/ LockBack \/ Checked \/ ResetRead \/ ResetWrite
  PROVE  (TypeOK /\ CallInv /\ RestoreInv /\ BoardInv /\ VoltageInv)'
<1> USE DEF IInv, probe, call, chip
<1>f. Fault => faults' # faults
  BY DEF Counts, Fault
<1>1. CASE BusInit
  <2>1. TypeOK'
    BY <1>1 DEF BusInit, TypeOK, CallInv
  <2>2. CallInv' /\ RestoreInv'
    BY <1>1, <2>1, <1>f DEF BusInit, TypeOK, CallInv, RestoreInv, NotPoisoned
  <2>3. BoardInv' /\ VoltageInv'
    BY <1>1, <2>1, <1>f DEF BusInit, TypeOK, CallInv, BoardInv, BoardOk, VoltageInv, All
  <2> QED BY <2>1, <2>2, <2>3
<1>2. CASE AlreadyInit
  <2>1. TypeOK'
    BY <1>2 DEF AlreadyInit, TypeOK, CallInv
  <2>2. CallInv' /\ RestoreInv'
    BY <1>2, <2>1, <1>f DEF AlreadyInit, TypeOK, CallInv, RestoreInv, NotPoisoned
  <2>3. BoardInv' /\ VoltageInv'
    BY <1>2, <2>1, <1>f DEF AlreadyInit, TypeOK, CallInv, BoardInv, BoardOk, VoltageInv, All
  <2> QED BY <2>1, <2>2, <2>3
<1>3. CASE ChipId
  <2>1. TypeOK'
    BY <1>3 DEF ChipId, TypeOK, CallInv
  <2>2. CallInv' /\ RestoreInv'
    BY <1>3, <2>1, <1>f DEF ChipId, TypeOK, CallInv, RestoreInv, NotPoisoned
  <2>3. BoardInv' /\ VoltageInv'
    BY <1>3, <2>1, <1>f DEF ChipId, TypeOK, CallInv, BoardInv, BoardOk, VoltageInv, All
  <2> QED BY <2>1, <2>2, <2>3
<1>4. CASE Unlock
  <2>1. TypeOK'
    BY <1>4 DEF Unlock, Extended, Transfer, TypeOK, CallInv
  <2>2. CallInv' /\ RestoreInv'
    BY <1>4, <2>1, <1>f DEF Unlock, Extended, Transfer, TypeOK, CallInv, RestoreInv, NotPoisoned
  <2>3. BoardInv' /\ VoltageInv'
    BY <1>4, <2>1, <1>f DEF Unlock, Extended, Transfer, TypeOK, CallInv, BoardInv, BoardOk,
       VoltageInv, All
  <2> QED BY <2>1, <2>2, <2>3
<1>5. CASE Efuse
  <2>1. TypeOK'
    BY <1>5 DEF Efuse, Extended, Transfer, TypeOK, CallInv
  <2>2. CallInv' /\ RestoreInv'
    BY <1>5, <2>1, <1>f DEF Efuse, Extended, Transfer, TypeOK, CallInv, RestoreInv, NotPoisoned
  <2>3. BoardInv' /\ VoltageInv'
    BY <1>5, <2>1, <1>f DEF Efuse, Extended, Transfer, TypeOK, CallInv, BoardInv, BoardOk, VoltageInv,
       All
  <2> QED BY <2>1, <2>2, <2>3
<1>6. CASE PageExt
  <2>1. TypeOK'
    BY <1>6 DEF PageExt, Extended, Transfer, TypeOK, CallInv
  <2>2. CallInv' /\ RestoreInv'
    BY <1>6, <2>1, <1>f DEF PageExt, Extended, Transfer, TypeOK, CallInv, RestoreInv, NotPoisoned
  <2>3. BoardInv' /\ VoltageInv'
    BY <1>6, <2>1, <1>f DEF PageExt, Extended, Transfer, TypeOK, CallInv, BoardInv, BoardOk,
       VoltageInv, All
  <2> QED BY <2>1, <2>2, <2>3
<1>7. CASE ConfigRead
  <2>1. TypeOK'
    BY <1>7 DEF ConfigRead, Get, TypeOK, CallInv
  <2>2. CallInv' /\ RestoreInv'
    BY <1>7, <2>1, <1>f DEF ConfigRead, Get, TypeOK, CallInv, RestoreInv, NotPoisoned
  <2>3. BoardInv' /\ VoltageInv'
    BY <1>7, <2>1, <1>f DEF ConfigRead, Get, TypeOK, CallInv, BoardInv, BoardOk, VoltageInv, All
  <2> QED BY <2>1, <2>2, <2>3
<1>8. CASE Config
  <2>1. TypeOK'
    BY <1>8 DEF Config, Extended, Transfer, TypeOK, CallInv
  <2>2. CallInv' /\ RestoreInv'
    BY <1>8, <2>1, <1>f DEF Config, Extended, Transfer, TypeOK, CallInv, RestoreInv, NotPoisoned
  <2>3. BoardInv' /\ VoltageInv'
    BY <1>8, <2>1, <1>f DEF Config, Extended, Transfer, TypeOK, CallInv, BoardInv, BoardOk,
       VoltageInv, All
  <2> QED BY <2>1, <2>2, <2>3
<1>9. CASE PageBack
  <2>1. TypeOK'
    BY <1>9 DEF PageBack, Restore, Transfer, TypeOK, CallInv
  <2>2. CallInv' /\ RestoreInv'
    BY <1>9, <2>1, <1>f DEF PageBack, Restore, Transfer, TypeOK, CallInv, RestoreInv, NotPoisoned
  <2>3. BoardInv' /\ VoltageInv'
    BY <1>9, <2>1, <1>f DEF PageBack, Restore, Transfer, TypeOK, CallInv, BoardInv, BoardOk,
       VoltageInv, All
  <2> QED BY <2>1, <2>2, <2>3
<1>10. CASE EfuseBack
  <2>1. TypeOK'
    BY <1>10 DEF EfuseBack, Restore, Transfer, TypeOK, CallInv
  <2>2. CallInv' /\ RestoreInv'
    BY <1>10, <2>1, <1>f DEF EfuseBack, Restore, Transfer, TypeOK, CallInv, RestoreInv, NotPoisoned
  <2>3. BoardInv' /\ VoltageInv'
    BY <1>10, <2>1, <1>f DEF EfuseBack, Restore, Transfer, TypeOK, CallInv, BoardInv, BoardOk,
       VoltageInv, All
  <2> QED BY <2>1, <2>2, <2>3
<1>11. CASE LockBack
  <2>1. TypeOK'
    BY <1>11 DEF LockBack, Restore, Transfer, TypeOK, CallInv
  <2>2. CallInv' /\ RestoreInv'
    BY <1>11, <2>1, <1>f DEF LockBack, Restore, Transfer, TypeOK, CallInv, RestoreInv, NotPoisoned
  <2>3. BoardInv' /\ VoltageInv'
    BY <1>11, <2>1, <1>f DEF LockBack, Restore, Transfer, TypeOK, CallInv, BoardInv, BoardOk,
       VoltageInv, All
  <2> QED BY <2>1, <2>2, <2>3
<1>12. CASE Checked
  <2>1. TypeOK'
    BY <1>12 DEF Checked, TypeOK, CallInv
  <2>2. CallInv' /\ RestoreInv'
    BY <1>12, <2>1, <1>f DEF Checked, TypeOK, CallInv, RestoreInv, NotPoisoned
  <2>3. BoardInv' /\ VoltageInv'
    BY <1>12, <2>1, <1>f DEF Checked, TypeOK, CallInv, BoardInv, BoardOk, VoltageInv, All
  <2> QED BY <2>1, <2>2, <2>3
<1>13. CASE ResetRead
  <2>1. TypeOK'
    BY <1>13 DEF ResetRead, Get, TypeOK, CallInv
  <2>2. CallInv' /\ RestoreInv'
    BY <1>13, <2>1, <1>f DEF ResetRead, Get, TypeOK, CallInv, RestoreInv, NotPoisoned
  <2>3. BoardInv' /\ VoltageInv'
    BY <1>13, <2>1, <1>f DEF ResetRead, Get, TypeOK, CallInv, BoardInv, BoardOk, VoltageInv, All
  <2> QED BY <2>1, <2>2, <2>3
<1>14. CASE ResetWrite
  <2>1. TypeOK'
    BY <1>14 DEF ResetWrite, Transfer, TypeOK, CallInv
  <2>2. CallInv' /\ RestoreInv'
    BY <1>14, <2>1, <1>f DEF ResetWrite, Transfer, TypeOK, CallInv, RestoreInv, NotPoisoned
  <2>3. BoardInv' /\ VoltageInv'
    BY <1>14, <2>1, <1>f DEF ResetWrite, Transfer, TypeOK, CallInv, BoardInv, BoardOk, VoltageInv, All
  <2> QED BY <2>1, <2>2, <2>3
<1> QED BY <1>1, <1>2, <1>3, <1>4, <1>5, <1>6, <1>7, <1>8, <1>9, <1>10, <1>11, <1>12, <1>13, <1>14

\* The read-modify-writes of one rail, and their callers.
LEMMA SettingKept ==
  ASSUME IInv, Vol \/ VolRead \/ VolWrite \/ OnRead \/ OnWrite \/ Served \/ SetDdrVoltage \/ Failed
         \/ UNCHANGED vars
  PROVE  (TypeOK /\ CallInv /\ RestoreInv /\ BoardInv /\ VoltageInv)'
<1> USE DEF IInv, keep, call, chip
<1>f. Fault => faults' # faults
  BY DEF Counts, Fault
<1>a. Npu \notin Rail /\ Sd \notin Rail /\ (pc \in Setting => page = "normal")
  BY PmicAssumption DEF CallInv, RestoreInv, NotPoisoned
<1>b. \A q \in Requests : q[2] \in Nat
  BY PmicAssumption
<1>c. SetDdrVoltage => calls' # 0
  BY DEF SetDdrVoltage, Counts
<1>1. CASE Vol
  <2>1. TypeOK'
    BY <1>1, <1>b DEF Vol, TypeOK, CallInv
  <2>2. CallInv' /\ RestoreInv'
    BY <1>1, <2>1, <1>f, <1>a, <1>b, <1>c DEF Vol, TypeOK, CallInv, RestoreInv, NotPoisoned
  <2>3. BoardInv' /\ VoltageInv'
    BY <1>1, <2>1, <1>f, <1>a, <1>b, <1>c DEF Vol, TypeOK, CallInv, BoardInv, BoardOk, VoltageInv, All
  <2> QED BY <2>1, <2>2, <2>3
<1>2. CASE VolRead
  <2>1. TypeOK'
    BY <1>2, <1>b, ZenonT(30) DEF VolRead, Get, TypeOK, CallInv
  <2>2. CallInv' /\ RestoreInv'
    BY <1>2, <2>1, <1>f, <1>a, <1>b, <1>c DEF VolRead, Get, TypeOK, CallInv, RestoreInv, NotPoisoned
  <2>3. BoardInv' /\ VoltageInv'
    BY <1>2, <2>1, <1>f, <1>a, <1>b, <1>c DEF VolRead, Get, TypeOK, CallInv, BoardInv, BoardOk,
       VoltageInv, All
  <2> QED BY <2>1, <2>2, <2>3
<1>3. CASE VolWrite
  <2>1. TypeOK'
    BY <1>3, <1>b, ZenonT(30) DEF VolWrite, Transfer, SetSel, TypeOK, CallInv
  <2>2. CallInv' /\ RestoreInv'
    BY <1>3, <2>1, <1>f, <1>a, <1>b, <1>c DEF VolWrite, Transfer, SetSel, TypeOK, CallInv, RestoreInv,
       NotPoisoned
  <2>3. BoardInv' /\ VoltageInv'
    BY <1>3, <2>1, <1>f, <1>a, <1>b, <1>c DEF VolWrite, Transfer, SetSel, TypeOK, CallInv, BoardInv,
       BoardOk, VoltageInv, All
  <2> QED BY <2>1, <2>2, <2>3
<1>4. CASE OnRead
  <2>1. TypeOK'
    BY <1>4, <1>b DEF OnRead, Get, TypeOK, CallInv
  <2>2. CallInv' /\ RestoreInv'
    BY <1>4, <2>1, <1>f, <1>a, <1>b, <1>c DEF OnRead, Get, TypeOK, CallInv, RestoreInv, NotPoisoned
  <2>3. BoardInv' /\ VoltageInv'
    BY <1>4, <2>1, <1>f, <1>a, <1>b, <1>c DEF OnRead, Get, TypeOK, CallInv, BoardInv, BoardOk,
       VoltageInv, All
  <2> QED BY <2>1, <2>2, <2>3
<1>5. CASE OnWrite
  <2>1. TypeOK'
    BY <1>5, <1>b, ZenonT(30) DEF OnWrite, Transfer, SetOn, TypeOK, CallInv
  <2>2. CallInv' /\ RestoreInv'
    BY <1>5, <2>1, <1>f, <1>a, <1>b, <1>c DEF OnWrite, Transfer, SetOn, TypeOK, CallInv, RestoreInv,
       NotPoisoned
  <2>3. BoardInv' /\ VoltageInv'
    BY <1>5, <2>1, <1>f, <1>a, <1>b, <1>c DEF OnWrite, Transfer, SetOn, TypeOK, CallInv, BoardInv,
       BoardOk, VoltageInv, All
  <2> QED BY <2>1, <2>2, <2>3
<1>6. CASE Served
  <2>1. TypeOK'
    BY <1>6, <1>b DEF Served, TypeOK, CallInv
  <2>2. CallInv' /\ RestoreInv'
    BY <1>6, <2>1, <1>f, <1>a, <1>b, <1>c DEF Served, TypeOK, CallInv, RestoreInv, NotPoisoned
  <2>3. BoardInv' /\ VoltageInv'
    BY <1>6, <2>1, <1>f, <1>a, <1>b, <1>c DEF Served, TypeOK, CallInv, BoardInv, BoardOk, VoltageInv,
       All
  <2> QED BY <2>1, <2>2, <2>3
<1>7. CASE SetDdrVoltage
  <2>1. TypeOK'
    BY <1>7, <1>b DEF SetDdrVoltage, TypeOK, CallInv
  <2>2. CallInv' /\ RestoreInv'
    BY <1>7, <2>1, <1>f, <1>a, <1>b, <1>c DEF SetDdrVoltage, TypeOK, CallInv, RestoreInv, NotPoisoned
  <2>3. BoardInv' /\ VoltageInv'
    BY <1>7, <2>1, <1>f, <1>a, <1>b, <1>c DEF SetDdrVoltage, TypeOK, CallInv, BoardInv, BoardOk,
       VoltageInv, All
  <2> QED BY <2>1, <2>2, <2>3
<1>8. CASE Failed
  <2>1. TypeOK'
    BY <1>8, <1>b DEF Failed, TypeOK, CallInv
  <2>2. CallInv' /\ RestoreInv'
    BY <1>8, <2>1, <1>f, <1>a, <1>b, <1>c DEF Failed, TypeOK, CallInv, RestoreInv, NotPoisoned
  <2>3. BoardInv' /\ VoltageInv'
    BY <1>8, <2>1, <1>f, <1>a, <1>b, <1>c DEF Failed, TypeOK, CallInv, BoardInv, BoardOk, VoltageInv,
       All
  <2> QED BY <2>1, <2>2, <2>3
<1>9. CASE UNCHANGED vars
  <2>1. TypeOK'
    <3>1. /\ pc' = pc /\ ret' = ret /\ req' = req /\ page' = page /\ sel' = sel /\ on' = on /\ done' = done
          /\ status' = status /\ ready' = ready /\ misplaced' = misplaced /\ efuse' = efuse
          /\ unlocked' = unlocked /\ reset_ctrl' = reset_ctrl
      BY <1>9 DEF vars
    <3>2. pc' \in {"bus", "fail", "error", "idle"} \cup Probing \cup Setting \cup Checking
      BY <3>1 DEF TypeOK
    <3>3. ret' \in {"emmc", "ddr"} /\ req'[1] \in Rail /\ req'[2] \in Nat
      BY <3>1 DEF TypeOK
    <3>4. /\ DOMAIN sel' = All /\ DOMAIN on' = All
          /\ done' \in {"no", "ok", "failed"} /\ page' \in {"normal", "ext"}
      BY <3>1 DEF TypeOK
    <3>5. (/\ status \in BOOLEAN /\ ready \in BOOLEAN /\ misplaced \in BOOLEAN
           /\ efuse \in BOOLEAN /\ unlocked \in BOOLEAN /\ reset_ctrl \in BOOLEAN)'
      BY <3>1 DEF TypeOK
    <3> QED BY <3>2, <3>3, <3>4, <3>5 DEF TypeOK
  <2>2. CallInv' /\ RestoreInv'
    BY <1>9, <2>1, <1>f, <1>a, <1>b, <1>c, ZenonT(30) DEF vars, TypeOK, CallInv, RestoreInv, NotPoisoned
  <2>3. BoardInv' /\ VoltageInv'
    BY <1>9, <2>1, <1>f, <1>a, <1>b, <1>c DEF vars, TypeOK, CallInv, BoardInv, BoardOk, VoltageInv,
       All
  <2> QED BY <2>1, <2>2, <2>3
<1> QED BY <1>1, <1>2, <1>3, <1>4, <1>5, <1>6, <1>7, <1>8, <1>9

\* The rails of sunxi_board_init.
LEMMA BoardKept ==
  ASSUME IInv, EmmcSel \/ EmmcOn \/ NpuOnRead \/ NpuOn \/ NpuVol \/ NpuCheck \/ SdRead \/ SdOn
  PROVE  (TypeOK /\ CallInv /\ RestoreInv /\ BoardInv /\ VoltageInv)'
<1> USE DEF IInv, keep, call, chip
<1>f. Fault => faults' # faults
  BY DEF Counts, Fault
<1>a. pc \in Checking => page = "normal" /\ ready /\ done = "no"
  BY DEF CallInv, RestoreInv, NotPoisoned
<1>b. "cldo5" \in All /\ Npu \in All /\ Sd \in All /\ "cldo5" # Npu /\ "cldo5" # Sd /\ Npu # Sd
  BY PmicAssumption DEF All, Npu, Sd
<1>1. CASE EmmcSel
  <2>1. TypeOK'
    BY <1>1, <1>b DEF EmmcSel, Get, TypeOK, CallInv
  <2>2. CallInv' /\ RestoreInv'
    BY <1>1, <2>1, <1>f, <1>a, <1>b DEF EmmcSel, Get, TypeOK, CallInv, RestoreInv, NotPoisoned
  <2>3. BoardInv' /\ VoltageInv'
    BY <1>1, <2>1, <1>f, <1>a, <1>b DEF EmmcSel, Get, TypeOK, CallInv, BoardInv, BoardOk, VoltageInv,
       All
  <2> QED BY <2>1, <2>2, <2>3
<1>2. CASE EmmcOn
  <2>1. TypeOK'
    BY <1>2, <1>b DEF EmmcOn, Get, TypeOK, CallInv
  <2>2. CallInv' /\ RestoreInv'
    BY <1>2, <2>1, <1>f, <1>a, <1>b DEF EmmcOn, Get, TypeOK, CallInv, RestoreInv, NotPoisoned
  <2>3. BoardInv' /\ VoltageInv'
    BY <1>2, <2>1, <1>f, <1>a, <1>b DEF EmmcOn, Get, TypeOK, CallInv, BoardInv, BoardOk, VoltageInv,
       All
  <2> QED BY <2>1, <2>2, <2>3
<1>3. CASE NpuOnRead
  <2>1. TypeOK'
    BY <1>3, <1>b DEF NpuOnRead, Get, TypeOK, CallInv
  <2>2. CallInv' /\ RestoreInv'
    BY <1>3, <2>1, <1>f, <1>a, <1>b DEF NpuOnRead, Get, TypeOK, CallInv, RestoreInv, NotPoisoned
  <2>3. BoardInv' /\ VoltageInv'
    BY <1>3, <2>1, <1>f, <1>a, <1>b DEF NpuOnRead, Get, TypeOK, CallInv, BoardInv, BoardOk,
       VoltageInv, All
  <2> QED BY <2>1, <2>2, <2>3
<1>4. CASE NpuOn
  <2>1. TypeOK'
    BY <1>4, <1>b DEF NpuOn, Transfer, SetOn, TypeOK, CallInv
  <2>2. CallInv' /\ RestoreInv'
    BY <1>4, <2>1, <1>f, <1>a, <1>b DEF NpuOn, Transfer, SetOn, TypeOK, CallInv, RestoreInv,
       NotPoisoned
  <2>3. BoardInv' /\ VoltageInv'
    BY <1>4, <2>1, <1>f, <1>a, <1>b DEF NpuOn, Transfer, SetOn, TypeOK, CallInv, BoardInv, BoardOk,
       VoltageInv, All
  <2> QED BY <2>1, <2>2, <2>3
<1>5. CASE NpuVol
  <2>1. TypeOK'
    BY <1>5, <1>b DEF NpuVol, Transfer, SetSel, TypeOK, CallInv
  <2>2. CallInv' /\ RestoreInv'
    BY <1>5, <2>1, <1>f, <1>a, <1>b DEF NpuVol, Transfer, SetSel, TypeOK, CallInv, RestoreInv,
       NotPoisoned
  <2>3. BoardInv' /\ VoltageInv'
    BY <1>5, <2>1, <1>f, <1>a, <1>b DEF NpuVol, Transfer, SetSel, TypeOK, CallInv, BoardInv, BoardOk,
       VoltageInv, All
  <2> QED BY <2>1, <2>2, <2>3
<1>6. CASE NpuCheck
  <2>1. TypeOK'
    BY <1>6, <1>b DEF NpuCheck, Get, TypeOK, CallInv
  <2>2. CallInv' /\ RestoreInv'
    BY <1>6, <2>1, <1>f, <1>a, <1>b DEF NpuCheck, Get, TypeOK, CallInv, RestoreInv, NotPoisoned
  <2>3. BoardInv' /\ VoltageInv'
    BY <1>6, <2>1, <1>f, <1>a, <1>b DEF NpuCheck, Get, TypeOK, CallInv, BoardInv, BoardOk, VoltageInv,
       All
  <2> QED BY <2>1, <2>2, <2>3
<1>7. CASE SdRead
  <2>1. TypeOK'
    BY <1>7, <1>b DEF SdRead, Get, TypeOK, CallInv
  <2>2. CallInv' /\ RestoreInv'
    BY <1>7, <2>1, <1>f, <1>a, <1>b DEF SdRead, Get, TypeOK, CallInv, RestoreInv, NotPoisoned
  <2>3. BoardInv' /\ VoltageInv'
    BY <1>7, <2>1, <1>f, <1>a, <1>b DEF SdRead, Get, TypeOK, CallInv, BoardInv, BoardOk, VoltageInv,
       All
  <2> QED BY <2>1, <2>2, <2>3
<1>8. CASE SdOn
  <2>1. TypeOK'
    BY <1>8, <1>b DEF SdOn, Transfer, SetOn, TypeOK, CallInv
  <2>2. CallInv' /\ RestoreInv'
    BY <1>8, <2>1, <1>f, <1>a, <1>b DEF SdOn, Transfer, SetOn, TypeOK, CallInv, RestoreInv,
       NotPoisoned
  <2>3. BoardInv' /\ VoltageInv'
    BY <1>8, <2>1, <1>f, <1>a, <1>b DEF SdOn, Transfer, SetOn, TypeOK, CallInv, BoardInv, BoardOk,
       VoltageInv, All
  <2> QED BY <2>1, <2>2, <2>3
<1> QED BY <1>1, <1>2, <1>3, <1>4, <1>5, <1>6, <1>7, <1>8

\* The chip is ready, and its rails are what the caller set them to, at every
\* step that relies on it.
THEOREM PmicInductive == Spec => []IInv
<1>1. IInv /\ [Next]_vars => IInv'
  BY CountsKept, ProbeKept, SettingKept, BoardKept DEF Next, Over, IInv
<1> QED BY InitIInv, <1>1, PTL DEF Spec

\* Whichever transfers fail, boot0 goes on only with the rails it believes to
\* have set: no failed access to the extended page makes a later regulator
\* transfer land elsewhere, and success of sunxi_board_init means the eMMC,
\* NPU and card rails are as it asked.
THEOREM PmicRailsTrue == Spec => []RailsTrue
<1>1. IInv => RailsTrue
  BY DEF IInv, RestoreInv, BoardInv, RailsTrue
<1> QED BY <1>1, PmicInductive, PTL

\* A rail set_ddr_voltage_ext or configure_emmc_io switches on with a voltage
\* already has that voltage, or the least one above it, for every request.
THEOREM PmicOnAtVoltage == Spec => OnAtVoltage
<1> DEFINE At == \A r \in Rail : (~on[r] /\ on'[r] /\ req[2] > 0)
                                   => LeastNotBelow(KindOf[r], req[2], sel[r])
<1>1. IInv /\ [Next]_vars => [At]_vars
  <2> SUFFICES ASSUME IInv, Next, NEW r \in Rail, ~on[r], on'[r], req[2] > 0
               PROVE  LeastNotBelow(KindOf[r], req[2], sel[r])
    OBVIOUS
  <2>1. OnWrite /\ r = req[1]
    BY PmicAssumption
    DEF Next, IInv, TypeOK, BusInit, AlreadyInit, ChipId, Unlock, Efuse, PageExt, ConfigRead, Config,
      PageBack, EfuseBack, LockBack, Checked, ResetRead, ResetWrite, Vol, VolRead, VolWrite, OnRead,
      OnWrite, Served, SetDdrVoltage, Failed, EmmcSel, EmmcOn, NpuOnRead, NpuOn, NpuVol, NpuCheck, SdRead,
      SdOn, Over, vars, Transfer, Get, SetSel, SetOn, Extended, Restore, chip, Npu, Sd, All
  <2>2. sel[r] = Selector(KindOf[r], req[2]) /\ req[2] \in Nat
    BY <2>1 DEF OnWrite, Transfer, IInv, TypeOK, VoltageInv
  <2>3. KindOf[r] \in RailKind
    BY PmicAssumption
  <2> QED BY <2>2, <2>3, SelectorLeast
<1> QED BY <1>1, PmicInductive, PTL DEF Spec, OnAtVoltage
=============================================================================
