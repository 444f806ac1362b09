------------------------------ MODULE ClockProofs ------------------------------
(***************************************************************************)
(* Proofs about Clock: for every number of stable reads, every timeout and *)
(* every divider an earlier stage may have left, the buses are safe at     *)
(* every step of a7s_clock_init and a7s_clock_reset, the two end where     *)
(* they say, and no PLL is touched while a bus depends on it.  And about   *)
(* ClockDiag: whatever the registers hold that a7s_clock_init leaves       *)
(* alone, what the dump prints afterwards is true.                         *)
(***************************************************************************)
EXTENDS ClockDiag, TLAPS

Touching == {"check", "recheck", "program", "lock"}
Sampling == {"check", "recheck", "lock"}
Phase    == {"down", "pll", "dist", "up", "ok", "err", "fel"} \cup Touching

CfgType == [n : 1..256, d : 1..128]
PllType == [enable : BOOLEAN, ldo : BOOLEAN, locken : BOOLEAN, out : BOOLEAN,
            cfg : CfgType, sdm : BOOLEAN]

TypeOK ==
  /\ dcxo \in {19200, 24000, 26000}
  /\ found \in PllType
  /\ pll \in [Pll -> PllType]
  /\ phys \in [Pll -> {"off", "settling", "locked"}]
  /\ bus \in [Bus -> [src : {"sys24", "peri"}, div : Nat \ {0}]]
  /\ dist \in BOOLEAN /\ was \in BOOLEAN
  /\ stuck \subseteq Bus \cup {"dist"}
  /\ pc \in Phase /\ i \in 1..9 /\ cur \in 1..3
  /\ good \in Nat /\ hi \in Nat /\ t \in Nat
  /\ ret \in {"pll", "err", "fel"}

(***************************************************************************)
(* A PLL is off exactly when it is disabled.                               *)
(***************************************************************************)
PllInv == \A p \in Pll : (phys[p] = "off") = ~ pll[p].enable

(***************************************************************************)
(* REFPLL's register is as it was found until a7s_pll_program writes it.   *)
(***************************************************************************)
FoundInv ==
  (pc = "down" /\ ret = "pll") \/ (pc \in {"pll", "check", "recheck"} /\ cur = 1)
    => pll["ref"] = found

(***************************************************************************)
(* A count of stable reads that is complete was made of a locked PLL.      *)
(***************************************************************************)
SampleInv ==
  /\ good = hi
  /\ (pc \in Sampling /\ phys[P] # "locked") => good < StableReads

(***************************************************************************)
(* What a7s_pll_program has done of the PLL in hand.                       *)
(***************************************************************************)
HandInv ==
  /\ pc \in {"check", "recheck"} => Running(P) /\ (P # "ref" => pll[P].cfg = Wanted(P))
  /\ pc = "program" => i <= 6 /\ (i = 6 => pll[P].enable)
  /\ pc = "lock" => i = 7 /\ pll[P].enable /\ pll[P].locken
  /\ pc \in {"program", "lock"} =>
       /\ i > 2 => pll[P].out = ~ was /\ pll[P].ldo
       /\ i > 4 => pll[P].cfg = Wanted(P)

(***************************************************************************)
(* The PLLs handled before the one in hand are locked, open and at their   *)
(* factors, or, REFPLL, as it was found, and stay so until the buses have  *)
(* gone up.                                                                *)
(***************************************************************************)
RefReady   == Usable("ref") /\ (pll["ref"].cfg = Factors(dcxo) \/ pll["ref"] = found)
Peri0Ready == Usable("peri0") /\ pll["peri0"].cfg = PeriFactors

ReadyInv ==
  /\ pc \in {"pll"} \cup Touching => /\ cur > 1 => RefReady
                                     /\ cur > 2 => Peri0Ready
  /\ pc \in {"dist", "up", "ok"} => RefReady /\ Peri0Ready
  /\ pc \in {"up", "ok"} => dist

(***************************************************************************)
(* How far the buses have got.  FirstWrite(b) is the step that makes the first of *)
(* the two writes of bus b.                                                *)
(***************************************************************************)
FirstWrite(b) == CASE b = "ahb" -> 1 [] b = "apb0" -> 3 [] b = "apb1" -> 5 [] OTHER -> 7

DownInv ==
  pc = "down" => \A b \in Bus \ stuck : /\ i > FirstWrite(b) => bus[b].src = "sys24"
                                        /\ i > FirstWrite(b) + 1 => bus[b].div = 1

UpInv ==
  pc = "up" => \A b \in Bus :
    /\ bus[b].src = IF b \notin stuck /\ i > FirstWrite(b) + 1 THEN "peri" ELSE "sys24"
    /\ bus[b].div = IF b \notin stuck /\ i > FirstWrite(b) THEN NominalDiv(b) ELSE 1

RestInv ==
  /\ pc \in {"pll", "dist"} \cup Touching => \A b \in Bus : OnSys24(b)
  /\ pc \in {"err", "fel"} => \A b \in Bus \ stuck : OnSys24(b)
  /\ pc = "ok" => \A b \in Bus : AtNominal(b)

(***************************************************************************)
(* The inductive invariant.                                                *)
(***************************************************************************)
IInv ==
  /\ TypeOK /\ PllInv /\ FoundInv /\ SampleInv /\ HandInv /\ ReadyInv
  /\ DownInv /\ UpInv /\ RestInv
  /\ BusHasSource /\ NoOverclock

-----------------------------------------------------------------------------
(* The operators. *)

\* REFPLL's factors make 24 MHz of each crystal.
LEMMA CrystalFactors ==
  ASSUME dcxo \in {19200, 24000, 26000}
  PROVE  /\ Factors(dcxo) \in CfgType
         /\ (dcxo * Factors(dcxo).n) \div Factors(dcxo).d = 24000
<1>1. CASE dcxo = 19200  BY <1>1 DEF Factors, CfgType
<1>2. CASE dcxo = 24000  BY <1>2 DEF Factors, CfgType
<1>3. CASE dcxo = 26000  BY <1>3 DEF Factors, CfgType
<1> QED  BY <1>1, <1>2, <1>3

\* The quotient of natural numbers.
LEMMA Quotient ==
  ASSUME NEW m \in Nat, NEW d \in Nat \ {0}
  PROVE  m \div d \in Nat /\ m \div d <= m
OBVIOUS

\* REFPLL's rate is a natural number, whatever factors it has.
LEMMA RefRateType ==
  ASSUME TypeOK
  PROVE  RefRate \in Nat
<1>1. pll["ref"].cfg \in CfgType /\ dcxo \in Nat
  BY DEF TypeOK, PllType, Pll
<1>2. \A n \in 1..256 : dcxo * n \in Nat
  BY <1>1
<1>3. \A m \in Nat : \A d \in 1..128 : m \div d \in Nat
  BY Quotient
<1> QED  BY <1>1, <1>2, <1>3 DEF RefRate, CfgType

\* A bus on the crystal is not faster than it, whatever its divider.
LEMMA Sys24Slow == TypeOK => \A b \in Bus : bus[b].src = "sys24" => Rate(b) <= Ceiling(b)
<1> SUFFICES ASSUME TypeOK, NEW b \in Bus, bus[b].src = "sys24" PROVE Rate(b) <= Ceiling(b)
  OBVIOUS
<1>1. dcxo \in Nat /\ bus[b].div \in Nat \ {0}
  BY DEF TypeOK
<1>2. Rate(b) = dcxo \div bus[b].div /\ Ceiling(b) = dcxo
  BY DEF Rate, SourceRate, Ceiling
<1> QED  BY <1>1, <1>2, Quotient

\* A bus at its nominal divider has exactly the nominal share of what PERI0
\* makes of REFPLL.
LEMMA NominalShare ==
  ASSUME NEW b \in Bus, NEW x \in Nat
  PROVE  ((x * 100) \div (IF b = "uart" THEN 5 ELSE 4)) \div NominalDiv(b) = (Nominal(b) * x) \div 24
<1>1. CASE b = "uart"
  <2>1. ((x * 100) \div 5) \div 20 = x /\ (24 * x) \div 24 = x
    OBVIOUS
  <2> QED  BY <2>1, <1>1 DEF NominalDiv, Nominal
<1>2. CASE b = "ahb"
  <2>1. ((x * 100) \div 4) \div 3 = (200 * x) \div 24
    OBVIOUS
  <2> QED  BY <2>1, <1>2 DEF NominalDiv, Nominal
<1>3. CASE b \in {"apb0", "apb1"}
  <2>1. ((x * 100) \div 4) \div 6 = (100 * x) \div 24
    OBVIOUS
  <2> QED  BY <2>1, <1>3 DEF NominalDiv, Nominal
<1> QED  BY <1>1, <1>2, <1>3 DEF Bus

\* So its rate is nominal, scaled by REFPLL.
LEMMA NominalRate ==
  TypeOK /\ Peri0Ready => \A b \in Bus : bus[b].src = "peri" /\ bus[b].div = NominalDiv(b) =>
                           Rate(b) = Scaled(b) /\ Rate(b) <= Ceiling(b)
<1> SUFFICES ASSUME TypeOK, Peri0Ready, NEW b \in Bus, bus[b].src = "peri", bus[b].div = NominalDiv(b)
             PROVE  Rate(b) = Scaled(b) /\ Rate(b) <= Ceiling(b)
  OBVIOUS
<1>1. pll["peri0"].cfg.n = 100
  BY DEF Peri0Ready, PeriFactors
<1>2. Rate(b) = ((RefRate * 100) \div (IF b = "uart" THEN 5 ELSE 4)) \div NominalDiv(b)
  BY <1>1 DEF Rate, SourceRate
<1>3. Rate(b) = Scaled(b) /\ Ceiling(b) = Scaled(b)
  BY <1>2, RefRateType, NominalShare DEF Scaled, Ceiling
<1>4. Scaled(b) \in Int
  BY RefRateType DEF Scaled, Nominal
<1> QED  BY <1>3, <1>4

\* Both of the state after a step.
LEMMA SlowNext ==
  TypeOK' => \A b \in Bus :
    \/ bus'[b].src = "sys24"
    \/ Peri0Ready' /\ bus'[b].src = "peri" /\ bus'[b].div = NominalDiv(b)
    => Rate(b)' <= Ceiling(b)'
<1>1. (TypeOK => \A b \in Bus : bus[b].src = "sys24" => Rate(b) <= Ceiling(b))'
  BY Sys24Slow, PTL
<1>2. (TypeOK /\ Peri0Ready => \A b \in Bus : bus[b].src = "peri" /\ bus[b].div = NominalDiv(b) =>
                                Rate(b) = Scaled(b) /\ Rate(b) <= Ceiling(b))'
  BY NominalRate, PTL
<1>3. \A b \in Bus : NominalDiv(b)' = NominalDiv(b) /\ Bus' = Bus
  BY DEF NominalDiv, Bus
<1> QED  BY <1>1, <1>2, <1>3 DEF NominalDiv

\* The two writes of a bus are the steps FirstWrite(b) and FirstWrite(b) + 1.
LEMMA BusSteps ==
  ASSUME NEW k \in 1..8
  PROVE  /\ BusAt(k) \in Bus
         /\ First(k) => k = FirstWrite(BusAt(k))
         /\ ~ First(k) => k = FirstWrite(BusAt(k)) + 1
         /\ \A b \in Bus : b # BusAt(k) => k \notin {FirstWrite(b), FirstWrite(b) + 1}
<1>1. CASE k = 1  BY <1>1 DEF BusAt, First, FirstWrite, Buses, Bus
<1>5. CASE k = 2  BY <1>5 DEF BusAt, First, FirstWrite, Buses, Bus
<1>2. CASE k \in {3, 4}  BY <1>2 DEF BusAt, First, FirstWrite, Buses, Bus
<1>3. CASE k \in {5, 6}  BY <1>3 DEF BusAt, First, FirstWrite, Buses, Bus
<1>4. CASE k \in {7, 8}  BY <1>4 DEF BusAt, First, FirstWrite, Buses, Bus
<1> QED  BY <1>1, <1>2, <1>3, <1>4, <1>5

\* The PLL in hand.
LEMMA InHand ==
  ASSUME cur \in 1..3
  PROVE  /\ P \in Pll
         /\ (cur = 1) = (P = "ref") /\ (cur = 2) = (P = "peri0") /\ (cur = 3) = (P = "peri1")
BY DEF P, Plls, Pll

\* A bus whose registers, and the factors its rate depends on, do not change
\* keeps its rate.
LEMMA RateKept ==
  ASSUME NEW b \in Bus, bus'[b] = bus[b], dcxo' = dcxo,
         pll["ref"].cfg' = pll["ref"].cfg, pll["peri0"].cfg' = pll["peri0"].cfg
  PROVE  Rate(b)' = Rate(b) /\ Ceiling(b)' = Ceiling(b)
BY DEF Rate, SourceRate, RefRate, Ceiling, Scaled, Nominal

\* A write of one field of a PLL's register keeps its type and the rest.
LEMMA RegWrite ==
  ASSUME NEW r \in PllType, NEW v \in BOOLEAN, NEW f \in CfgType
  PROVE  /\ [r EXCEPT !.sdm = v] \in PllType /\ [r EXCEPT !.out = v] \in PllType
         /\ [r EXCEPT !.locken = v] \in PllType /\ [r EXCEPT !.enable = v] \in PllType
         /\ [r EXCEPT !.cfg = f] \in PllType /\ [r EXCEPT !.ldo = v] \in PllType
<1>1. [r EXCEPT !.sdm = v] \in PllType     BY DEF PllType
<1>2. [r EXCEPT !.out = v] \in PllType     BY DEF PllType
<1>3. [r EXCEPT !.locken = v] \in PllType  BY DEF PllType
<1>4. [r EXCEPT !.enable = v] \in PllType  BY DEF PllType
<1>5. [r EXCEPT !.cfg = f] \in PllType     BY DEF PllType
<1>6. [r EXCEPT !.ldo = v] \in PllType     BY DEF PllType
<1> QED  BY <1>1, <1>2, <1>3, <1>4, <1>5, <1>6

-----------------------------------------------------------------------------
(* The initial states. *)

\* Every state an earlier boot stage may leave satisfies the invariant.
LEMMA InitIInv == Init => IInv
<1> SUFFICES ASSUME Init PROVE IInv
  OBVIOUS
<1>1. dcxo \in {19200, 24000, 26000} /\ Factors(dcxo) \in CfgType
  BY CrystalFactors DEF Init
<1>2. /\ pll["ref"] = Off([n |-> 1, d |-> 1])
         \/ \E f \in RefFactors \cup {Factors(dcxo)} : pll["ref"] \in {On(f), Unseen(f)}
      /\ pll["peri0"] \in {Off(PeriFactors), On(PeriFactors), On([n |-> 50, d |-> 1]),
                           [On(PeriFactors) EXCEPT !.sdm = TRUE]}
      /\ pll["peri1"] \in {Off(PeriFactors), On(PeriFactors), Unseen(PeriFactors)}
      /\ pll = [p \in Pll |-> pll[p]]
  BY DEF Init, Pll
<1>3. \A f \in CfgType : Off(f) \in PllType /\ On(f) \in PllType /\ Unseen(f) \in PllType
  BY DEF Off, On, Unseen, PllType
<1>4. PeriFactors \in CfgType /\ [n |-> 1, d |-> 1] \in CfgType /\ [n |-> 50, d |-> 1] \in CfgType
  BY DEF PeriFactors, CfgType
<1>15. [On(PeriFactors) EXCEPT !.sdm = TRUE] \in PllType
  BY <1>3, <1>4, RegWrite
<1>5. pll \in [Pll -> PllType]
  <2>2. pll["ref"] \in PllType
    <3>1. RefFactors \cup {Factors(dcxo)} \subseteq CfgType
      BY <1>1, ClockAssumption DEF CfgType
    <3> QED  BY <3>1, <1>2, <1>3, <1>4
  <2>3. pll["peri0"] \in PllType
    BY <1>2, <1>3, <1>4, <1>15
  <2>4. pll["peri1"] \in PllType
    BY <1>2, <1>3, <1>4
  <2>1. \A p \in Pll : pll[p] \in PllType
    BY <2>2, <2>3, <2>4 DEF Pll
  <2> QED  BY <1>2, <2>1
<1>6. phys \in [Pll -> {"off", "settling", "locked"}]
  BY DEF Init, Pll
<1>7. bus \in [Bus -> [src : {"sys24", "peri"}, div : Nat \ {0}]]
  BY ClockAssumption DEF Init
<1>8. TypeOK
  <2>1. stuck \subseteq Bus \cup {"dist"}
    BY DEF Init
  <2>2. dist \in BOOLEAN /\ was \in BOOLEAN /\ pc \in Phase /\ ret \in {"pll", "err", "fel"}
    <3>1. dist \in BOOLEAN /\ was = FALSE /\ pc = "down" /\ ret = "pll"
      BY DEF Init
    <3> QED  BY <3>1 DEF Phase
  <2>3. i \in 1..9 /\ cur \in 1..3 /\ good \in Nat /\ hi \in Nat /\ t \in Nat
    BY DEF Init
  <2>4. found \in PllType
    BY <1>5 DEF Init, Pll
  <2> QED  BY <1>1, <1>5, <1>6, <1>7, <2>1, <2>2, <2>3, <2>4 DEF TypeOK
<1>9. PllInv /\ FoundInv
  BY DEF PllInv, FoundInv, Init
<1>10. pll["ref"].enable => pll["ref"].out
  <2>1. \A f : ~ Off(f).enable /\ On(f).out /\ Unseen(f).out
    BY DEF Off, On, Unseen
  <2> QED  BY <1>2, <2>1
<1>11. BusHasSource
  BY <1>8, <1>9, <1>10 DEF Init, BusHasSource, PllInv, Pll
<1>12. NoOverclock
  BY DEF Init, NoOverclock
<1>13. SampleInv /\ HandInv /\ ReadyInv /\ UpInv /\ RestInv
  BY DEF Init, SampleInv, HandInv, ReadyInv, UpInv, RestInv, Touching, Sampling
<1>14. DownInv
  BY DEF Init, DownInv, FirstWrite, Bus
<1> QED  BY <1>8, <1>9, <1>11, <1>12, <1>13, <1>14 DEF IInv

-----------------------------------------------------------------------------
(* The steps of the buses. *)

\* A write to a bus changes one field of it, unless its register is stuck.
LEMMA BusWrite ==
  ASSUME TypeOK, NEW b \in Bus,
         \/ \E v \in {"sys24", "peri"} : SetBus(b, "src", v)
         \/ \E v \in Nat \ {0} : SetBus(b, "div", v)
  PROVE  bus' \in [Bus -> [src : {"sys24", "peri"}, div : Nat \ {0}]]
BY DEF TypeOK, SetBus

\* a7s_bus_switch_to_sys24 keeps the invariant.
LEMMA DownIInv == IInv /\ Down => IInv'
<1> SUFFICES ASSUME IInv, Down PROVE IInv'
  OBVIOUS
<1> DEFINE b == BusAt(i)
<1>0. i \in 1..8 /\ TypeOK /\ UNCHANGED <<env, pll, phys, dist, pc, cur, was, good, t, hi, ret>>
  BY DEF IInv, TypeOK, Down
<1>1. /\ b \in Bus
      /\ First(i) => i = FirstWrite(b)
      /\ ~ First(i) => i = FirstWrite(b) + 1
      /\ \A c \in Bus : c # b => i \notin {FirstWrite(c), FirstWrite(c) + 1}
  BY <1>0, BusSteps
<1>2. /\ First(i) => SetBus(b, "src", "sys24")
      /\ ~ First(i) => SetBus(b, "div", 1)
  BY DEF Down, DownStep
<1>3. \A c \in Bus : FirstWrite(c) \in 1..7
  BY DEF FirstWrite
<1> HIDE DEF b
<1>4. TypeOK'
  <2>1. bus' \in [Bus -> [src : {"sys24", "peri"}, div : Nat \ {0}]]
    BY <1>0, <1>1, <1>2, BusWrite
  <2>2. i' \in 1..9
    BY <1>0 DEF Down
  <2> QED  BY <1>0, <2>1, <2>2 DEF TypeOK, env
<1>5. \A c \in Bus : \/ bus'[c] = bus[c]
                     \/ c = b /\ bus'[c].src = "sys24"
  <2>1. CASE First(i)
    BY <2>1, <1>0, <1>1, <1>2 DEF SetBus, TypeOK
  <2>2. CASE ~ First(i) /\ b \notin stuck
    <3>1. bus[b].src = "sys24"
      BY <2>2, <1>0, <1>1, <1>3 DEF IInv, DownInv, Down
    <3> QED  BY <3>1, <2>2, <1>0, <1>1, <1>2 DEF SetBus, TypeOK
  <2>3. CASE b \in stuck
    BY <2>3, <1>2 DEF SetBus
  <2> QED  BY <2>1, <2>2, <2>3
<1>6. DownInv'
  BY <1>0, <1>1, <1>2, <1>3 DEF IInv, DownInv, Down, SetBus, TypeOK, env
<1>7. BusHasSource'
  BY <1>0, <1>4, <1>5 DEF IInv, BusHasSource, UsesPeri, Usable, Running
<1>8. NoOverclock'
  <2> SUFFICES ASSUME NEW c \in Bus PROVE Rate(c)' <= Ceiling(c)'
    BY DEF NoOverclock
  <2>1. CASE bus'[c] = bus[c]
    BY <2>1, <1>0, RateKept DEF IInv, NoOverclock, env
  <2>2. CASE bus'[c].src = "sys24"
    BY <2>2, <1>4, SlowNext
  <2> QED  BY <2>1, <2>2, <1>5
<1>9. (PllInv /\ FoundInv /\ SampleInv /\ HandInv /\ ReadyInv /\ UpInv /\ RestInv)'
  BY <1>0 DEF Down, IInv, PllInv, FoundInv, SampleInv, HandInv, ReadyInv, UpInv, RestInv, Touching, Sampling,
              RefReady, Peri0Ready, Usable, Running, P, env
<1> QED  BY <1>4, <1>6, <1>7, <1>8, <1>9 DEF IInv

\* The check behind the switch to 24 MHz keeps the invariant.
LEMMA DownDoneIInv == IInv /\ DownDone => IInv'
<1> SUFFICES ASSUME IInv, DownDone PROVE IInv'
  OBVIOUS
<1>0. TypeOK /\ i = 9 /\ UNCHANGED <<env, pll, phys, bus, dist, was, good, t, hi, ret>>
  BY DEF IInv, TypeOK, DownDone
<1>1. \A b \in Bus \ stuck : OnSys24(b)
  BY <1>0 DEF IInv, DownInv, DownDone, OnSys24, TypeOK, FirstWrite
<1>2. pc' = "pll" => \A b \in Bus : OnSys24(b)
  BY <1>0 DEF DownDone, TypeOK
<1>3. pc' \in {"pll", "err", "fel"} /\ cur' = 1 /\ i' = 1
  BY <1>0 DEF DownDone, TypeOK
<1>4. TypeOK'
  BY <1>0, <1>3 DEF TypeOK, env, Phase
<1>5. (BusHasSource /\ PllInv /\ FoundInv)'
  BY <1>0, <1>3, <1>4 DEF IInv, BusHasSource, UsesPeri, Usable, Running, PllInv, FoundInv, DownDone, env
<1>6. NoOverclock'
  BY <1>0 DEF IInv, NoOverclock, Rate, SourceRate, RefRate, Ceiling, Scaled, Nominal, env
<1>7. (RestInv /\ DownInv /\ UpInv)'
  BY <1>0, <1>1, <1>2, <1>3 DEF RestInv, DownInv, UpInv, OnSys24, Touching, env
<1>8. (SampleInv /\ HandInv /\ ReadyInv)'
  BY <1>0, <1>3 DEF IInv, SampleInv, HandInv, ReadyInv, Touching, Sampling
<1> QED  BY <1>4, <1>5, <1>6, <1>7, <1>8 DEF IInv

\* a7s_bus_switch_up keeps the invariant.
LEMMA UpIInv == IInv /\ Up => IInv'
<1> SUFFICES ASSUME IInv, Up PROVE IInv'
  OBVIOUS
<1> DEFINE b == BusAt(i)
<1>0. i \in 1..8 /\ TypeOK /\ UNCHANGED <<env, pll, phys, dist, pc, cur, was, good, t, hi, ret>>
  BY DEF IInv, TypeOK, Up
<1>1. /\ b \in Bus
      /\ First(i) => i = FirstWrite(b)
      /\ ~ First(i) => i = FirstWrite(b) + 1
      /\ \A c \in Bus : c # b => i \notin {FirstWrite(c), FirstWrite(c) + 1}
  BY <1>0, BusSteps
<1>2. /\ First(i) => SetBus(b, "div", NominalDiv(b))
      /\ ~ First(i) => SetBus(b, "src", "peri")
  BY DEF Up, UpStep
<1>3. \A c \in Bus : FirstWrite(c) \in 1..7 /\ NominalDiv(c) \in Nat \ {0}
  BY DEF FirstWrite, NominalDiv
<1> HIDE DEF b
<1>4. TypeOK'
  <2>1. bus' \in [Bus -> [src : {"sys24", "peri"}, div : Nat \ {0}]]
    BY <1>0, <1>1, <1>2, <1>3, BusWrite
  <2>2. i' \in 1..9
    BY <1>0 DEF Up
  <2> QED  BY <1>0, <2>1, <2>2 DEF TypeOK, env
<1>5. UpInv'
  <2> SUFFICES ASSUME NEW c \in Bus
               PROVE  /\ bus'[c].src = IF c \notin stuck /\ i + 1 > FirstWrite(c) + 1 THEN "peri" ELSE "sys24"
                      /\ bus'[c].div = IF c \notin stuck /\ i + 1 > FirstWrite(c) THEN NominalDiv(c) ELSE 1
    BY <1>0 DEF UpInv, Up, env
  <2>0. /\ bus[c].src = IF c \notin stuck /\ i > FirstWrite(c) + 1 THEN "peri" ELSE "sys24"
        /\ bus[c].div = IF c \notin stuck /\ i > FirstWrite(c) THEN NominalDiv(c) ELSE 1
    BY DEF IInv, UpInv, Up
  <2>1. CASE c # b
    <3>1. bus'[c] = bus[c]
      BY <2>1, <1>0, <1>1, <1>2 DEF SetBus, TypeOK
    <3> QED  BY <3>1, <2>0, <2>1, <1>0, <1>1, <1>3
  <2>2. CASE c = b /\ b \in stuck
    BY <2>0, <2>2, <1>2 DEF SetBus
  <2>3. CASE c = b /\ b \notin stuck
    BY <2>0, <2>3, <1>0, <1>1, <1>2, <1>3 DEF SetBus, TypeOK
  <2> QED  BY <2>1, <2>2, <2>3
<1>6. RefReady' /\ Peri0Ready' /\ dist'
  BY <1>0 DEF Up, IInv, ReadyInv, RefReady, Peri0Ready, Usable, Running, env
<1>7. BusHasSource'
  BY <1>6 DEF BusHasSource, RefReady, Peri0Ready, Usable, Running
<1>8. NoOverclock'
  <2> SUFFICES ASSUME NEW c \in Bus PROVE Rate(c)' <= Ceiling(c)'
    BY DEF NoOverclock
  <2>1. CASE bus'[c].src = "sys24"
    BY <2>1, <1>4, SlowNext
  <2>2. CASE bus'[c].src # "sys24"
    <3>1. bus'[c].div = NominalDiv(c) /\ bus'[c].src = "peri"
      BY <2>2, <1>5, <1>0, <1>3 DEF UpInv, Up
    <3> QED  BY <3>1, <1>4, <1>6, SlowNext
  <2> QED  BY <2>1, <2>2
<1>9. (PllInv /\ FoundInv /\ SampleInv /\ HandInv /\ ReadyInv /\ DownInv /\ RestInv)'
  BY <1>0, <1>6 DEF Up, IInv, PllInv, FoundInv, SampleInv, HandInv, ReadyInv, DownInv, RestInv, Touching, Sampling,
              P, env
<1> QED  BY <1>4, <1>5, <1>7, <1>8, <1>9 DEF IInv

\* The check behind the switch up keeps the invariant.
LEMMA UpDoneIInv == IInv /\ UpDone => IInv'
<1> SUFFICES ASSUME IInv, UpDone PROVE IInv'
  OBVIOUS
<1>0. TypeOK /\ UNCHANGED <<env, pll, phys, bus, dist, cur, was, good, t, hi>>
  BY DEF IInv, UpDone
<1>1. \/ pc' = "ok" /\ i' = i /\ ret' = ret /\ \A b \in Bus : AtNominal(b)
      \/ pc' = "down" /\ i' = 1 /\ ret' = "err"
  BY DEF UpDone, Back
<1>2. TypeOK'
  BY <1>0, <1>1 DEF TypeOK, env, Phase
<1>3. (BusHasSource /\ PllInv /\ FoundInv)'
  BY <1>0, <1>1, <1>2 DEF IInv, BusHasSource, UsesPeri, Usable, Running, PllInv, FoundInv, env
<1>4. NoOverclock'
  BY <1>0 DEF IInv, NoOverclock, Rate, SourceRate, RefRate, Ceiling, Scaled, Nominal, env
<1>5. DownInv'
  BY <1>1 DEF DownInv, FirstWrite
<1>6. (RestInv /\ UpInv)'
  BY <1>0, <1>1 DEF RestInv, UpInv, AtNominal, Touching
<1>7. (SampleInv /\ HandInv)'
  BY <1>0, <1>1 DEF IInv, SampleInv, HandInv, Touching, Sampling
<1>8. ReadyInv'
  BY <1>0, <1>1 DEF IInv, UpDone, ReadyInv, RefReady, Peri0Ready, Usable, Running, Touching, env
<1> QED  BY <1>2, <1>3, <1>4, <1>5, <1>6, <1>7, <1>8 DEF IInv

\* a7s_peri_distribution_enable keeps the invariant.
LEMMA DistributeIInv == IInv /\ Distribute => IInv'
<1> SUFFICES ASSUME IInv, Distribute PROVE IInv'
  OBVIOUS
<1>0. TypeOK /\ UNCHANGED <<env, pll, phys, bus, cur, was, good, t, hi>>
  BY DEF IInv, Distribute
<1>1. \/ pc' = "up" /\ i' = 1 /\ ret' = ret /\ dist'
      \/ pc' = "down" /\ i' = 1 /\ ret' = "err"
  BY DEF Distribute, Back
<1>2. TypeOK'
  <2>1. dist' \in BOOLEAN
    BY DEF Distribute
  <2> QED  BY <2>1, <1>0, <1>1 DEF TypeOK, env, Phase
<1>3. \A b \in Bus : OnSys24(b)
  BY DEF IInv, RestInv, Distribute
<1>4. (BusHasSource /\ PllInv /\ FoundInv)'
  BY <1>0, <1>1, <1>2, <1>3 DEF IInv, BusHasSource, UsesPeri, PllInv, FoundInv, OnSys24, env
<1>5. NoOverclock'
  BY <1>0 DEF IInv, NoOverclock, Rate, SourceRate, RefRate, Ceiling, Scaled, Nominal, env
<1>6. DownInv'
  BY <1>1 DEF DownInv, FirstWrite
<1>7. (RestInv /\ UpInv)'
  BY <1>0, <1>1, <1>3 DEF RestInv, UpInv, OnSys24, Touching, FirstWrite, env
<1>8. (SampleInv /\ HandInv)'
  BY <1>0, <1>1 DEF IInv, SampleInv, HandInv, Touching, Sampling
<1>9. ReadyInv'
  BY <1>0, <1>1 DEF IInv, Distribute, ReadyInv, RefReady, Peri0Ready, Usable, Running, Touching, env
<1> QED  BY <1>2, <1>4, <1>5, <1>6, <1>7, <1>8, <1>9 DEF IInv

\* a7s_clock_reset starts the switch to 24 MHz again.
LEMMA ResetIInv == IInv /\ Reset => IInv'
<1> SUFFICES ASSUME IInv, Reset PROVE IInv'
  OBVIOUS
<1>0. TypeOK /\ UNCHANGED <<env, pll, phys, bus, dist, cur, was, good, t, hi>>
      /\ pc' = "down" /\ i' = 1 /\ ret' = "fel"
  BY DEF IInv, Reset
<1>1. TypeOK'
  BY <1>0 DEF TypeOK, env, Phase
<1>2. (BusHasSource /\ PllInv /\ FoundInv)'
  BY <1>0, <1>1 DEF IInv, BusHasSource, UsesPeri, Usable, Running, PllInv, FoundInv, env
<1>3. NoOverclock'
  BY <1>0 DEF IInv, NoOverclock, Rate, SourceRate, RefRate, Ceiling, Scaled, Nominal, env
<1>4. (DownInv /\ RestInv /\ UpInv)'
  BY <1>0 DEF DownInv, RestInv, UpInv, Touching, FirstWrite
<1>5. (SampleInv /\ HandInv /\ ReadyInv)'
  BY <1>0 DEF IInv, SampleInv, HandInv, ReadyInv, Touching, Sampling
<1> QED  BY <1>1, <1>2, <1>3, <1>4, <1>5 DEF IInv

-----------------------------------------------------------------------------
(* The steps of the PLLs: the buses are on 24 MHz, and stay there. *)

\* Whatever a step does to a PLL, buses on 24 MHz are safe.
LEMMA OffPeri ==
  ASSUME TypeOK', bus' = bus, \A b \in Bus : OnSys24(b)
  PROVE  BusHasSource' /\ NoOverclock'
<1>1. \A b \in Bus : bus'[b].src = "sys24" /\ bus'[b].div = 1
  BY DEF OnSys24
<1>2. BusHasSource'
  BY <1>1 DEF BusHasSource, UsesPeri
<1>3. NoOverclock'
  BY <1>1, SlowNext DEF NoOverclock
<1> QED  BY <1>2, <1>3

\* Where the steps of the PLLs lead, as far as the buses are concerned.
LEMMA PllStepRest ==
  ASSUME bus' = bus, stuck' = stuck, \A b \in Bus : OnSys24(b),
         pc' \in {"pll", "dist", "err"} \cup Touching \/ (pc' = "down" /\ i' = 1)
  PROVE  (DownInv /\ UpInv /\ RestInv)'
BY DEF DownInv, UpInv, RestInv, OnSys24, FirstWrite, Touching

\* a7s_pll_is_running keeps the invariant.
LEMMA CheckIInv == IInv /\ Check => IInv'
<1> SUFFICES ASSUME IInv, Check PROVE IInv'
  OBVIOUS
<1>0. TypeOK /\ UNCHANGED <<env, pll, phys, bus, dist, cur, ret>> /\ \A b \in Bus : OnSys24(b)
  BY DEF IInv, Check, RestInv
<1>1. P \in Pll /\ P' = P /\ (cur = 1) = (P = "ref")
  BY <1>0, InHand DEF TypeOK, P
<1>2. pc' \in {"check", "program"} /\ i' = 1 /\ good' = 0 /\ t' = 0 /\ hi' = 0 /\ was' \in BOOLEAN
  BY <1>0, <1>1 DEF Check, TypeOK, PllType
<1>3. TypeOK'
  BY <1>0, <1>2 DEF TypeOK, env, Phase, Touching
<1>4. (BusHasSource /\ NoOverclock)'
  BY <1>0, <1>3, OffPeri
<1>5. (DownInv /\ UpInv /\ RestInv)'
  BY <1>0, <1>2, PllStepRest DEF env, Touching
<1>6. (PllInv /\ FoundInv)'
  BY <1>0 DEF IInv, Check, PllInv, FoundInv, env
<1>7. SampleInv'
  BY <1>0, <1>2, ClockAssumption DEF SampleInv
<1>8. HandInv'
  <2>1. pc' = "check" => Running(P) /\ (P # "ref" => pll[P].cfg = Wanted(P))
    BY <1>0, <1>1 DEF Check
  <2> QED  BY <2>1, <1>0, <1>1, <1>2 DEF HandInv, Running, Wanted, env
<1>9. ReadyInv'
  BY <1>0, <1>2 DEF Check, IInv, ReadyInv, RefReady, Peri0Ready, Usable, Running, Touching, env
<1> QED  BY <1>3, <1>4, <1>5, <1>6, <1>7, <1>8, <1>9 DEF IInv

\* A crystal whose rate is not known leaves REFPLL alone.
LEMMA DcxoUnknownIInv == IInv /\ DcxoUnknown => IInv'
<1> SUFFICES ASSUME IInv, DcxoUnknown PROVE IInv'
  OBVIOUS
<1>0. TypeOK /\ UNCHANGED <<env, pll, phys, bus, dist, cur, was, good, t, hi>>
      /\ \A b \in Bus : OnSys24(b)
  BY DEF IInv, DcxoUnknown, RestInv, Touching
<1>1. pc' = "err" /\ i' = i /\ ret' = ret
  BY DEF DcxoUnknown, PllFailed
<1>2. TypeOK'
  BY <1>0, <1>1 DEF TypeOK, env, Phase
<1>3. (BusHasSource /\ NoOverclock)'
  BY <1>0, <1>2, OffPeri
<1>4. (DownInv /\ UpInv /\ RestInv)'
  BY <1>0, <1>1, PllStepRest DEF env
<1>5. (PllInv /\ FoundInv /\ SampleInv /\ HandInv /\ ReadyInv)'
  BY <1>0, <1>1 DEF IInv, PllInv, FoundInv, SampleInv, HandInv, ReadyInv, Touching, Sampling, env
<1> QED  BY <1>2, <1>3, <1>4, <1>5 DEF IInv

\* What a write to the register of the PLL in hand does to the PLLs.
LEMMA PllWrite ==
  ASSUME TypeOK, PllInv, NEW new \in PllType, SetPll(new)
  PROVE  /\ pll' \in [Pll -> PllType] /\ phys' \in [Pll -> {"off", "settling", "locked"}]
         /\ PllInv'
         /\ pll'[P] = new
         /\ \A q \in Pll \ {P} : pll'[q] = pll[q] /\ (P # "ref" => phys'[q] = phys[q])
         /\ (pll[P].enable /\ new.enable /\ new.cfg = pll[P].cfg /\ new.sdm = pll[P].sdm)
              => phys' = phys
<1>0. P \in Pll
  BY InHand DEF TypeOK
<1>1. pll' = [pll EXCEPT ![P] = new] /\ phys' = Unsettle(P, new)
  BY DEF SetPll
<1>2. pll' \in [Pll -> PllType] /\ pll'[P] = new /\ \A q \in Pll \ {P} : pll'[q] = pll[q]
  BY <1>0, <1>1 DEF TypeOK
<1>3. phys' \in [Pll -> {"off", "settling", "locked"}]
  BY <1>0, <1>1 DEF TypeOK, Unsettle
<1>4. \A q \in Pll \ {P} : /\ P # "ref" => phys'[q] = phys[q]
                           /\ (phys'[q] = "off") = (phys[q] = "off")
  BY <1>0, <1>1 DEF TypeOK, Unsettle
<1>5. (phys'[P] = "off") = ~ new.enable
  <2>1. new.enable \in BOOLEAN /\ pll[P].enable \in BOOLEAN /\ (phys[P] = "off") = ~ pll[P].enable
    BY <1>0 DEF TypeOK, PllType, PllInv
  <2> QED  BY <2>1, <1>0, <1>1 DEF Unsettle
<1>6. PllInv'
  BY <1>2, <1>4, <1>5 DEF PllInv
<1>7. (pll[P].enable /\ new.enable /\ new.cfg = pll[P].cfg /\ new.sdm = pll[P].sdm) => phys' = phys
  <2> SUFFICES ASSUME pll[P].enable, new.enable, new.cfg = pll[P].cfg, new.sdm = pll[P].sdm
               PROVE  phys' = phys
    OBVIOUS
  <2>1. \A q \in Pll : phys'[q] = phys[q]
    BY <1>0, <1>1 DEF Unsettle
  <2> QED  BY <2>1, <1>3 DEF TypeOK
<1> QED  BY <1>2, <1>3, <1>4, <1>6, <1>7

\* a7s_pll_program, write by write, keeps the invariant.
LEMMA ProgramIInv == IInv /\ Program => IInv'
<1> SUFFICES ASSUME IInv, Program PROVE IInv'
  OBVIOUS
<1> DEFINE new == ProgramStep(i)
<1>0. TypeOK /\ UNCHANGED <<env, bus, dist, cur, was, ret>> /\ (\A b \in Bus : OnSys24(b))
      /\ i \in 1..6 /\ i' = i + 1 /\ pc' = (IF i = 6 THEN "lock" ELSE "program")
      /\ good' = 0 /\ t' = 0 /\ hi' = 0 /\ pc = "program"
  BY DEF IInv, Program, RestInv, Touching, TypeOK
<1>1. P \in Pll /\ P' = P /\ Wanted(P)' = Wanted(P) /\ Wanted(P) \in CfgType
      /\ (cur = 1) = (P = "ref") /\ (cur = 2) = (P = "peri0") /\ (cur = 3) = (P = "peri1")
  BY <1>0, InHand, CrystalFactors DEF TypeOK, P, Wanted, PeriFactors, CfgType, env
<1>2. pll[P] \in PllType /\ was \in BOOLEAN
  BY <1>0, <1>1 DEF TypeOK
<1>3. /\ i = 1 => new = [pll[P] EXCEPT !.sdm = FALSE]
      /\ i = 2 => new = [pll[P] EXCEPT !.out = ~ was, !.ldo = TRUE]
      /\ i = 3 => new = [pll[P] EXCEPT !.locken = IF was THEN FALSE ELSE @]
      /\ i = 4 => new = [pll[P] EXCEPT !.cfg = Wanted(P)]
      /\ i = 5 => new = [pll[P] EXCEPT !.enable = TRUE]
      /\ i = 6 => new = [pll[P] EXCEPT !.locken = TRUE]
  BY DEF ProgramStep
<1>4. SetPll(new)
  BY DEF Program
<1> HIDE DEF new
<1> DEFINE done == /\ new \in PllType
                   /\ i # 4 => new.cfg = pll[P].cfg
                   /\ i = 4 => new.cfg = Wanted(P)
                   /\ i # 5 => new.enable = pll[P].enable
                   /\ i > 1 => new.out = ~ was /\ new.ldo
                   /\ i > 4 => new.enable
                   /\ i = 6 => new.locken
<1>15. i = 6 => pll[P].enable
  BY DEF IInv, HandInv, Program
<1>16. i > 2 => pll[P].out = ~ was /\ pll[P].ldo
  BY <1>0 DEF IInv, HandInv
<1>5. done
  <2> DEFINE r == pll[P]
             w == Wanted(P)
  <2>0. r \in PllType /\ w \in CfgType
    BY <1>1, <1>2
  <2> HIDE DEF r, w
  <2>1. CASE i = 1
    <3>1. new = [r EXCEPT !.sdm = FALSE]  BY <2>1, <1>3 DEF r
    <3>2. new \in PllType                 BY <3>1, <2>0, RegWrite
    <3>3. new.cfg = r.cfg /\ new.enable = r.enable  BY <3>1, <2>0 DEF PllType
    <3> QED  BY <2>1, <3>2, <3>3 DEF r
  <2>2. CASE i = 2
    <3>1. new = [[r EXCEPT !.out = ~ was] EXCEPT !.ldo = TRUE]  BY <2>2, <1>3 DEF r
    <3>2. new \in PllType                 BY <3>1, <2>0, <1>2, RegWrite
    <3>3. new.cfg = r.cfg /\ new.enable = r.enable  BY <3>1, <2>0 DEF PllType
    <3>4. new.out = ~ was /\ new.ldo      BY <3>1, <2>0, <1>2 DEF PllType
    <3> QED  BY <2>2, <3>2, <3>3, <3>4 DEF r
  <2>3. CASE i = 3
    <3>1. new = [r EXCEPT !.locken = IF was THEN FALSE ELSE @]  BY <2>3, <1>3 DEF r
    <3>2. new \in PllType                 BY <3>1, <2>0, <1>2 DEF PllType
    <3>3. new.cfg = r.cfg /\ new.enable = r.enable /\ new.out = r.out /\ new.ldo = r.ldo
      BY <3>1, <2>0 DEF PllType
    <3> QED  BY <2>3, <3>2, <3>3, <1>16 DEF r
  <2>4. CASE i = 4
    <3>1. new = [r EXCEPT !.cfg = w]      BY <2>4, <1>3 DEF r, w
    <3>2. new \in PllType                 BY <3>1, <2>0, RegWrite
    <3>3. new.cfg = w /\ new.enable = r.enable /\ new.out = r.out /\ new.ldo = r.ldo
      BY <3>1, <2>0 DEF PllType
    <3> QED  BY <2>4, <3>2, <3>3, <1>16 DEF r, w
  <2>5. CASE i = 5
    <3>1. new = [r EXCEPT !.enable = TRUE]  BY <2>5, <1>3 DEF r
    <3>2. new \in PllType                 BY <3>1, <2>0, RegWrite
    <3>3. new.cfg = r.cfg /\ new.enable /\ new.out = r.out /\ new.ldo = r.ldo
      BY <3>1, <2>0 DEF PllType
    <3> QED  BY <2>5, <3>2, <3>3, <1>16 DEF r
  <2>6. CASE i = 6
    <3>1. new = [r EXCEPT !.locken = TRUE]  BY <2>6, <1>3 DEF r
    <3>2. new \in PllType                 BY <3>1, <2>0, RegWrite
    <3>3. new.cfg = r.cfg /\ new.enable = r.enable /\ new.out = r.out /\ new.ldo = r.ldo
      BY <3>1, <2>0 DEF PllType
    <3>4. new.locken                      BY <3>1, <2>0 DEF PllType
    <3> QED  BY <2>6, <3>2, <3>3, <3>4, <1>15, <1>16 DEF r
  <2> QED  BY <1>0, <2>1, <2>2, <2>3, <2>4, <2>5, <2>6
<1>6. i > 3 => new.cfg = Wanted(P)
  BY <1>0, <1>5 DEF IInv, HandInv
<1>7. FoundInv'
  BY <1>0 DEF FoundInv
<1>8. /\ pll' \in [Pll -> PllType] /\ phys' \in [Pll -> {"off", "settling", "locked"}]
      /\ PllInv'
      /\ pll'[P] = new
      /\ \A q \in Pll \ {P} : pll'[q] = pll[q] /\ (P # "ref" => phys'[q] = phys[q])
  BY <1>0, <1>5, <1>4, PllWrite DEF IInv
<1>9. TypeOK'
  BY <1>0, <1>8 DEF TypeOK, env, Phase, Touching
<1>10. (BusHasSource /\ NoOverclock)'
  BY <1>0, <1>9, OffPeri
<1>11. (DownInv /\ UpInv /\ RestInv)'
  BY <1>0, PllStepRest DEF env, Touching
<1>12. SampleInv'
  BY <1>0, ClockAssumption DEF SampleInv
<1>13. HandInv'
  BY <1>0, <1>1, <1>5, <1>6, <1>8 DEF HandInv, IInv
<1>14. ReadyInv'
  BY <1>0, <1>1, <1>8 DEF IInv, ReadyInv, RefReady, Peri0Ready, Usable, Running, Touching, env, Pll
<1> QED  BY <1>7, <1>8, <1>9, <1>10, <1>11, <1>12, <1>13, <1>14 DEF IInv

\* One sample of the LOCK bit keeps the invariant: a count that grows while the
\* PLL settles stays short of the reads that are asked for.
LEMMA SampleIInv == ASSUME NEW set \in BOOLEAN PROVE IInv /\ Sample(set) => IInv'
<1> SUFFICES ASSUME IInv, Sample(set) PROVE IInv'
  OBVIOUS
<1>0. TypeOK /\ UNCHANGED <<env, pll, phys, bus, dist, pc, i, cur, was, ret>>
      /\ pc \in Touching /\ \A b \in Bus : OnSys24(b)
  BY DEF IInv, Sample, RestInv, Touching
<1>1. P \in Pll /\ P' = P
  BY <1>0, InHand DEF TypeOK, P
<1>2. good' \in Nat /\ t' \in Nat /\ hi' \in Nat /\ good' = hi'
  BY <1>0 DEF Sample, Count, TypeOK, IInv, SampleInv
<1>3. TypeOK'
  BY <1>0, <1>2 DEF TypeOK, env
<1>4. SampleInv'
  <2>1. phys[P] # "locked" => hi' < StableReads
    BY <1>0, <1>1, ClockAssumption DEF Sample, TypeOK, IInv, SampleInv
  <2> QED  BY <2>1, <1>0, <1>1, <1>2 DEF SampleInv
<1>5. (BusHasSource /\ NoOverclock)'
  BY <1>0, <1>3, OffPeri
<1>6. (DownInv /\ UpInv /\ RestInv)'
  BY <1>0, PllStepRest DEF env
<1>7. (PllInv /\ FoundInv /\ HandInv /\ ReadyInv)'
  BY <1>0, <1>1 DEF IInv, PllInv, FoundInv, HandInv, ReadyInv, RefReady, Peri0Ready, Usable, Running, Wanted, env
<1> QED  BY <1>3, <1>4, <1>5, <1>6, <1>7 DEF IInv

\* Opening or closing the outputs of the PLL in hand leaves every PLL as it is.
LEMMA OutWrite ==
  ASSUME TypeOK, PllInv, NEW v \in BOOLEAN, SetPll([pll[P] EXCEPT !.out = v]), pll[P].enable
  PROVE  /\ pll' \in [Pll -> PllType] /\ phys' = phys /\ PllInv'
         /\ pll'[P].out = v /\ pll'[P].enable
         /\ pll'[P].ldo = pll[P].ldo /\ pll'[P].locken = pll[P].locken /\ pll'[P].cfg = pll[P].cfg
         /\ \A q \in Pll \ {P} : pll'[q] = pll[q]
<1> DEFINE r == pll[P]
           new == [r EXCEPT !.out = v]
<1>1. r \in PllType
  BY InHand DEF TypeOK
<1>2. new \in PllType
  <2> HIDE DEF r
  <2>1. r.cfg \in CfgType
    BY <1>1 DEF PllType
  <2> QED  BY <1>1, <2>1, RegWrite
<1>3. /\ new.out = v /\ new.enable = r.enable /\ new.ldo = r.ldo /\ new.locken = r.locken
      /\ new.cfg = r.cfg /\ new.sdm = r.sdm
  <2> HIDE DEF r
  <2> QED  BY <1>1 DEF PllType
<1>4. SetPll(new)
  OBVIOUS
<1> HIDE DEF new
<1>6. /\ pll' \in [Pll -> PllType] /\ PllInv' /\ pll'[P] = new
      /\ \A q \in Pll \ {P} : pll'[q] = pll[q]
  BY <1>2, <1>4, PllWrite
<1>7. phys' = phys
  BY <1>2, <1>3, <1>4, PllWrite
<1> QED  BY <1>3, <1>6, <1>7

\* A PLL found stable is locked, so the next one may build on it.
LEMMA StableIInv == IInv /\ Stable => IInv'
<1> SUFFICES ASSUME IInv, Stable PROVE IInv'
  OBVIOUS
<1>0. TypeOK /\ UNCHANGED <<env, bus, dist, i, was, good, t, hi, ret>> /\ (\A b \in Bus : OnSys24(b))
      /\ pc \in Sampling
  BY DEF IInv, Stable, RestInv, Touching, Sampling
<1>1. P \in Pll
      /\ (cur = 1) = (P = "ref") /\ (cur = 2) = (P = "peri0") /\ (cur = 3) = (P = "peri1")
  BY <1>0, InHand DEF TypeOK
<1>2. phys[P] = "locked"
  BY <1>0, ClockAssumption DEF IInv, SampleInv, Stable, TypeOK
<1>3. \/ cur = 3 /\ pc' = "dist" /\ cur' = cur
      \/ cur < 3 /\ pc' = "pll" /\ cur' = cur + 1
  BY <1>0 DEF Stable, NextPll, TypeOK
<1>4. pll[P].enable /\ pll[P].ldo /\ pll[P].locken /\ (P # "ref" \/ pc = "lock" => pll[P].cfg = Wanted(P))
  BY <1>0 DEF IInv, HandInv, Sampling, Running
<1>5. /\ pll' \in [Pll -> PllType] /\ phys' = phys /\ PllInv'
      /\ \A q \in Pll \ {P} : pll'[q] = pll[q]
      /\ pll'[P].enable /\ pll'[P].ldo /\ pll'[P].locken /\ pll'[P].out
      /\ P # "ref" \/ pc = "lock" => pll'[P].cfg = Wanted(P)
      /\ pc # "lock" => pll' = pll
  <2>1. CASE pc = "lock" /\ was
    <3>1. SetPll([pll[P] EXCEPT !.out = TRUE])
      BY <2>1, <1>0 DEF Stable
    <3>2. /\ pll' \in [Pll -> PllType] /\ phys' = phys /\ PllInv'
          /\ pll'[P].out = TRUE /\ pll'[P].enable
          /\ pll'[P].ldo = pll[P].ldo /\ pll'[P].locken = pll[P].locken /\ pll'[P].cfg = pll[P].cfg
          /\ \A q \in Pll \ {P} : pll'[q] = pll[q]
      BY <3>1, <1>0, <1>4, OutWrite DEF IInv
    <3> QED  BY <3>2, <2>1, <1>4
  <2>2. CASE ~ (pc = "lock" /\ was)
    <3>1. pll' = pll /\ phys' = phys
      BY <2>2, <1>0 DEF Stable
    <3>2. pll[P].out
      <4>1. CASE pc = "lock"
        <5>1. was = FALSE /\ i > 2
          BY <4>1, <2>2 DEF IInv, TypeOK, HandInv
        <5> QED  BY <4>1, <5>1 DEF IInv, HandInv
      <4>2. CASE pc # "lock"
        BY <4>2, <1>0 DEF IInv, HandInv, Running, Sampling
      <4> QED  BY <4>1, <4>2
    <3>3. PllInv'
      BY <3>1 DEF IInv, PllInv
    <3> QED  BY <3>1, <3>2, <3>3, <1>0, <1>4 DEF TypeOK
  <2> QED  BY <2>1, <2>2
<1>6. TypeOK'
  BY <1>0, <1>3, <1>5 DEF TypeOK, env, Phase
<1>7. (BusHasSource /\ NoOverclock)'
  BY <1>0, <1>6, OffPeri
<1>8. (DownInv /\ UpInv /\ RestInv)'
  BY <1>0, <1>3, PllStepRest DEF env
<1>9. (SampleInv /\ HandInv /\ FoundInv)'
  BY <1>0, <1>3 DEF IInv, SampleInv, HandInv, FoundInv, Sampling, TypeOK
<1>10. ReadyInv'
  <2>0. Wanted("ref") = Factors(dcxo) /\ Wanted("peri0") = PeriFactors /\ dcxo' = dcxo /\ found' = found
    BY <1>0 DEF Wanted, env
  <2>1. CASE cur = 1
    <3>1. pc # "lock" => pll["ref"] = found
      BY <2>1, <1>0 DEF IInv, FoundInv, Sampling
    <3>2. RefReady'
      BY <3>1, <2>0, <2>1, <1>1, <1>2, <1>5 DEF RefReady, Usable, Running
    <3> QED  BY <3>2, <2>1, <1>3 DEF ReadyInv, Touching
  <2>2. CASE cur = 2
    <3>1. RefReady'
      BY <2>0, <2>2, <1>0, <1>1, <1>5 DEF IInv, ReadyInv, RefReady, Usable, Running,
                                          Sampling, Touching, Pll
    <3>2. Peri0Ready'
      BY <2>0, <2>2, <1>1, <1>2, <1>5 DEF Peri0Ready, Usable, Running
    <3> QED  BY <3>1, <3>2, <2>2, <1>3 DEF ReadyInv
  <2>3. CASE cur = 3
    <3>1. RefReady' /\ Peri0Ready'
      BY <2>0, <2>3, <1>0, <1>1, <1>5 DEF IInv, ReadyInv, RefReady, Peri0Ready, Usable, Running,
                                          Sampling, Touching, Pll
    <3> QED  BY <3>1, <2>3, <1>3 DEF ReadyInv
  <2> QED  BY <1>0, <2>1, <2>2, <2>3 DEF TypeOK
<1> QED  BY <1>5, <1>6, <1>7, <1>8, <1>9, <1>10 DEF IInv

\* A wait that ends without a lock keeps the invariant.
LEMMA UnstableIInv == IInv /\ Unstable => IInv'
<1> SUFFICES ASSUME IInv, Unstable PROVE IInv'
  OBVIOUS
<1>0. TypeOK /\ UNCHANGED <<env, bus, dist, cur, was>> /\ (\A b \in Bus : OnSys24(b))
      /\ good' = 0 /\ t' = 0 /\ hi' = 0 /\ pc \in Sampling
  BY DEF IInv, Unstable, RestInv, Touching, Sampling
<1>1. P \in Pll /\ P' = P /\ Wanted(P)' = Wanted(P)
      /\ (cur = 1) = (P = "ref") /\ (cur = 2) = (P = "peri0") /\ (cur = 3) = (P = "peri1")
  BY <1>0, InHand DEF TypeOK, P, Wanted, env
<1>2. CASE pc # "lock"
  <2>1. pc' \in {"recheck", "program"} /\ i' = 1 /\ UNCHANGED <<pll, phys, ret>>
    BY <1>2 DEF Unstable
  <2>2. TypeOK'
    BY <2>1, <1>0 DEF TypeOK, env, Phase, Touching
  <2>3. (BusHasSource /\ NoOverclock)'
    BY <1>0, <2>2, OffPeri
  <2>4. (DownInv /\ UpInv /\ RestInv)'
    BY <1>0, <2>1, PllStepRest DEF env, Touching
  <2>5. SampleInv'
    BY <1>0, ClockAssumption DEF SampleInv
  <2>6. (PllInv /\ FoundInv /\ HandInv /\ ReadyInv)'
    BY <2>1, <1>0, <1>1, <1>2 DEF IInv, PllInv, FoundInv, Unstable, HandInv, ReadyInv, RefReady, Peri0Ready, Usable, Running,
                                  Wanted, Sampling, Touching, env
  <2> QED  BY <2>2, <2>3, <2>4, <2>5, <2>6 DEF IInv
<1>3. CASE pc = "lock"
  <2>0. SetPll([pll[P] EXCEPT !.out = FALSE]) /\ pll[P].enable
    BY <1>0, <1>3 DEF Unstable, IInv, HandInv
  <2>1. pll' \in [Pll -> PllType] /\ phys' = phys /\ PllInv'
    BY <2>0, <1>0, OutWrite DEF IInv
  <2>2. \/ pc' = "down" /\ i' = 1 /\ ret' = "err"
        \/ pc' = "err" /\ i' = i /\ ret' = ret
    BY <1>3 DEF Unstable, PllFailed, Back
  <2>3. TypeOK'
    BY <2>1, <2>2, <1>0 DEF TypeOK, env, Phase
  <2>4. (BusHasSource /\ NoOverclock)'
    BY <1>0, <2>3, OffPeri
  <2>5. (DownInv /\ UpInv /\ RestInv)'
    BY <1>0, <2>2, PllStepRest DEF env
  <2>6. (SampleInv /\ FoundInv /\ HandInv /\ ReadyInv)'
    BY <1>0, <2>2 DEF FoundInv, SampleInv, HandInv, ReadyInv, Sampling, Touching
  <2> QED  BY <2>1, <2>3, <2>4, <2>5, <2>6 DEF IInv
<1> QED  BY <1>2, <1>3

\* A PLL that settles keeps the invariant, whatever the program does meanwhile.
LEMMA SettleIInv == IInv /\ Settle => IInv'
<1> SUFFICES ASSUME IInv, Settle PROVE IInv'
  OBVIOUS
<1>0. TypeOK /\ UNCHANGED <<env, pll, bus, dist, pc, ctl>> /\ P' = P
  BY DEF IInv, Settle, ctl, P
<1>1. P \in Pll
  BY <1>0, InHand DEF TypeOK
<1>2. /\ phys' \in [Pll -> {"off", "settling", "locked"}]
      /\ phys'[P] = "locked" /\ phys[P] = "settling"
      /\ \A q \in Pll \ {P} : phys'[q] = phys[q]
  BY <1>0, <1>1 DEF Settle, TypeOK
<1>3. TypeOK'
  BY <1>0, <1>2 DEF TypeOK, env, ctl
<1>4. \A q \in Pll : /\ (phys'[q] = "off") = (phys[q] = "off")
                     /\ phys[q] = "locked" => phys'[q] = "locked"
  BY <1>1, <1>2
<1>5. PllInv' /\ FoundInv'
  BY <1>0, <1>4 DEF IInv, PllInv, FoundInv, env, ctl
<1>6. BusHasSource'
  BY <1>0, <1>4 DEF IInv, BusHasSource, UsesPeri, Usable, Running, Pll
<1>7. NoOverclock'
  BY <1>0 DEF IInv, NoOverclock, Rate, SourceRate, RefRate, Ceiling, Scaled, Nominal, env
<1>8. SampleInv'
  BY <1>0, <1>2 DEF IInv, SampleInv, ctl
<1>9. HandInv'
  BY <1>0 DEF IInv, HandInv, Running, Wanted, env, ctl
<1>10. ReadyInv'
  BY <1>0, <1>4 DEF IInv, ReadyInv, RefReady, Peri0Ready, Usable, Running, env, ctl, Pll
<1>11. (DownInv /\ UpInv /\ RestInv)'
  BY <1>0 DEF IInv, DownInv, UpInv, RestInv, OnSys24, AtNominal, env, ctl
<1> QED  BY <1>3, <1>5, <1>6, <1>7, <1>8, <1>9, <1>10, <1>11 DEF IInv

\* Every step keeps the invariant.
LEMMA NextIInv == IInv /\ [Next]_vars => IInv'
<1> SUFFICES ASSUME IInv, [Next]_vars PROVE IInv'
  OBVIOUS
<1>1. CASE UNCHANGED vars
  <2>1. TypeOK'
    BY <1>1 DEF vars, IInv, TypeOK
  <2>2. (PllInv /\ FoundInv /\ SampleInv /\ HandInv /\ ReadyInv)'
    BY <1>1 DEF vars, IInv, PllInv, FoundInv, SampleInv, HandInv, ReadyInv, RefReady, Peri0Ready, Usable, Running,
                Wanted, P
  <2>3. (DownInv /\ UpInv /\ RestInv)'
    BY <1>1 DEF vars, IInv, DownInv, UpInv, RestInv, OnSys24, AtNominal
  <2>4. (BusHasSource /\ NoOverclock)'
    BY <1>1 DEF vars, IInv, BusHasSource, UsesPeri, Usable, Running, NoOverclock, Rate, SourceRate, RefRate,
                Ceiling, Scaled, Nominal
  <2> QED  BY <2>1, <2>2, <2>3, <2>4 DEF IInv
<1>2. CASE Next
  BY <1>1, <1>2, DownIInv, DownDoneIInv, UpIInv, UpDoneIInv, DistributeIInv, CheckIInv, DcxoUnknownIInv,
     ProgramIInv, SampleIInv, StableIInv, UnstableIInv, SettleIInv, ResetIInv DEF Next, Fel
<1> QED  BY <1>1, <1>2

-----------------------------------------------------------------------------
(* The results. *)

(***************************************************************************)
(* The invariant holds in every state a7s_clock_init and a7s_clock_reset   *)
(* reach.                                                                  *)
(***************************************************************************)
THEOREM ClockInductive == Spec => []IInv
BY InitIInv, NextIInv, PTL DEF Spec

(***************************************************************************)
(* A bus that runs from PERI0 always has its source, and no bus is faster  *)
(* than the crystal or than its nominal rate scaled by REFPLL, between any *)
(* two register writes, whichever register is stuck and whatever factors a *)
(* REFPLL was found with.                                                  *)
(***************************************************************************)
THEOREM ClockBusesSafe == Spec => []BusesSafe
<1>1. IInv => BusesSafe
  BY DEF IInv, BusesSafe
<1> QED  BY <1>1, ClockInductive, PTL

\* At the end of a7s_clock_init the buses are where it says.
LEMMA OutcomeInv == IInv => Outcome
<1> SUFFICES ASSUME IInv PROVE Outcome
  OBVIOUS
<1>1. pc \in {"err", "fel"} => \A b \in Bus \ stuck : OnSys24(b)
  BY DEF IInv, RestInv
<1>2. ASSUME pc = "ok"
      PROVE  RefRate = 24000 \/ (pll["ref"] = found /\ Running("ref"))
  <2>1. RefReady /\ dcxo \in {19200, 24000, 26000}
    BY <1>2 DEF IInv, ReadyInv, TypeOK
  <2>2. CASE pll["ref"].cfg = Factors(dcxo)
    BY <2>1, <2>2, CrystalFactors DEF RefRate
  <2> QED  BY <2>1, <2>2 DEF RefReady, Usable
<1>3. ASSUME pc = "ok", NEW b \in Bus
      PROVE  AtNominal(b) /\ Rate(b) = Scaled(b)
  <2>1. AtNominal(b)
    BY <1>3 DEF IInv, RestInv
  <2>2. TypeOK /\ Peri0Ready
    BY <1>3 DEF IInv, ReadyInv
  <2> QED  BY <2>1, <2>2, NominalRate DEF AtNominal
<1> QED  BY <1>1, <1>2, <1>3 DEF Outcome

(***************************************************************************)
(* A failed a7s_clock_init, and a7s_clock_reset, leave every bus whose     *)
(* register works on the crystal.  Success leaves REFPLL at 24 MHz or as it *)
(* was found, and all four buses at exactly the share of it that is nominal *)
(* at 24 MHz, whatever the crystal and the factors found.                   *)
(***************************************************************************)
THEOREM ClockOutcome == Spec => []Outcome
BY OutcomeInv, ClockInductive, PTL

(***************************************************************************)
(* No register of a PLL is written while a bus depends on it, and a PLL    *)
(* that was running settles behind closed outputs.                         *)
(***************************************************************************)
THEOREM ClockIsolated == Spec => Isolated
<1> DEFINE A == /\ pll' # pll => \A b \in Bus : ~ UsesPeri(b)
                /\ pc \in {"program", "lock"} /\ was /\ i > 2 /\ phys[P] = "settling" => ~ pll[P].out
<1>1. IInv /\ [Next]_vars => [A]_vars
  <2> SUFFICES ASSUME IInv, [Next]_vars PROVE A \/ UNCHANGED vars
    OBVIOUS
  <2>1. pll' # pll => pc \in Touching
    BY DEF Next, vars, Down, DownDone, Up, UpDone, Distribute, Check, DcxoUnknown, Program, Sample,
           Stable, Unstable, Settle, Reset, Fel, Touching
  <2>2. pll' # pll => \A b \in Bus : ~ UsesPeri(b)
    BY <2>1 DEF IInv, RestInv, OnSys24, UsesPeri
  <2>3. pc \in {"program", "lock"} /\ was /\ i > 2 => ~ pll[P].out
    BY DEF IInv, HandInv
  <2> QED  BY <2>2, <2>3
<1> QED  BY <1>1, ClockInductive, PTL DEF Spec, Isolated

-----------------------------------------------------------------------------
(***************************************************************************)
(* ClockDiag                                                               *)
(***************************************************************************)

\* The bits lo .. lo + w - 1 are field x of the layout and no other field.
Field(layout, x, lo, w) ==
  /\ x \in DOMAIN layout /\ layout[x] = <<lo, w>>
  /\ \A y \in DOMAIN layout : layout[y] = <<lo, w>> => y = x

\* Reading the bits of a field is reading the field.
LEMMA GetField ==
  ASSUME NEW layout, NEW v, NEW x, NEW lo, NEW w, Field(layout, x, lo, w)
  PROVE  Get(Reg(layout, v), lo, w) = Reg(layout, v).v[x]
<1>1. Reg(layout, v).layout = layout
  BY DEF Reg
<1>2. {y \in DOMAIN layout : layout[y] = <<lo, w>>} = {x}
  BY DEF Field
<1> HIDE DEF Reg
<1>3. (CHOOSE y \in {x} : TRUE) = x
  OBVIOUS
<1> QED  BY <1>1, <1>2, <1>3 DEF Get

\* a7s_div_rate only spares a division of 0.
LEMMA DivRate ==
  ASSUME NEW a \in Nat, NEW b \in Nat \ {0}
  PROVE  a7s_div_rate(a, b) = a \div b /\ a \div b \in Nat
BY DEF a7s_div_rate

(* The layouts: the bits the C code shifts to are the fields of the header. *)

\* The fields of a PLL with one output, where the diagnostic reads them.
LEMMA OneOutputFields ==
  LET L == Merge(PllCommon, OneOutput)
  IN  /\ Field(L, "PLL_EN", 31, 1) /\ Field(L, "LOCK_ENABLE", 29, 1) /\ Field(L, "LOCK", 28, 1)
      /\ Field(L, "PLL_N", 8, 8) /\ Field(L, "PLL_INPUT_DIV", 1, 1)
      /\ Field(L, "PLL_FREF_SEL", 24, 1) /\ Field(L, "PLL_OUTPUT_GATE", 27, 1)
      /\ Field(L, "PLL_OUTPUT_DIV", 20, 3)
BY DEF Field, Merge, PllCommon, OneOutput, Bit, Bits

\* The fields of a PLL with two outputs.
LEMMA TwoOutputsFields ==
  LET L == Merge(PllCommon, TwoOutputs)
  IN  /\ Field(L, "PLL_EN", 31, 1) /\ Field(L, "LOCK_ENABLE", 29, 1) /\ Field(L, "LOCK", 28, 1)
      /\ Field(L, "PLL_N", 8, 8) /\ Field(L, "PLL_INPUT_DIV", 1, 1)
      /\ Field(L, "PLL_FREF_SEL", 24, 1) /\ Field(L, "PLL_OUTPUT0_GATE", 27, 1)
      /\ Field(L, "PLL_OUTPUT0_DIV", 20, 3) /\ Field(L, "PLL_OUTPUT1_GATE", 26, 1)
      /\ Field(L, "PLL_OUTPUT1_DIV", 16, 3)
<1> DEFINE R ==
           [PLL_EN |-> Bit(31), PLL_LDO_EN |-> Bit(30), LOCK_ENABLE |-> Bit(29), LOCK |-> Bit(28),
            PLL_N |-> Bits(15, 8), PLL_UNLOCK_MDSEL |-> Bits(7, 6), PLL_LOCK_MDSEL |-> Bit(5),
            PLL_INPUT_DIV |-> Bit(1),
            PLL_OUTPUT0_GATE |-> Bit(27), PLL_OUTPUT1_GATE |-> Bit(26), PLL_FREF_SEL |-> Bit(24),
            PLL_OUTPUT0_DIV |-> Bits(22, 20), PLL_OUTPUT1_DIV |-> Bits(18, 16)]
<1>1. Merge(PllCommon, TwoOutputs) = R
  BY DEF Merge, PllCommon, TwoOutputs
<1> HIDE DEF R
<1>2. Field(R, "PLL_EN", 31, 1) /\ Field(R, "LOCK_ENABLE", 29, 1)
  BY DEF R, Field, Bit, Bits
<1>3. Field(R, "LOCK", 28, 1) /\ Field(R, "PLL_N", 8, 8)
  BY DEF R, Field, Bit, Bits
<1>4. Field(R, "PLL_INPUT_DIV", 1, 1) /\ Field(R, "PLL_FREF_SEL", 24, 1)
  BY DEF R, Field, Bit, Bits
<1>5. Field(R, "PLL_OUTPUT0_GATE", 27, 1) /\ Field(R, "PLL_OUTPUT0_DIV", 20, 3)
  BY DEF R, Field, Bit, Bits
<1>6. Field(R, "PLL_OUTPUT1_GATE", 26, 1) /\ Field(R, "PLL_OUTPUT1_DIV", 16, 3)
  BY DEF R, Field, Bit, Bits
<1> QED  BY <1>1, <1>2, <1>3, <1>4, <1>5, <1>6

\* The fields of a PLL with three outputs.
LEMMA ThreeOutputsFields ==
  LET L == PLL_PERI0_CTRL_REG
  IN  /\ Field(L, "PLL_EN", 31, 1) /\ Field(L, "LOCK_ENABLE", 29, 1) /\ Field(L, "LOCK", 28, 1)
      /\ Field(L, "PLL_N", 8, 8) /\ Field(L, "PLL_INPUT_DIV", 1, 1)
      /\ Field(L, "PLL_FREF_SEL", 24, 1) /\ Field(L, "PLL_OUTPUT0_GATE", 27, 1)
      /\ Field(L, "PLL_OUTPUT0_DIV", 20, 3) /\ Field(L, "PLL_OUTPUT1_GATE", 26, 1)
      /\ Field(L, "PLL_OUTPUT1_DIV", 16, 3) /\ Field(L, "PLL_OUTPUT2_GATE", 25, 1)
      /\ Field(L, "PLL_OUTPUT2_DIV", 2, 3)
<1> DEFINE R ==
           [PLL_EN |-> Bit(31), PLL_LDO_EN |-> Bit(30), LOCK_ENABLE |-> Bit(29), LOCK |-> Bit(28),
            PLL_N |-> Bits(15, 8), PLL_UNLOCK_MDSEL |-> Bits(7, 6), PLL_LOCK_MDSEL |-> Bit(5),
            PLL_INPUT_DIV |-> Bit(1),
            PLL_OUTPUT0_GATE |-> Bit(27), PLL_OUTPUT1_GATE |-> Bit(26), PLL_OUTPUT2_GATE |-> Bit(25),
            PLL_FREF_SEL |-> Bit(24), PLL_OUTPUT0_DIV |-> Bits(22, 20), PLL_OUTPUT1_DIV |-> Bits(18, 16),
            PLL_OUTPUT2_DIV |-> Bits(4, 2)]
<1>1. ThreeOutputs =
        [PLL_OUTPUT0_GATE |-> Bit(27), PLL_OUTPUT1_GATE |-> Bit(26), PLL_OUTPUT2_GATE |-> Bit(25),
         PLL_FREF_SEL |-> Bit(24), PLL_OUTPUT0_DIV |-> Bits(22, 20), PLL_OUTPUT1_DIV |-> Bits(18, 16),
         PLL_OUTPUT2_DIV |-> Bits(4, 2)]
  BY DEF ThreeOutputs, TwoOutputs, Merge
<1>2. PLL_PERI0_CTRL_REG = R
  BY <1>1 DEF Merge, PllCommon, PLL_PERI0_CTRL_REG
<1> HIDE DEF R
<1>3. Field(R, "PLL_EN", 31, 1) /\ Field(R, "LOCK_ENABLE", 29, 1)
  BY DEF R, Field, Bit, Bits
<1>4. Field(R, "LOCK", 28, 1) /\ Field(R, "PLL_N", 8, 8)
  BY DEF R, Field, Bit, Bits
<1>5. Field(R, "PLL_INPUT_DIV", 1, 1) /\ Field(R, "PLL_FREF_SEL", 24, 1)
  BY DEF R, Field, Bit, Bits
<1>6. Field(R, "PLL_OUTPUT0_GATE", 27, 1) /\ Field(R, "PLL_OUTPUT0_DIV", 20, 3)
  BY DEF R, Field, Bit, Bits
<1>7. Field(R, "PLL_OUTPUT1_GATE", 26, 1) /\ Field(R, "PLL_OUTPUT1_DIV", 16, 3)
  BY DEF R, Field, Bit, Bits
<1>8. Field(R, "PLL_OUTPUT2_GATE", 25, 1) /\ Field(R, "PLL_OUTPUT2_DIV", 2, 3)
  BY DEF R, Field, Bit, Bits
<1> QED  BY <1>2, <1>3, <1>4, <1>5, <1>6, <1>7, <1>8

\* The fields of the reference PLL, which has no choice of its source.
LEMMA RefFields ==
  LET L == PLL_REF_CTRL_REG
  IN  /\ Field(L, "PLL_EN", 31, 1) /\ Field(L, "LOCK_ENABLE", 29, 1) /\ Field(L, "LOCK", 28, 1)
      /\ Field(L, "PLL_N", 8, 8) /\ Field(L, "PLL_INPUT_DIV", 1, 1)
      /\ Field(L, "PLL_OUTPUT_GATE", 27, 1) /\ Field(L, "PLL_OUTPUT_DIV", 16, 7)
      /\ "PLL_FREF_SEL" \notin DOMAIN L
BY DEF Field, Merge, PllCommon, PLL_REF_CTRL_REG, Bit, Bits

\* The fields of audio PLL 0.
LEMMA Audio0Fields ==
  LET L == PLL_AUDIO0_CTRL_REG
  IN  /\ Field(L, "PLL_EN", 31, 1) /\ Field(L, "LOCK_ENABLE", 29, 1) /\ Field(L, "LOCK", 28, 1)
      /\ Field(L, "PLL_N", 8, 8) /\ Field(L, "PLL_INPUT_DIV", 1, 1)
      /\ Field(L, "PLL_FREF_SEL", 24, 1) /\ Field(L, "PLL_OUTPUT_GATE", 27, 1)
      /\ Field(L, "PLL_OUTPUT_DIV", 16, 7)
<1> DEFINE R ==
           [PLL_EN |-> Bit(31), PLL_LDO_EN |-> Bit(30), LOCK_ENABLE |-> Bit(29), LOCK |-> Bit(28),
            PLL_N |-> Bits(15, 8), PLL_UNLOCK_MDSEL |-> Bits(7, 6), PLL_LOCK_MDSEL |-> Bit(5),
            PLL_INPUT_DIV |-> Bit(1),
            PLL_OUTPUT_GATE |-> Bit(27), PLL_FREF_SEL |-> Bit(24), PLL_OUTPUT_DIV |-> Bits(22, 16)]
<1>1. Merge([PLL_OUTPUT_DIV |-> Bits(22, 16)], OneOutput) =
        [PLL_OUTPUT_GATE |-> Bit(27), PLL_FREF_SEL |-> Bit(24), PLL_OUTPUT_DIV |-> Bits(22, 16)]
  BY DEF OneOutput, Merge
<1>2. PLL_AUDIO0_CTRL_REG = R
  BY <1>1 DEF Merge, PllCommon, PLL_AUDIO0_CTRL_REG
<1> HIDE DEF R
<1>3. Field(R, "PLL_EN", 31, 1) /\ Field(R, "LOCK_ENABLE", 29, 1)
  BY DEF R, Field, Bit, Bits
<1>4. Field(R, "LOCK", 28, 1) /\ Field(R, "PLL_N", 8, 8)
  BY DEF R, Field, Bit, Bits
<1>5. Field(R, "PLL_INPUT_DIV", 1, 1) /\ Field(R, "PLL_FREF_SEL", 24, 1)
  BY DEF R, Field, Bit, Bits
<1>6. Field(R, "PLL_OUTPUT_GATE", 27, 1) /\ Field(R, "PLL_OUTPUT_DIV", 16, 7)
  BY DEF R, Field, Bit, Bits
<1> QED  BY <1>2, <1>3, <1>4, <1>5, <1>6

\* The fields of the bus clocks; only some of them have a gate.
LEMMA ClockFields ==
  /\ \A L \in {AHB_CLK_REG.fields, APB0_CLK_REG.fields, APB1_CLK_REG.fields} :
       Field(L, "SEL", 24, 2) /\ Field(L, "M", 0, 5) /\ "GATING" \notin DOMAIN L
  /\ Field(APB_UART_CLK_REG.fields, "SEL", 24, 3) /\ Field(APB_UART_CLK_REG.fields, "M", 0, 5)
  /\ "GATING" \notin DOMAIN APB_UART_CLK_REG.fields
  /\ Field(GIC_CLK_REG.fields, "SEL", 24, 2) /\ Field(GIC_CLK_REG.fields, "M", 0, 5)
  /\ Field(GIC_CLK_REG.fields, "GATING", 31, 1)
  /\ \A L \in {NSI_CLK_REG.fields, MBUS_CLK_REG.fields} :
       Field(L, "SEL", 24, 3) /\ Field(L, "M", 0, 5) /\ Field(L, "GATING", 31, 1)
BY DEF Field, AHB_CLK_REG, APB0_CLK_REG, APB1_CLK_REG, APB_UART_CLK_REG, GIC_CLK_REG, NSI_CLK_REG,
       MBUS_CLK_REG, Bit, Bits

-----------------------------------------------------------------------------
\* A register holds numbers; a field of it holds them modulo its width.
Numbers(v) == \A x \in DOMAIN v : v[x] \in Nat

\* The bits a shift and a mask read are the field of that name.
LEMMA FieldValue ==
  ASSUME NEW layout, NEW v, Numbers(v), NEW x, NEW lo, NEW w \in {1, 2, 3, 5, 7, 8},
         Field(layout, x, lo, w)
  PROVE  /\ Reg(layout, v).v[x] = IF x \in DOMAIN v THEN v[x] % 2 ^ w ELSE 0
         /\ Reg(layout, v).v[x] \in Nat
<1>1. x \in DOMAIN layout /\ layout[x] = <<lo, w>> /\ layout[x][2] = w
  BY DEF Field
<1>2. Reg(layout, v).v[x] = IF x \in DOMAIN v THEN v[x] % 2 ^ w ELSE 0
  BY <1>1 DEF Reg
<1>3. 2 ^ w \in Nat \ {0}
  <2>1. CASE w = 1  BY <2>1
  <2>2. CASE w = 2  BY <2>2
  <2>3. CASE w = 3  BY <2>3
  <2>4. CASE w = 5  BY <2>4
  <2>5. CASE w = 7  BY <2>5
  <2>6. CASE w = 8  BY <2>6
  <2> QED  BY <2>1, <2>2, <2>3, <2>4, <2>5, <2>6
<1>4. ASSUME x \in DOMAIN v PROVE v[x] % 2 ^ w \in Nat
  <2>1. \A m \in Nat, n \in Nat \ {0} : m % n \in Nat
    OBVIOUS
  <2> QED  BY <2>1, <1>3, <1>4 DEF Numbers
<1> QED  BY <1>2, <1>4

\* The bits that a7s_main_pll_output reads for output out.
PllFields(layout) ==
  /\ Field(layout, "PLL_EN", 31, 1) /\ Field(layout, "PLL_N", 8, 8)
  /\ Field(layout, "PLL_INPUT_DIV", 1, 1)

OutputFields(layout, out, g, lo, w) ==
  PllFields(layout) /\ Field(layout, out[1], g, 1) /\ Field(layout, out[2], lo, w)

\* What it makes of them is the rate by the header's names.
LEMMA OutputByName ==
  ASSUME NEW layout, NEW v, Numbers(v), NEW out, NEW g, NEW lo, NEW w \in {3, 7},
         OutputFields(layout, out, g, lo, w), NEW xo \in Nat, NEW ref \in Nat
  PROVE  /\ NamedOutput(Reg(layout, v), xo, ref, out) \in Nat
         /\ Field(layout, "PLL_FREF_SEL", 24, 1) =>
              a7s_main_pll_output(Reg(layout, v), a7s_main_pll_input(Reg(layout, v), xo, ref), lo, w, g)
                = NamedOutput(Reg(layout, v), xo, ref, out)
         /\ "PLL_FREF_SEL" \notin DOMAIN layout =>
              a7s_main_pll_output(Reg(layout, v), xo, lo, w, g) = NamedOutput(Reg(layout, v), xo, ref, out)
<1> DEFINE reg == Reg(layout, v)
           r == reg.v
           from == IF "PLL_FREF_SEL" \in DOMAIN r /\ r["PLL_FREF_SEL"] = 1 THEN ref ELSE xo
           top == from * (r["PLL_N"] + 1)
           bot == (r["PLL_INPUT_DIV"] + 1) * (r[out[2]] + 1)
<1>0. DOMAIN r = DOMAIN layout
  BY DEF Reg
<1>1. /\ Get(reg, 31, 1) = r["PLL_EN"] /\ Get(reg, g, 1) = r[out[1]] /\ Get(reg, 8, 8) = r["PLL_N"]
      /\ Get(reg, 1, 1) = r["PLL_INPUT_DIV"] /\ Get(reg, lo, w) = r[out[2]]
  BY GetField DEF OutputFields, PllFields
<1>2. r["PLL_N"] \in Nat /\ r["PLL_INPUT_DIV"] \in Nat /\ r[out[2]] \in Nat
  BY FieldValue DEF OutputFields, PllFields
<1>3. ASSUME Field(layout, "PLL_FREF_SEL", 24, 1)
      PROVE  a7s_main_pll_input(reg, xo, ref) = from
  <2>1. Get(reg, 24, 1) = r["PLL_FREF_SEL"] /\ "PLL_FREF_SEL" \in DOMAIN r
    BY <1>0, <1>3, GetField DEF Field
  <2> QED  BY <2>1 DEF a7s_main_pll_input, IsSet
<1>4. ASSUME "PLL_FREF_SEL" \notin DOMAIN layout PROVE xo = from
  BY <1>0, <1>4
<1>5. NamedOutput(reg, xo, ref, out)
        = IF r["PLL_EN"] = 1 /\ r[out[1]] = 1 THEN top \div bot ELSE 0
  BY DEF NamedOutput
<1>6. a7s_main_pll_output(reg, from, lo, w, g)
        = IF r["PLL_EN"] = 1 /\ r[out[1]] = 1 THEN a7s_div_rate(top, bot) ELSE 0
  BY <1>1 DEF a7s_main_pll_output, IsSet
<1>7. from \in Nat
  OBVIOUS
<1> HIDE DEF reg, r, from
<1>8. top \in Nat /\ bot \in Nat \ {0}
  <2>1. \A m \in Nat, n \in Nat : m * (n + 1) \in Nat
    OBVIOUS
  <2>2. \A m \in Nat, n \in Nat : (m + 1) * (n + 1) \in Nat \ {0}
    <3>1. \A a, b \in Nat \ {0} : a * b \in Nat \ {0}
      OBVIOUS
    <3> QED  BY <3>1
  <2> QED  BY <2>1, <2>2, <1>2, <1>7
<1> HIDE DEF top, bot
<1>9. a7s_div_rate(top, bot) = top \div bot /\ top \div bot \in Nat
  BY <1>8, DivRate
<1>10. NamedOutput(reg, xo, ref, out) \in Nat
       /\ a7s_main_pll_output(reg, from, lo, w, g) = NamedOutput(reg, xo, ref, out)
  BY <1>5, <1>6, <1>9
<1> QED  BY <1>3, <1>4, <1>10 DEF reg, r

\* A clock reads its source from seq, which lists the header's sources.
LEMMA ClockByName ==
  ASSUME NEW def, NEW v, Numbers(v), NEW w \in {2, 3}, Field(def.fields, "SEL", 24, w),
         Field(def.fields, "M", 0, 5), NEW s, NEW seq \in Seq(Nat), Len(def.src) = Len(seq),
         \A k \in 1 .. Len(seq) : seq[k] = s[def.src[k]]
  PROVE  LET reg == Reg(def.fields, v)
             rate == a7s_div_rate(Nth(seq, Get(reg, 24, w)), FactorM(reg))
         IN  /\ "GATING" \notin DOMAIN def.fields => rate = NamedRate(s, reg, def)
             /\ Field(def.fields, "GATING", 31, 1) =>
                  (IF ~ IsSet(reg, 31) THEN 0 ELSE rate) = NamedRate(s, reg, def)
<1> DEFINE reg == Reg(def.fields, v)
           r == reg.v
           sel == r["SEL"]
           m == r["M"] + 1
           named == IF sel < Len(def.src) THEN s[def.src[sel + 1]] \div m ELSE 0
<1>0. DOMAIN r = DOMAIN def.fields
  BY DEF Reg
<1>1. Get(reg, 24, w) = sel /\ FactorM(reg) = m
  BY GetField DEF FactorM
<1>2. sel \in Nat /\ r["M"] \in Nat
  BY FieldValue
<1>3. NamedRate(s, reg, def) = IF "GATING" \in DOMAIN r => r["GATING"] = 1 THEN named ELSE 0
  BY DEF NamedRate
<1>4. ASSUME Field(def.fields, "GATING", 31, 1)
      PROVE  "GATING" \in DOMAIN r /\ (IsSet(reg, 31) <=> r["GATING"] = 1)
  <2>1. Get(reg, 31, 1) = r["GATING"]
    BY <1>4, GetField
  <2>2. "GATING" \in DOMAIN r
    BY <1>0, <1>4 DEF Field
  <2> HIDE DEF r
  <2> QED  BY <2>1, <2>2 DEF IsSet
<1> HIDE DEF reg, r
<1>5. m \in Nat \ {0}
  BY <1>2
<1> HIDE DEF sel, m
<1>6. a7s_div_rate(Nth(seq, sel), m) = named
  <2>1. CASE sel < Len(seq)
    <3>1. sel + 1 \in 1 .. Len(seq) /\ Nth(seq, sel) = seq[sel + 1] /\ seq[sel + 1] \in Nat
      BY <1>2, <2>1 DEF Nth
    <3> QED  BY <1>5, <2>1, <3>1, DivRate
  <2>2. CASE ~ (sel < Len(seq))
    BY <1>5, <2>2, DivRate DEF Nth, a7s_div_rate
  <2> QED  BY <2>1, <2>2
<1> HIDE DEF named
<1>7. a7s_div_rate(Nth(seq, Get(reg, 24, w)), FactorM(reg)) = named
  BY <1>1, <1>6
<1> QED  BY <1>0, <1>3, <1>4, <1>7 DEF reg, r

-----------------------------------------------------------------------------
\* What a7s_clock_read_rates returns, field by field.
LEMMA RatesRead ==
  ASSUME NEW g
  PROVE  LET r == a7s_clock_read_rates(g)
             xo == a7s_dcxo_rate(g.xo)
             ref == a7s_ref_pll_rate(g.REF, xo)
             peri0 == PeriOutputs(g.PERI0, xo, ref)
             peri1 == PeriOutputs(g.PERI1, xo, ref)
         IN  /\ DOMAIN r = Rates
             /\ r.dcxo = xo /\ r.ref = ref
             /\ r.ddr = Output0(g.DDR, xo, ref) /\ r.npu = Output0(g.NPU, xo, ref)
             /\ r.de_3x = Output1(g.DE, xo, ref) /\ r.cci = Output0(g.CCI, xo, ref)
             /\ r.peri0_2x = peri0[1] /\ r.peri0_800 = peri0[2] /\ r.peri0_480 = peri0[3]
             /\ r.peri1_2x = peri1[1] /\ r.peri1_800 = peri1[2] /\ r.peri1_480 = peri1[3]
             /\ r.ahb = a7s_standard_bus_rate(g.AHB, r.dcxo, r.peri0_2x)
             /\ r.apb0 = a7s_standard_bus_rate(g.APB0, r.dcxo, r.peri0_2x)
             /\ r.apb1 = a7s_standard_bus_rate(g.APB1, r.dcxo, r.peri0_2x)
             /\ r.uart = a7s_uart_rate(g.UART, r.dcxo, r.peri0_2x, r.peri0_480)
             /\ r.gic = a7s_gic_rate(g.GIC, r) /\ r.nsi = a7s_nsi_rate(g.NSI, r)
             /\ r.mbus = a7s_mbus_rate(g.MBUS, r)
<1> DEFINE xo == a7s_dcxo_rate(g.xo)
           ref == a7s_ref_pll_rate(g.REF, xo)
           slow == a7s_cpu_slow_rate(g.slow, xo)
           plls == PllRates(g, xo, ref, PeriOutputs(g.PERI0, xo, ref), PeriOutputs(g.PERI1, xo, ref))
           cpus == CpuRates(g, plls, slow, ClusterRate(g.A_CLK, g.gate_a, slow, plls.cpu_a_pll, plls))
           some == Merge(plls, cpus)
           buses == BusRates(g, some)
           r == Merge(some, buses)
<1>1. a7s_clock_read_rates(g) = r
  BY DEF a7s_clock_read_rates
<1>2. DOMAIN plls = {"dcxo", "ref", "cpu_back_pll", "cpu_a_pll", "cpu_b_pll", "dsu_pll", "ddr", "npu",
                     "de_3x", "cci", "peri0_2x", "peri0_800", "peri0_480", "peri1_2x", "peri1_800",
                     "peri1_480"}
  BY DEF PllRates
<1>3. DOMAIN cpus = {"dsu", "dsu_axi", "dsu_gic", "dsu_apb", "cpu_a", "cpu_b"}
  BY DEF CpuRates, DsuRates, Merge
<1>4. DOMAIN buses = {"ahb", "apb0", "apb1", "uart", "gic", "nsi", "mbus"}
  BY DEF BusRates
<1> HIDE DEF cpus
<1>5. DOMAIN some = DOMAIN plls \cup DOMAIN cpus /\ \A x \in DOMAIN plls : some[x] = plls[x]
  BY DEF Merge
<1>6. DOMAIN r = DOMAIN some \cup DOMAIN buses /\ (\A x \in DOMAIN some : r[x] = some[x])
      /\ \A x \in DOMAIN buses \ DOMAIN some : r[x] = buses[x]
  BY DEF Merge
<1> HIDE DEF some, r
<1>7. DOMAIN r = Rates
  BY <1>2, <1>3, <1>4, <1>5, <1>6 DEF Rates
<1>8. \A x \in DOMAIN plls : r[x] = plls[x] /\ some[x] = plls[x]
  BY <1>5, <1>6
<1>9. /\ r.dcxo = plls.dcxo /\ r.ref = plls.ref /\ r.ddr = plls.ddr /\ r.npu = plls.npu
      /\ r.de_3x = plls.de_3x /\ r.cci = plls.cci /\ r.peri0_2x = plls.peri0_2x
      /\ r.peri0_800 = plls.peri0_800 /\ r.peri0_480 = plls.peri0_480 /\ r.peri1_2x = plls.peri1_2x
      /\ r.peri1_800 = plls.peri1_800 /\ r.peri1_480 = plls.peri1_480
      /\ some.dcxo = plls.dcxo /\ some.ddr = plls.ddr /\ some.npu = plls.npu
      /\ some.de_3x = plls.de_3x /\ some.cci = plls.cci /\ some.peri0_2x = plls.peri0_2x
      /\ some.peri0_800 = plls.peri0_800 /\ some.peri0_480 = plls.peri0_480
  BY <1>2, <1>8
<1>10. /\ r.ahb = buses.ahb /\ r.apb0 = buses.apb0 /\ r.apb1 = buses.apb1 /\ r.uart = buses.uart
       /\ r.gic = buses.gic /\ r.nsi = buses.nsi /\ r.mbus = buses.mbus
  BY <1>2, <1>3, <1>4, <1>5, <1>6
<1>11. /\ buses.ahb = a7s_standard_bus_rate(g.AHB, some.dcxo, some.peri0_2x)
       /\ buses.apb0 = a7s_standard_bus_rate(g.APB0, some.dcxo, some.peri0_2x)
       /\ buses.apb1 = a7s_standard_bus_rate(g.APB1, some.dcxo, some.peri0_2x)
       /\ buses.uart = a7s_uart_rate(g.UART, some.dcxo, some.peri0_2x, some.peri0_480)
       /\ buses.gic = a7s_gic_rate(g.GIC, some) /\ buses.nsi = a7s_nsi_rate(g.NSI, some)
       /\ buses.mbus = a7s_mbus_rate(g.MBUS, some)
  BY DEF BusRates
<1>12. /\ a7s_gic_rate(g.GIC, some) = a7s_gic_rate(g.GIC, r)
       /\ a7s_nsi_rate(g.NSI, some) = a7s_nsi_rate(g.NSI, r)
       /\ a7s_mbus_rate(g.MBUS, some) = a7s_mbus_rate(g.MBUS, r)
  BY <1>9 DEF a7s_gic_rate, a7s_nsi_rate, a7s_mbus_rate
<1>13. /\ plls.dcxo = xo /\ plls.ref = ref /\ plls.ddr = Output0(g.DDR, xo, ref)
       /\ plls.npu = Output0(g.NPU, xo, ref) /\ plls.de_3x = Output1(g.DE, xo, ref)
       /\ plls.cci = Output0(g.CCI, xo, ref)
       /\ plls.peri0_2x = PeriOutputs(g.PERI0, xo, ref)[1]
       /\ plls.peri0_800 = PeriOutputs(g.PERI0, xo, ref)[2]
       /\ plls.peri0_480 = PeriOutputs(g.PERI0, xo, ref)[3]
       /\ plls.peri1_2x = PeriOutputs(g.PERI1, xo, ref)[1]
       /\ plls.peri1_800 = PeriOutputs(g.PERI1, xo, ref)[2]
       /\ plls.peri1_480 = PeriOutputs(g.PERI1, xo, ref)[3]
  BY DEF PllRates
<1> HIDE DEF plls, buses, xo, ref
<1> QED
  <2>1. /\ r.ahb = a7s_standard_bus_rate(g.AHB, r.dcxo, r.peri0_2x)
        /\ r.apb0 = a7s_standard_bus_rate(g.APB0, r.dcxo, r.peri0_2x)
        /\ r.apb1 = a7s_standard_bus_rate(g.APB1, r.dcxo, r.peri0_2x)
        /\ r.uart = a7s_uart_rate(g.UART, r.dcxo, r.peri0_2x, r.peri0_480)
    BY <1>9, <1>10, <1>11
  <2>2. /\ r.gic = a7s_gic_rate(g.GIC, r) /\ r.nsi = a7s_nsi_rate(g.NSI, r)
        /\ r.mbus = a7s_mbus_rate(g.MBUS, r)
    BY <1>10, <1>11, <1>12
  <2> QED  BY <1>1, <1>7, <1>9, <1>13, <2>1, <2>2 DEF xo, ref

-----------------------------------------------------------------------------
\* REFPLL's register when the buses run from it.
LEMMA RefReg ==
  ASSUME TypeOK, PllInv, RefReady
  PROVE  \E v : /\ Numbers(v) /\ PllReg("ref") = Reg(PLL_REF_CTRL_REG, v)
                /\ {"PLL_EN", "LOCK_ENABLE", "LOCK", "PLL_N", "PLL_OUTPUT_GATE", "PLL_OUTPUT_DIV"}
                     \subseteq DOMAIN v
                /\ "PLL_INPUT_DIV" \notin DOMAIN v
                /\ v["PLL_EN"] = 1 /\ v["PLL_OUTPUT_GATE"] = 1 /\ v["LOCK_ENABLE"] = 1 /\ v["LOCK"] = 1
                /\ v["PLL_N"] = pll["ref"].cfg.n - 1 /\ v["PLL_OUTPUT_DIV"] = pll["ref"].cfg.d - 1
<1> DEFINE c == pll["ref"].cfg
           v == Merge([PLL_EN |-> Num(pll["ref"].enable), PLL_LDO_EN |-> Num(pll["ref"].ldo),
                       LOCK_ENABLE |-> Num(pll["ref"].locken), LOCK |-> Num(phys["ref"] = "locked"),
                       PLL_N |-> c.n - 1],
                      [PLL_OUTPUT_GATE |-> Num(pll["ref"].out), PLL_REG_EN |-> 1, PLL_OUTPUT_DIV |-> c.d - 1])
<1>1. PllReg("ref") = Reg(PLL_REF_CTRL_REG, v)
  BY DEF PllReg
<1>2. /\ Num(pll["ref"].enable) = 1 /\ Num(pll["ref"].ldo) = 1 /\ Num(pll["ref"].locken) = 1
      /\ Num(phys["ref"] = "locked") = 1 /\ Num(pll["ref"].out) = 1
  BY DEF RefReady, Usable, Running, Num
<1>3. c.n - 1 \in Nat /\ c.d - 1 \in Nat
  <2>1. c \in CfgType
    BY DEF TypeOK, PllType, Pll
  <2>2. \A k \in 1..256 : k - 1 \in Nat
    OBVIOUS
  <2> QED  BY <2>1, <2>2 DEF CfgType
<1> HIDE DEF c
<1>4. v = Merge([PLL_EN |-> 1, PLL_LDO_EN |-> 1, LOCK_ENABLE |-> 1, LOCK |-> 1, PLL_N |-> c.n - 1],
                [PLL_OUTPUT_GATE |-> 1, PLL_REG_EN |-> 1, PLL_OUTPUT_DIV |-> c.d - 1])
  BY <1>2
<1> HIDE DEF v
<1>5. /\ DOMAIN v = {"PLL_EN", "PLL_LDO_EN", "LOCK_ENABLE", "LOCK", "PLL_N", "PLL_OUTPUT_GATE",
                     "PLL_REG_EN", "PLL_OUTPUT_DIV"}
      /\ v["PLL_EN"] = 1 /\ v["PLL_LDO_EN"] = 1 /\ v["LOCK_ENABLE"] = 1 /\ v["LOCK"] = 1
      /\ v["PLL_N"] = c.n - 1 /\ v["PLL_OUTPUT_GATE"] = 1 /\ v["PLL_REG_EN"] = 1
      /\ v["PLL_OUTPUT_DIV"] = c.d - 1
  BY <1>4 DEF Merge
<1>6. Numbers(v)
  BY <1>3, <1>5 DEF Numbers
<1> QED  BY <1>1, <1>3, <1>5, <1>6 DEF c

\* The register of a PERI PLL, and of PERI0 when the buses run from it.
LEMMA PeriReg ==
  ASSUME TypeOK, NEW p \in {"peri0", "peri1"}
  PROVE  \E v : /\ Numbers(v) /\ PllReg(p) = Reg(PLL_PERI0_CTRL_REG, v)
                /\ {"PLL_EN", "LOCK_ENABLE", "LOCK", "PLL_N", "PLL_FREF_SEL", "PLL_OUTPUT0_GATE",
                    "PLL_OUTPUT0_DIV", "PLL_OUTPUT2_GATE", "PLL_OUTPUT2_DIV"} \subseteq DOMAIN v
                /\ "PLL_INPUT_DIV" \notin DOMAIN v
                /\ v["PLL_FREF_SEL"] = 1 /\ v["PLL_OUTPUT0_DIV"] = 1 /\ v["PLL_OUTPUT2_DIV"] = 4
                /\ p = "peri0" /\ Peri0Ready =>
                     /\ v["PLL_EN"] = 1 /\ v["LOCK_ENABLE"] = 1 /\ v["LOCK"] = 1 /\ v["PLL_N"] = 99
                     /\ v["PLL_OUTPUT0_GATE"] = 1 /\ v["PLL_OUTPUT2_GATE"] = 1
<1> DEFINE n == pll[p].cfg.n - 1
           en == Num(pll[p].enable)
           ldo == Num(pll[p].ldo)
           le == Num(pll[p].locken)
           lk == Num(phys[p] = "locked")
           out == Num(pll[p].out)
           v == Merge([PLL_EN |-> en, PLL_LDO_EN |-> ldo, LOCK_ENABLE |-> le, LOCK |-> lk, PLL_N |-> n],
                      [PLL_OUTPUT0_GATE |-> out, PLL_OUTPUT1_GATE |-> out, PLL_OUTPUT2_GATE |-> out,
                       PLL_FREF_SEL |-> 1, PLL_OUTPUT0_DIV |-> 1, PLL_OUTPUT1_DIV |-> 2,
                       PLL_OUTPUT2_DIV |-> 4])
<1>1. PllReg(p) = Reg(PLL_PERI0_CTRL_REG, v)
  BY DEF PllReg
<1>2. en \in Nat /\ ldo \in Nat /\ le \in Nat /\ lk \in Nat /\ out \in Nat
  BY DEF Num
<1>3. p = "peri0" /\ Peri0Ready => en = 1 /\ le = 1 /\ lk = 1 /\ out = 1 /\ n = 99
  BY DEF Peri0Ready, Usable, Running, Num, PeriFactors
<1>4. n \in Nat
  <2>1. pll[p].cfg \in CfgType
    BY DEF TypeOK, Pll, PllType
  <2>2. \A k \in 1..256 : k - 1 \in Nat
    OBVIOUS
  <2> QED  BY <2>1, <2>2 DEF CfgType
<1> HIDE DEF n, en, ldo, le, lk, out
<1>5. /\ DOMAIN v = {"PLL_EN", "PLL_LDO_EN", "LOCK_ENABLE", "LOCK", "PLL_N", "PLL_OUTPUT0_GATE",
                     "PLL_OUTPUT1_GATE", "PLL_OUTPUT2_GATE", "PLL_FREF_SEL", "PLL_OUTPUT0_DIV",
                     "PLL_OUTPUT1_DIV", "PLL_OUTPUT2_DIV"}
      /\ v["PLL_EN"] = en /\ v["PLL_LDO_EN"] = ldo /\ v["LOCK_ENABLE"] = le /\ v["LOCK"] = lk
      /\ v["PLL_N"] = n /\ v["PLL_OUTPUT0_GATE"] = out /\ v["PLL_OUTPUT1_GATE"] = out
      /\ v["PLL_OUTPUT2_GATE"] = out /\ v["PLL_FREF_SEL"] = 1 /\ v["PLL_OUTPUT0_DIV"] = 1
      /\ v["PLL_OUTPUT1_DIV"] = 2 /\ v["PLL_OUTPUT2_DIV"] = 4
  BY DEF Merge
<1> HIDE DEF v
<1>6. Numbers(v)
  BY <1>2, <1>4, <1>5 DEF Numbers
<1> QED  BY <1>1, <1>3, <1>5, <1>6

\* A bus's register once it is at its nominal rate.
LEMMA NominalReg ==
  ASSUME NEW b \in Bus, AtNominal(b), NEW def
  PROVE  \E v : /\ Numbers(v) /\ BusReg(b, def) = Reg(def.fields, v) /\ DOMAIN v = {"SEL", "M"}
                /\ v["SEL"] = (IF b = "uart" THEN 4 ELSE 3) /\ v["M"] = NominalDiv(b) - 1
<1> DEFINE v == [SEL |-> IF b = "uart" THEN 4 ELSE 3, M |-> NominalDiv(b) - 1]
<1>1. BusReg(b, def) = Reg(def.fields, v)
  BY DEF BusReg, AtNominal
<1>2. NominalDiv(b) - 1 \in Nat
  BY DEF Bus, NominalDiv
<1>3. Numbers(v)
  BY <1>2 DEF Numbers
<1> QED  BY <1>1, <1>3

\* REFPLL is reported at its rate, and locked ...
LEMMA RefReported ==
  ASSUME TypeOK, PllInv, RefReady
  PROVE  /\ a7s_ref_pll_rate(PllReg("ref"), dcxo) = RefRate
         /\ NamedOutput(PllReg("ref"), dcxo, 0, Only) = RefRate
         /\ a7s_pll_lock_state(PllReg("ref")) = "locked"
<1>1. PICK v : /\ Numbers(v) /\ PllReg("ref") = Reg(PLL_REF_CTRL_REG, v)
               /\ {"PLL_EN", "LOCK_ENABLE", "LOCK", "PLL_N", "PLL_OUTPUT_GATE", "PLL_OUTPUT_DIV"}
                    \subseteq DOMAIN v
               /\ "PLL_INPUT_DIV" \notin DOMAIN v
               /\ v["PLL_EN"] = 1 /\ v["PLL_OUTPUT_GATE"] = 1 /\ v["LOCK_ENABLE"] = 1 /\ v["LOCK"] = 1
               /\ v["PLL_N"] = pll["ref"].cfg.n - 1 /\ v["PLL_OUTPUT_DIV"] = pll["ref"].cfg.d - 1
  BY RefReg
<1> DEFINE reg == Reg(PLL_REF_CTRL_REG, v)
           r == reg.v
           n == pll["ref"].cfg.n
           d == pll["ref"].cfg.d
<1>2. /\ r["PLL_EN"] = v["PLL_EN"] % 2 ^ 1 /\ r["PLL_OUTPUT_GATE"] = v["PLL_OUTPUT_GATE"] % 2 ^ 1
      /\ r["LOCK_ENABLE"] = v["LOCK_ENABLE"] % 2 ^ 1 /\ r["LOCK"] = v["LOCK"] % 2 ^ 1
      /\ r["PLL_INPUT_DIV"] = 0
      /\ r["PLL_N"] = v["PLL_N"] % 2 ^ 8 /\ r["PLL_OUTPUT_DIV"] = v["PLL_OUTPUT_DIV"] % 2 ^ 7
  BY <1>1, RefFields, FieldValue
<1>3. /\ Get(reg, 29, 1) = r["LOCK_ENABLE"] /\ Get(reg, 28, 1) = r["LOCK"]
  BY RefFields, GetField
<1>4. DOMAIN r = DOMAIN PLL_REF_CTRL_REG
  BY DEF Reg
<1> HIDE DEF reg, r
<1>5. /\ r["PLL_EN"] = 1 /\ r["PLL_OUTPUT_GATE"] = 1 /\ r["LOCK_ENABLE"] = 1 /\ r["LOCK"] = 1
  BY <1>1, <1>2
<1>6. /\ n \in 1..256 /\ d \in 1..128 /\ dcxo \in Nat
      /\ r["PLL_N"] = n - 1 /\ r["PLL_OUTPUT_DIV"] = d - 1
      /\ (dcxo * n) \div (1 * d) = RefRate
  <2>1. pll["ref"].cfg \in CfgType /\ dcxo \in Nat
    BY DEF TypeOK, PllType, Pll
  <2>2. n \in 1..256 /\ d \in 1..128
    BY <2>1 DEF CfgType
  <2>3. v["PLL_N"] = n - 1 /\ v["PLL_OUTPUT_DIV"] = d - 1
    BY <1>1
  <2>4. RefRate = (dcxo * n) \div d
    BY DEF RefRate
  <2> HIDE DEF n, d
  <2>5. (n - 1) % 2 ^ 8 = n - 1 /\ (d - 1) % 2 ^ 7 = d - 1
    BY <2>2
  <2>6. 1 * d = d
    BY <2>2
  <2> QED  BY <2>1, <2>2, <2>3, <2>4, <2>5, <2>6, <1>2
<1>7. NamedOutput(reg, dcxo, 0, Only) = RefRate
  <2>1. "PLL_FREF_SEL" \notin DOMAIN r
    BY <1>4, RefFields
  <2>2. NamedOutput(reg, dcxo, 0, Only)
          = (dcxo * (r["PLL_N"] + 1)) \div ((r["PLL_INPUT_DIV"] + 1) * (r["PLL_OUTPUT_DIV"] + 1))
    BY <2>1, <1>5 DEF NamedOutput, Only, r
  <2> HIDE DEF n, d
  <2>3. r["PLL_N"] + 1 = n /\ r["PLL_INPUT_DIV"] + 1 = 1 /\ r["PLL_OUTPUT_DIV"] + 1 = d
    BY <1>2, <1>6
  <2> QED  BY <2>2, <2>3, <1>6
<1>8. a7s_ref_pll_rate(reg, dcxo) = RefRate
  <2>1. a7s_ref_pll_rate(reg, dcxo) = a7s_main_pll_output(reg, dcxo, 16, 7, 27)
    BY DEF a7s_ref_pll_rate, a7s_main_pll_output
  <2>2. OutputFields(PLL_REF_CTRL_REG, Only, 27, 16, 7)
    BY RefFields DEF OutputFields, PllFields, Only
  <2>3. dcxo \in Nat /\ 0 \in Nat /\ 7 \in {3, 7} /\ "PLL_FREF_SEL" \notin DOMAIN PLL_REF_CTRL_REG
    BY <1>6, RefFields
  <2>4. a7s_main_pll_output(reg, dcxo, 16, 7, 27)
          = NamedOutput(reg, dcxo, 0, Only)
    BY <2>2, <2>3, <1>1, OutputByName DEF reg
  <2> QED  BY <2>1, <2>4, <1>7 DEF Only
<1>9. a7s_pll_lock_state(reg) = "locked"
  BY <1>3, <1>5 DEF a7s_pll_lock_state, IsSet
<1> QED  BY <1>1, <1>7, <1>8, <1>9 DEF reg

\* ... and so is PERI0, at the outputs its factors give.
LEMMA Peri0Reported ==
  ASSUME TypeOK, Peri0Ready, NEW xo \in Nat, NEW x \in Nat
  PROVE  /\ NamedOutput(PllReg("peri0"), xo, x, First0) = (x * 100) \div 2
         /\ NamedOutput(PllReg("peri0"), xo, x, Third) = (x * 100) \div 5
         /\ a7s_pll_lock_state(PllReg("peri0")) = "locked"
<1>1. PICK v : /\ Numbers(v) /\ PllReg("peri0") = Reg(PLL_PERI0_CTRL_REG, v)
               /\ {"PLL_EN", "LOCK_ENABLE", "LOCK", "PLL_N", "PLL_FREF_SEL", "PLL_OUTPUT0_GATE",
                   "PLL_OUTPUT0_DIV", "PLL_OUTPUT2_GATE", "PLL_OUTPUT2_DIV"} \subseteq DOMAIN v
               /\ "PLL_INPUT_DIV" \notin DOMAIN v
               /\ v["PLL_FREF_SEL"] = 1 /\ v["PLL_OUTPUT0_DIV"] = 1 /\ v["PLL_OUTPUT2_DIV"] = 4
               /\ v["PLL_EN"] = 1 /\ v["LOCK_ENABLE"] = 1 /\ v["LOCK"] = 1 /\ v["PLL_N"] = 99
               /\ v["PLL_OUTPUT0_GATE"] = 1 /\ v["PLL_OUTPUT2_GATE"] = 1
  BY PeriReg
<1> DEFINE reg == Reg(PLL_PERI0_CTRL_REG, v)
           r == reg.v
<1>2. /\ r["PLL_EN"] = v["PLL_EN"] % 2 ^ 1 /\ r["PLL_OUTPUT0_GATE"] = v["PLL_OUTPUT0_GATE"] % 2 ^ 1
      /\ r["PLL_OUTPUT2_GATE"] = v["PLL_OUTPUT2_GATE"] % 2 ^ 1
      /\ r["PLL_FREF_SEL"] = v["PLL_FREF_SEL"] % 2 ^ 1
      /\ r["LOCK_ENABLE"] = v["LOCK_ENABLE"] % 2 ^ 1 /\ r["LOCK"] = v["LOCK"] % 2 ^ 1
      /\ r["PLL_INPUT_DIV"] = 0 /\ r["PLL_N"] = v["PLL_N"] % 2 ^ 8
      /\ r["PLL_OUTPUT0_DIV"] = v["PLL_OUTPUT0_DIV"] % 2 ^ 3
      /\ r["PLL_OUTPUT2_DIV"] = v["PLL_OUTPUT2_DIV"] % 2 ^ 3
  BY <1>1, ThreeOutputsFields, FieldValue
<1>3. /\ Get(reg, 29, 1) = r["LOCK_ENABLE"] /\ Get(reg, 28, 1) = r["LOCK"]
  BY ThreeOutputsFields, GetField
<1>4. "PLL_FREF_SEL" \in DOMAIN r
  BY ThreeOutputsFields DEF Reg, Field
<1> HIDE DEF reg, r
<1>5. /\ r["PLL_EN"] = 1 /\ r["PLL_OUTPUT0_GATE"] = 1 /\ r["PLL_OUTPUT2_GATE"] = 1
      /\ r["PLL_FREF_SEL"] = 1 /\ r["LOCK_ENABLE"] = 1 /\ r["LOCK"] = 1 /\ r["PLL_INPUT_DIV"] = 0
      /\ r["PLL_N"] = 99 /\ r["PLL_OUTPUT0_DIV"] = 1 /\ r["PLL_OUTPUT2_DIV"] = 4
  BY <1>1, <1>2
<1>6. NamedOutput(reg, xo, x, First0) = (x * 100) \div 2 /\ NamedOutput(reg, xo, x, Third) = (x * 100) \div 5
  <2>1. NamedOutput(reg, xo, x, First0) = (x * (99 + 1)) \div ((0 + 1) * (1 + 1))
    BY <1>4, <1>5 DEF NamedOutput, First0, r
  <2>2. NamedOutput(reg, xo, x, Third) = (x * (99 + 1)) \div ((0 + 1) * (4 + 1))
    BY <1>4, <1>5 DEF NamedOutput, Third, r
  <2> QED  BY <2>1, <2>2
<1>7. a7s_pll_lock_state(reg) = "locked"
  BY <1>3, <1>5 DEF a7s_pll_lock_state, IsSet
<1> QED  BY <1>1, <1>6, <1>7 DEF reg

-----------------------------------------------------------------------------
(* OutputByName for each kind of PLL. *)

\* The rate from shifts and masks is the one the named fields give, for a PLL with one
\* output.
LEMMA OneOutputByName ==
  ASSUME NEW v, Numbers(v), NEW xo \in Nat, NEW ref \in Nat
  PROVE  LET reg == Reg(Merge(PllCommon, OneOutput), v)
         IN  Output0(reg, xo, ref) = NamedOutput(reg, xo, ref, Only) /\ Output0(reg, xo, ref) \in Nat
<1> DEFINE L == Merge(PllCommon, OneOutput)
<1>1. OutputFields(L, Only, 27, 20, 3) /\ Field(L, "PLL_FREF_SEL", 24, 1)
  BY OneOutputFields DEF OutputFields, PllFields, Only
<1> HIDE DEF L
<1>2. 3 \in {3, 7}
  OBVIOUS
<1> QED  BY <1>1, <1>2, OutputByName DEF L, Output0

\* The same for a PLL with two outputs.
LEMMA TwoOutputsByName ==
  ASSUME NEW v, Numbers(v), NEW xo \in Nat, NEW ref \in Nat
  PROVE  LET reg == Reg(Merge(PllCommon, TwoOutputs), v)
         IN  /\ Output0(reg, xo, ref) = NamedOutput(reg, xo, ref, First0)
             /\ Output1(reg, xo, ref) = NamedOutput(reg, xo, ref, Second)
             /\ Output1(reg, xo, ref) \in Nat
<1> DEFINE L == Merge(PllCommon, TwoOutputs)
<1>1. /\ OutputFields(L, First0, 27, 20, 3) /\ Field(L, "PLL_FREF_SEL", 24, 1)
      /\ OutputFields(L, Second, 26, 16, 3)
  BY TwoOutputsFields DEF OutputFields, PllFields, First0, Second
<1> HIDE DEF L
<1>2. 3 \in {3, 7}
  OBVIOUS
<1>3. Output0(Reg(L, v), xo, ref) = NamedOutput(Reg(L, v), xo, ref, First0)
  BY <1>1, <1>2, OutputByName DEF Output0
<1>4. /\ Output1(Reg(L, v), xo, ref) = NamedOutput(Reg(L, v), xo, ref, Second)
      /\ Output1(Reg(L, v), xo, ref) \in Nat
  BY <1>1, <1>2, OutputByName DEF Output1
<1> QED  BY <1>3, <1>4 DEF L

\* The same for the three outputs of the peripheral PLLs.
LEMMA PeriByName ==
  ASSUME TypeOK, NEW p \in {"peri0", "peri1"}, NEW xo \in Nat, NEW ref \in Nat
  PROVE  LET reg == PllReg(p)
             out == PeriOutputs(reg, xo, ref)
         IN  /\ out[1] = NamedOutput(reg, xo, ref, First0) /\ out[1] \in Nat
             /\ out[2] = NamedOutput(reg, xo, ref, Second) /\ out[2] \in Nat
             /\ out[3] = NamedOutput(reg, xo, ref, Third) /\ out[3] \in Nat
<1> DEFINE L == PLL_PERI0_CTRL_REG
           reg == PllReg(p)
<1>1. PICK v : Numbers(v) /\ reg = Reg(L, v)
  BY PeriReg
<1>2. /\ OutputFields(L, First0, 27, 20, 3) /\ OutputFields(L, Second, 26, 16, 3)
      /\ OutputFields(L, Third, 25, 2, 3) /\ Field(L, "PLL_FREF_SEL", 24, 1)
  BY ThreeOutputsFields DEF OutputFields, PllFields, First0, Second, Third
<1> HIDE DEF L, reg
<1>3. ASSUME NEW out, NEW g, NEW lo, OutputFields(L, out, g, lo, 3)
      PROVE  LET read == a7s_main_pll_output(reg, a7s_main_pll_input(reg, xo, ref), lo, 3, g)
             IN  read = NamedOutput(reg, xo, ref, out) /\ read \in Nat
  <2>1. 3 \in {3, 7}
    OBVIOUS
  <2>2. Numbers(v) /\ Field(L, "PLL_FREF_SEL", 24, 1)
    BY <1>1, <1>2
  <2>3. /\ a7s_main_pll_output(Reg(L, v), a7s_main_pll_input(Reg(L, v), xo, ref), lo, 3, g)
             = NamedOutput(Reg(L, v), xo, ref, out)
        /\ NamedOutput(Reg(L, v), xo, ref, out) \in Nat
    BY <2>1, <2>2, <1>3, OutputByName
  <2> QED  BY <2>3, <1>1
<1> DEFINE Out(lo, g) == a7s_main_pll_output(reg, a7s_main_pll_input(reg, xo, ref), lo, 3, g)
<1>4. Out(20, 27) = NamedOutput(reg, xo, ref, First0) /\ Out(20, 27) \in Nat
  BY <1>2, <1>3
<1>5. Out(16, 26) = NamedOutput(reg, xo, ref, Second) /\ Out(16, 26) \in Nat
  BY <1>2, <1>3
<1>6. Out(2, 25) = NamedOutput(reg, xo, ref, Third) /\ Out(2, 25) \in Nat
  BY <1>2, <1>3
<1>7. PeriOutputs(reg, xo, ref) = <<Out(20, 27), Out(16, 26), Out(2, 25)>>
  BY DEF PeriOutputs
<1> HIDE DEF Out
<1> QED  BY <1>4, <1>5, <1>6, <1>7 DEF reg

\* The same for the audio PLLs.
LEMMA AudioByName ==
  ASSUME NEW v, Numbers(v), NEW xo \in Nat, NEW ref \in Nat, Reg(PLL_AUDIO0_CTRL_REG, v).v["PLL_FREF_SEL"] = 1
  PROVE  LET reg == Reg(PLL_AUDIO0_CTRL_REG, v)
         IN  a7s_main_pll_output(reg, ref, 16, 7, 27) = NamedOutput(reg, xo, ref, Only)
<1> DEFINE L == PLL_AUDIO0_CTRL_REG
<1>1. OutputFields(L, Only, 27, 16, 7) /\ Field(L, "PLL_FREF_SEL", 24, 1)
  BY Audio0Fields DEF OutputFields, PllFields, Only
<1> HIDE DEF L
<1>2. 7 \in {3, 7} /\ Reg(L, v).v["PLL_FREF_SEL"] = 1
  BY DEF L
<1>3. a7s_main_pll_output(Reg(L, v), ref, 16, 7, 27) = NamedOutput(Reg(L, v), xo, ref, Only)
  <2>1. Get(Reg(L, v), 24, 1) = 1
    BY <1>1, <1>2, GetField
  <2>2. a7s_main_pll_input(Reg(L, v), xo, ref) = ref
    BY <2>1 DEF a7s_main_pll_input, IsSet
  <2>3. a7s_main_pll_output(Reg(L, v), a7s_main_pll_input(Reg(L, v), xo, ref), 16, 7, 27)
          = NamedOutput(Reg(L, v), xo, ref, Only)
    BY <1>1, <1>2, OutputByName
  <2> QED  BY <2>2, <2>3
<1> QED  BY <1>3 DEF L

-----------------------------------------------------------------------------
\* The clock sources by name are the rates r read from the same registers.
SourcesAgree(s, r) ==
  /\ \A x \in {"dcxo", "ddr", "npu", "de_3x", "cci", "peri0_2x", "peri0_800", "peri0_480"} : r[x] \in Nat
  /\ s["HOSC"] = r["dcxo"] /\ s["CLK32K"] = 32 /\ s["CLK16M_RC"] = 16000
  /\ s["PERI0_800M"] = r["peri0_800"] /\ s["PERI0_480M"] = r["peri0_480"]
  /\ s["PERI0_600M"] = r["peri0_2x"] \div 2 /\ s["PERI0_400M"] = r["peri0_2x"] \div 3
  /\ s["DDRPLL"] = r["ddr"] /\ s["CCIPLL"] = r["cci"] /\ s["DEPLL3X"] = r["de_3x"]
  /\ s["NPUPLL"] = r["npu"]

\* Then the clocks they feed agree as well.
LEMMA RateByName ==
  ASSUME NEW s, NEW r, SourcesAgree(s, r), NEW v, Numbers(v)
  PROVE  /\ \A def \in {AHB_CLK_REG, APB0_CLK_REG, APB1_CLK_REG} :
              a7s_standard_bus_rate(Reg(def.fields, v), r.dcxo, r.peri0_2x) = NamedRate(s, Reg(def.fields, v), def)
         /\ a7s_uart_rate(Reg(APB_UART_CLK_REG.fields, v), r.dcxo, r.peri0_2x, r.peri0_480)
              = NamedRate(s, Reg(APB_UART_CLK_REG.fields, v), APB_UART_CLK_REG)
         /\ a7s_gic_rate(Reg(GIC_CLK_REG.fields, v), r) = NamedRate(s, Reg(GIC_CLK_REG.fields, v), GIC_CLK_REG)
         /\ a7s_nsi_rate(Reg(NSI_CLK_REG.fields, v), r) = NamedRate(s, Reg(NSI_CLK_REG.fields, v), NSI_CLK_REG)
         /\ a7s_mbus_rate(Reg(MBUS_CLK_REG.fields, v), r) = NamedRate(s, Reg(MBUS_CLK_REG.fields, v), MBUS_CLK_REG)
<1>1. /\ a7s_div_rate(r.peri0_2x, 2) = s["PERI0_600M"] /\ s["PERI0_600M"] \in Nat
      /\ a7s_div_rate(r.peri0_2x, 3) = s["PERI0_400M"] /\ s["PERI0_400M"] \in Nat
  <2>1. /\ r.peri0_2x \in Nat /\ 2 \in Nat \ {0} /\ 3 \in Nat \ {0}
        /\ s["PERI0_600M"] = r.peri0_2x \div 2 /\ s["PERI0_400M"] = r.peri0_2x \div 3
    BY DEF SourcesAgree
  <2> QED  BY <2>1, DivRate
<1>2. /\ r.dcxo = s["HOSC"] /\ r.peri0_480 = s["PERI0_480M"] /\ r.peri0_800 = s["PERI0_800M"]
      /\ r.ddr = s["DDRPLL"] /\ r.cci = s["CCIPLL"] /\ r.de_3x = s["DEPLL3X"] /\ r.npu = s["NPUPLL"]
      /\ s["CLK32K"] = 32 /\ s["CLK16M_RC"] = 16000
      /\ s["HOSC"] \in Nat /\ s["PERI0_480M"] \in Nat /\ s["PERI0_800M"] \in Nat /\ s["DDRPLL"] \in Nat
      /\ s["CCIPLL"] \in Nat /\ s["DEPLL3X"] \in Nat /\ s["NPUPLL"] \in Nat
  BY DEF SourcesAgree
<1>3. ASSUME NEW def \in {AHB_CLK_REG, APB0_CLK_REG, APB1_CLK_REG}
      PROVE  a7s_standard_bus_rate(Reg(def.fields, v), r.dcxo, r.peri0_2x) = NamedRate(s, Reg(def.fields, v), def)
  <2> DEFINE seq == <<r.dcxo, 32, 16000, a7s_div_rate(r.peri0_2x, 2)>>
  <2>1. def.src = BusSources
    BY DEF AHB_CLK_REG, APB0_CLK_REG, APB1_CLK_REG
  <2>2. seq \in Seq(Nat) /\ Len(seq) = Len(def.src) /\ \A k \in 1 .. Len(seq) : seq[k] = s[def.src[k]]
    BY <1>1, <1>2, <2>1 DEF BusSources
  <2>3. Field(def.fields, "SEL", 24, 2) /\ Field(def.fields, "M", 0, 5) /\ "GATING" \notin DOMAIN def.fields
    BY ClockFields
  <2> HIDE DEF seq
  <2>4. a7s_div_rate(Nth(seq, Get(Reg(def.fields, v), 24, 2)), FactorM(Reg(def.fields, v)))
          = NamedRate(s, Reg(def.fields, v), def)
    BY <2>2, <2>3, ClockByName
  <2> QED  BY <2>4 DEF a7s_standard_bus_rate, seq
<1>4. a7s_uart_rate(Reg(APB_UART_CLK_REG.fields, v), r.dcxo, r.peri0_2x, r.peri0_480)
        = NamedRate(s, Reg(APB_UART_CLK_REG.fields, v), APB_UART_CLK_REG)
  <2> DEFINE seq == <<r.dcxo, 32, 16000, a7s_div_rate(r.peri0_2x, 2), r.peri0_480>>
             def == APB_UART_CLK_REG
  <2>1. def.src = <<"HOSC", "CLK32K", "CLK16M_RC", "PERI0_600M", "PERI0_480M">>
    BY DEF APB_UART_CLK_REG
  <2>3. Field(def.fields, "SEL", 24, 3) /\ Field(def.fields, "M", 0, 5) /\ "GATING" \notin DOMAIN def.fields
    BY ClockFields
  <2> HIDE DEF def
  <2>2. seq \in Seq(Nat) /\ Len(seq) = Len(def.src) /\ \A k \in 1 .. Len(seq) : seq[k] = s[def.src[k]]
    BY <1>1, <1>2, <2>1
  <2> HIDE DEF seq
  <2>4. a7s_div_rate(Nth(seq, Get(Reg(def.fields, v), 24, 3)), FactorM(Reg(def.fields, v)))
          = NamedRate(s, Reg(def.fields, v), def)
    BY <2>2, <2>3, ClockByName
  <2> QED  BY <2>4 DEF a7s_uart_rate, seq, def
<1>5. a7s_gic_rate(Reg(GIC_CLK_REG.fields, v), r) = NamedRate(s, Reg(GIC_CLK_REG.fields, v), GIC_CLK_REG)
  <2> DEFINE seq == <<r.dcxo, 32, a7s_div_rate(r.peri0_2x, 2), r.peri0_480>>
             def == GIC_CLK_REG
             reg == Reg(def.fields, v)
  <2>1. def.src = <<"HOSC", "CLK32K", "PERI0_600M", "PERI0_480M">>
    BY DEF GIC_CLK_REG
  <2>2. Field(def.fields, "SEL", 24, 2) /\ Field(def.fields, "M", 0, 5) /\ Field(def.fields, "GATING", 31, 1)
    BY ClockFields
  <2> HIDE DEF def
  <2>3. seq \in Seq(Nat) /\ Len(seq) = Len(def.src) /\ \A k \in 1 .. Len(seq) : seq[k] = s[def.src[k]]
    BY <1>1, <1>2, <2>1
  <2> HIDE DEF seq
  <2>4. (IF ~ IsSet(reg, 31) THEN 0 ELSE a7s_div_rate(Nth(seq, Get(reg, 24, 2)), FactorM(reg))) = NamedRate(s, reg, def)
    BY <2>2, <2>3, ClockByName
  <2> QED  BY <2>4 DEF a7s_gic_rate, seq, def
<1>6. a7s_nsi_rate(Reg(NSI_CLK_REG.fields, v), r) = NamedRate(s, Reg(NSI_CLK_REG.fields, v), NSI_CLK_REG)
  <2> DEFINE seq == <<r.ddr, r.peri0_800, a7s_div_rate(r.peri0_2x, 2), r.cci, r.de_3x, r.npu>>
             def == NSI_CLK_REG
             reg == Reg(def.fields, v)
  <2>1. def.src = <<"DDRPLL", "PERI0_800M", "PERI0_600M", "CCIPLL", "DEPLL3X", "NPUPLL">>
    BY DEF NSI_CLK_REG
  <2>2. Field(def.fields, "SEL", 24, 3) /\ Field(def.fields, "M", 0, 5) /\ Field(def.fields, "GATING", 31, 1)
    BY ClockFields
  <2> HIDE DEF def
  <2>3. seq \in Seq(Nat) /\ Len(seq) = Len(def.src) /\ \A k \in 1 .. Len(seq) : seq[k] = s[def.src[k]]
    BY <1>1, <1>2, <2>1
  <2> HIDE DEF seq
  <2>4. (IF ~ IsSet(reg, 31) THEN 0 ELSE a7s_div_rate(Nth(seq, Get(reg, 24, 3)), FactorM(reg))) = NamedRate(s, reg, def)
    BY <2>2, <2>3, ClockByName
  <2> QED  BY <2>4 DEF a7s_nsi_rate, seq, def
<1>7. a7s_mbus_rate(Reg(MBUS_CLK_REG.fields, v), r) = NamedRate(s, Reg(MBUS_CLK_REG.fields, v), MBUS_CLK_REG)
  <2> DEFINE seq == <<a7s_div_rate(r.peri0_2x, 2), r.ddr, r.peri0_480, a7s_div_rate(r.peri0_2x, 3), r.cci, r.npu>>
             def == MBUS_CLK_REG
             reg == Reg(def.fields, v)
  <2>1. def.src = <<"PERI0_600M", "DDRPLL", "PERI0_480M", "PERI0_400M", "CCIPLL", "NPUPLL">>
    BY DEF MBUS_CLK_REG
  <2>2. Field(def.fields, "SEL", 24, 3) /\ Field(def.fields, "M", 0, 5) /\ Field(def.fields, "GATING", 31, 1)
    BY ClockFields
  <2> HIDE DEF def
  <2>3. seq \in Seq(Nat) /\ Len(seq) = Len(def.src) /\ \A k \in 1 .. Len(seq) : seq[k] = s[def.src[k]]
    BY <1>1, <1>2, <2>1
  <2> HIDE DEF seq
  <2>4. (IF ~ IsSet(reg, 31) THEN 0 ELSE a7s_div_rate(Nth(seq, Get(reg, 24, 3)), FactorM(reg))) = NamedRate(s, reg, def)
    BY <2>2, <2>3, ClockByName
  <2> QED  BY <2>4 DEF a7s_mbus_rate, seq, def
<1> QED  BY <1>3, <1>4, <1>5, <1>6, <1>7

-----------------------------------------------------------------------------
\* What Image holds, register by register.
LEMMA ImageRegs ==
  ASSUME NEW o
  PROVE  /\ Image(o).REF = PllReg("ref") /\ Image(o).PERI0 = PllReg("peri0") /\ Image(o).PERI1 = PllReg("peri1")
         /\ Image(o).AHB = BusReg("ahb", AHB_CLK_REG) /\ Image(o).APB0 = BusReg("apb0", APB0_CLK_REG)
         /\ Image(o).APB1 = BusReg("apb1", APB1_CLK_REG) /\ Image(o).UART = BusReg("uart", APB_UART_CLK_REG)
         /\ Image(o).GIC = Reg(GIC_CLK_REG.fields, o.clk) /\ Image(o).NSI = Reg(NSI_CLK_REG.fields, o.clk)
         /\ Image(o).MBUS = Reg(MBUS_CLK_REG.fields, o.clk)
         /\ Image(o).AUDIO0 = Reg(PLL_AUDIO0_CTRL_REG, o.pll)
         /\ \A p \in {"DDR", "GPU0", "VE0", "VE1", "NPU", "CCI"} :
              Image(o)[p] = Reg(Merge(PllCommon, OneOutput), o.pll)
         /\ \A p \in {"VIDEO0", "VIDEO1", "VIDEO2", "DE"} :
              Image(o)[p] = Reg(Merge(PllCommon, TwoOutputs), o.pll)
         /\ Image(o).xo = (CASE dcxo = 19200 -> 1 [] dcxo = 26000 -> 2 [] OTHER -> 0)
BY DEF Image, PLL_DDR_CTRL_REG, PLL_GPU0_CTRL_REG, PLL_VE0_CTRL_REG, PLL_VE1_CTRL_REG, PLL_NPU_CTRL_REG,
       PLL_CCI_CTRL_REG, PLL_VIDEO0_CTRL_REG, PLL_VIDEO1_CTRL_REG, PLL_VIDEO2_CTRL_REG, PLL_DE_CTRL_REG

\* The rates of the four buses once they are nominal.
LEMMA NominalRates ==
  ASSUME \A b \in Bus : AtNominal(b), NEW xo \in Nat, NEW x2 \in Nat, NEW x480 \in Nat
  PROVE  /\ a7s_standard_bus_rate(BusReg("ahb", AHB_CLK_REG), xo, x2) = (x2 \div 2) \div 3
         /\ a7s_standard_bus_rate(BusReg("apb0", APB0_CLK_REG), xo, x2) = (x2 \div 2) \div 6
         /\ a7s_standard_bus_rate(BusReg("apb1", APB1_CLK_REG), xo, x2) = (x2 \div 2) \div 6
         /\ a7s_uart_rate(BusReg("uart", APB_UART_CLK_REG), xo, x2, x480) = x480 \div 20
<1>1. ASSUME NEW b \in Bus, NEW def, NEW w \in {2, 3}, Field(def.fields, "SEL", 24, w), Field(def.fields, "M", 0, 5),
             b = "uart" => w = 3
      PROVE  /\ Get(BusReg(b, def), 24, w) = (IF b = "uart" THEN 4 ELSE 3)
             /\ FactorM(BusReg(b, def)) = NominalDiv(b)
  <2>1. PICK v : /\ Numbers(v) /\ BusReg(b, def) = Reg(def.fields, v) /\ DOMAIN v = {"SEL", "M"}
                 /\ v["SEL"] = (IF b = "uart" THEN 4 ELSE 3) /\ v["M"] = NominalDiv(b) - 1
    BY NominalReg
  <2> DEFINE r == Reg(def.fields, v).v
  <2>2. /\ w = 2 => r["SEL"] = v["SEL"] % 2 ^ 2
        /\ w = 3 => r["SEL"] = v["SEL"] % 2 ^ 3
        /\ r["M"] = v["M"] % 2 ^ 5
    BY <1>1, <2>1, FieldValue
  <2>3. Get(Reg(def.fields, v), 24, w) = r["SEL"] /\ Get(Reg(def.fields, v), 0, 5) = r["M"]
    BY <1>1, GetField
  <2> HIDE DEF r
  <2>4. r["SEL"] = IF b = "uart" THEN 4 ELSE 3
    <3>1. CASE w = 2  BY <1>1, <2>1, <2>2, <3>1
    <3>2. CASE w = 3  BY <2>1, <2>2, <3>2
    <3> QED  BY <3>1, <3>2
  <2>5. (v["M"] % 2 ^ 5) + 1 = NominalDiv(b)
    BY <2>1 DEF NominalDiv, Bus
  <2> QED  BY <2>1, <2>2, <2>3, <2>4, <2>5 DEF FactorM
<1>2. /\ \A b \in {"ahb", "apb0", "apb1"} : \A def \in {AHB_CLK_REG, APB0_CLK_REG, APB1_CLK_REG} :
             Get(BusReg(b, def), 24, 2) = 3 /\ FactorM(BusReg(b, def)) = NominalDiv(b)
      /\ Get(BusReg("uart", APB_UART_CLK_REG), 24, 3) = 4
      /\ FactorM(BusReg("uart", APB_UART_CLK_REG)) = NominalDiv("uart")
  BY <1>1, ClockFields DEF Bus
<1> DEFINE x600 == a7s_div_rate(x2, 2)
<1>3. x600 = x2 \div 2 /\ x600 \in Nat
  BY DivRate
<1> HIDE DEF x600
<1>4. \A b \in {"ahb", "apb0", "apb1"} : \A def \in {AHB_CLK_REG, APB0_CLK_REG, APB1_CLK_REG} :
        a7s_standard_bus_rate(BusReg(b, def), xo, x2) = a7s_div_rate(x600, NominalDiv(b))
  BY <1>2, <1>3 DEF a7s_standard_bus_rate, Nth, x600
<1>5. a7s_uart_rate(BusReg("uart", APB_UART_CLK_REG), xo, x2, x480) = a7s_div_rate(x480, NominalDiv("uart"))
  BY <1>2, <1>3 DEF a7s_uart_rate, Nth
<1>6. /\ NominalDiv("ahb") = 3 /\ NominalDiv("apb0") = 6 /\ NominalDiv("apb1") = 6 /\ NominalDiv("uart") = 20
  BY DEF NominalDiv
<1>7. /\ a7s_div_rate(x600, 3) = x600 \div 3 /\ a7s_div_rate(x600, 6) = x600 \div 6
      /\ a7s_div_rate(x480, 20) = x480 \div 20
  <2>1. 3 \in Nat \ {0} /\ 6 \in Nat \ {0} /\ 20 \in Nat \ {0}
    OBVIOUS
  <2>2. \A a \in Nat : \A b \in Nat \ {0} : a7s_div_rate(a, b) = a \div b
    BY DivRate
  <2> QED  BY <1>3, <2>1, <2>2
<1> QED  BY <1>3, <1>4, <1>5, <1>6, <1>7

\* What a7s_clock_dump prints of each PLL.
LEMMA DumpPrinted ==
  ASSUME NEW g, NEW r
  PROVE  LET d == a7s_clock_dump(g, r)
         IN  /\ d["REF"].lock = a7s_pll_lock_state(g.REF) /\ d["PERI0"].lock = a7s_pll_lock_state(g.PERI0)
             /\ d["DDR"].rates = <<r.ddr>> /\ d["NPU"].rates = <<r.npu>> /\ d["CCI"].rates = <<r.cci>>
             /\ d["PERI0"].rates = <<r.peri0_2x, r.peri0_800, r.peri0_480>>
             /\ d["PERI1"].rates = <<r.peri1_2x, r.peri1_800, r.peri1_480>>
             /\ d["GPU0"].rates = <<Output0(g.GPU0, r.dcxo, r.ref)>>
             /\ d["VE0"].rates = <<Output0(g.VE0, r.dcxo, r.ref)>>
             /\ d["VE1"].rates = <<Output0(g.VE1, r.dcxo, r.ref)>>
             /\ d["VIDEO0"].rates = <<Output0(g.VIDEO0, r.dcxo, r.ref), Output1(g.VIDEO0, r.dcxo, r.ref)>>
             /\ d["VIDEO1"].rates = <<Output0(g.VIDEO1, r.dcxo, r.ref), Output1(g.VIDEO1, r.dcxo, r.ref)>>
             /\ d["VIDEO2"].rates = <<Output0(g.VIDEO2, r.dcxo, r.ref), Output1(g.VIDEO2, r.dcxo, r.ref)>>
             /\ d["DE"].rates = <<Output0(g.DE, r.dcxo, r.ref), Output1(g.DE, r.dcxo, r.ref)>>
             /\ d["AUDIO0"].rates = <<a7s_main_pll_output(g.AUDIO0, r.ref, 16, 7, 27)>>
BY DEF a7s_clock_dump, Merge, a7s_print_single_pll, a7s_print_main_single, a7s_print_main_dual,
       a7s_print_audio_plls

\* The dump of a tree a7s_clock_init brought up.
LEMMA DumpsTrue ==
  ASSUME IInv, pc = "ok", NEW o \in OtherImages
  PROVE  LET g == Image(o)
             r == a7s_clock_read_rates(g)
         IN  DumpAgrees(g, r, a7s_clock_dump(g, r), NamedSources(g))
<1> DEFINE g == Image(o)
           r == a7s_clock_read_rates(g)
           d == a7s_clock_dump(g, r)
           s == NamedSources(g)
           xo == dcxo
           ref == RefRate
<1>1. TypeOK /\ PllInv /\ RefReady /\ Peri0Ready /\ \A b \in Bus : AtNominal(b)
  BY DEF IInv, ReadyInv, RestInv
<1>2. Numbers(o.pll) /\ Numbers(o.clk)
  BY OtherAssumption DEF Numbers
<1>3. a7s_dcxo_rate(g.xo) = xo /\ xo \in Nat
  <2>1. CASE dcxo = 19200  BY <2>1, ImageRegs DEF a7s_dcxo_rate
  <2>2. CASE dcxo = 24000  BY <2>2, ImageRegs DEF a7s_dcxo_rate
  <2>3. CASE dcxo = 26000  BY <2>3, ImageRegs DEF a7s_dcxo_rate
  <2> QED  BY <1>1, <2>1, <2>2, <2>3 DEF TypeOK
<1>4. /\ a7s_ref_pll_rate(g.REF, xo) = ref /\ NamedOutput(g.REF, xo, 0, Only) = ref
      /\ a7s_pll_lock_state(g.REF) = "locked" /\ a7s_pll_lock_state(g.PERI0) = "locked"
      /\ NamedOutput(g.PERI0, xo, ref, First0) = (ref * 100) \div 2
      /\ NamedOutput(g.PERI0, xo, ref, Third) = (ref * 100) \div 5
      /\ ref \in Nat
  BY <1>1, <1>3, ImageRegs, RefReported, RefRateType, Peri0Reported
<1> HIDE DEF xo, ref, g
<1>5. r.dcxo = xo /\ r.ref = ref /\ ref \in Nat /\ DOMAIN r = Rates
  <2>1. /\ r.dcxo = a7s_dcxo_rate(g.xo) /\ r.ref = a7s_ref_pll_rate(g.REF, a7s_dcxo_rate(g.xo))
        /\ DOMAIN r = Rates
    BY RatesRead
  <2> HIDE DEF r
  <2> QED  BY <1>3, <1>4, <2>1
<1>6. /\ \A p \in {"DDR", "GPU0", "VE0", "VE1", "NPU", "CCI"} :
           /\ Output0(g[p], xo, ref) = NamedOutput(g[p], xo, ref, Only)
           /\ Output0(g[p], xo, ref) \in Nat
      /\ \A p \in {"VIDEO0", "VIDEO1", "VIDEO2", "DE"} :
           /\ Output0(g[p], xo, ref) = NamedOutput(g[p], xo, ref, First0)
           /\ Output1(g[p], xo, ref) = NamedOutput(g[p], xo, ref, Second)
           /\ Output1(g[p], xo, ref) \in Nat
  <2>1. ref \in Nat
    BY <1>4
  <2>2. /\ \A p \in {"DDR", "GPU0", "VE0", "VE1", "NPU", "CCI"} : g[p] = Reg(Merge(PllCommon, OneOutput), o.pll)
        /\ \A p \in {"VIDEO0", "VIDEO1", "VIDEO2", "DE"} : g[p] = Reg(Merge(PllCommon, TwoOutputs), o.pll)
    BY ImageRegs DEF g
  <2> QED  BY <1>2, <1>3, <2>1, <2>2, OneOutputByName, TwoOutputsByName
<1>7. /\ r.ddr = Output0(g.DDR, xo, ref) /\ r.npu = Output0(g.NPU, xo, ref)
      /\ r.de_3x = Output1(g.DE, xo, ref) /\ r.cci = Output0(g.CCI, xo, ref)
  BY <1>3, <1>4, RatesRead
<1>8. /\ r.peri0_2x = PeriOutputs(g.PERI0, xo, ref)[1] /\ r.peri0_800 = PeriOutputs(g.PERI0, xo, ref)[2]
      /\ r.peri0_480 = PeriOutputs(g.PERI0, xo, ref)[3]
      /\ r.peri1_2x = PeriOutputs(g.PERI1, xo, ref)[1] /\ r.peri1_800 = PeriOutputs(g.PERI1, xo, ref)[2]
      /\ r.peri1_480 = PeriOutputs(g.PERI1, xo, ref)[3]
  <2> DEFINE x == a7s_dcxo_rate(g.xo)
             y == a7s_ref_pll_rate(g.REF, x)
  <2>1. /\ r.peri0_2x = PeriOutputs(g.PERI0, x, y)[1] /\ r.peri0_800 = PeriOutputs(g.PERI0, x, y)[2]
        /\ r.peri0_480 = PeriOutputs(g.PERI0, x, y)[3]
        /\ r.peri1_2x = PeriOutputs(g.PERI1, x, y)[1] /\ r.peri1_800 = PeriOutputs(g.PERI1, x, y)[2]
        /\ r.peri1_480 = PeriOutputs(g.PERI1, x, y)[3]
    BY RatesRead
  <2>2. x = xo /\ y = ref
    BY <1>3, <1>4
  <2> HIDE DEF r, x, y
  <2> QED  BY <2>1, <2>2
<1>9. /\ r.peri0_2x = NamedOutput(g.PERI0, xo, ref, First0) /\ r.peri0_2x \in Nat
      /\ r.peri0_800 = NamedOutput(g.PERI0, xo, ref, Second) /\ r.peri0_800 \in Nat
      /\ r.peri0_480 = NamedOutput(g.PERI0, xo, ref, Third) /\ r.peri0_480 \in Nat
      /\ r.peri1_2x = NamedOutput(g.PERI1, xo, ref, First0)
      /\ r.peri1_800 = NamedOutput(g.PERI1, xo, ref, Second)
      /\ r.peri1_480 = NamedOutput(g.PERI1, xo, ref, Third)
  <2>1. g.PERI0 = PllReg("peri0") /\ g.PERI1 = PllReg("peri1") /\ ref \in Nat
    BY <1>4, ImageRegs DEF g
  <2> HIDE DEF r
  <2> QED  BY <1>1, <1>3, <1>8, <2>1, PeriByName
<1>10. /\ r.ahb = a7s_standard_bus_rate(g.AHB, r.dcxo, r.peri0_2x)
       /\ r.apb0 = a7s_standard_bus_rate(g.APB0, r.dcxo, r.peri0_2x)
       /\ r.apb1 = a7s_standard_bus_rate(g.APB1, r.dcxo, r.peri0_2x)
       /\ r.uart = a7s_uart_rate(g.UART, r.dcxo, r.peri0_2x, r.peri0_480)
       /\ r.gic = a7s_gic_rate(g.GIC, r) /\ r.nsi = a7s_nsi_rate(g.NSI, r) /\ r.mbus = a7s_mbus_rate(g.MBUS, r)
  BY RatesRead
<1> HIDE DEF r
<1>11. SourcesAgree(s, r)
  <2>1. s = [HOSC |-> xo, CLK32K |-> 32, CLK16M_RC |-> 16000,
             PERI0_800M |-> r.peri0_800, PERI0_600M |-> r.peri0_2x \div 2, PERI0_480M |-> r.peri0_480,
             PERI0_400M |-> r.peri0_2x \div 3, DDRPLL |-> r.ddr, CCIPLL |-> r.cci, DEPLL3X |-> r.de_3x,
             NPUPLL |-> r.npu]
    <3>1. NamedOutput(g.REF, dcxo, 0, Only) = ref
      BY <1>4 DEF xo
    <3>2. /\ NamedOutput(g.DDR, xo, ref, Only) = r.ddr /\ NamedOutput(g.CCI, xo, ref, Only) = r.cci
          /\ NamedOutput(g.DE, xo, ref, Second) = r.de_3x /\ NamedOutput(g.NPU, xo, ref, Only) = r.npu
      BY <1>6, <1>7
    <3> QED  BY <3>1, <3>2, <1>9 DEF NamedSources, xo
  <2>2. r.ddr \in Nat /\ r.npu \in Nat /\ r.de_3x \in Nat /\ r.cci \in Nat
    BY <1>6, <1>7
  <2> HIDE DEF s
  <2> QED  BY <1>3, <1>5, <1>9, <2>1, <2>2 DEF SourcesAgree
<1> HIDE DEF s
<1>12. /\ r.ahb = (((ref * 100) \div 2) \div 2) \div 3 /\ r.apb0 = (((ref * 100) \div 2) \div 2) \div 6
       /\ r.apb1 = (((ref * 100) \div 2) \div 2) \div 6 /\ r.uart = ((ref * 100) \div 5) \div 20
  <2>1. g.AHB = BusReg("ahb", AHB_CLK_REG) /\ g.APB0 = BusReg("apb0", APB0_CLK_REG)
        /\ g.APB1 = BusReg("apb1", APB1_CLK_REG) /\ g.UART = BusReg("uart", APB_UART_CLK_REG)
    BY ImageRegs DEF g
  <2>2. r.peri0_2x = (ref * 100) \div 2 /\ r.peri0_480 = (ref * 100) \div 5
    BY <1>4, <1>9
  <2> QED  BY <1>1, <1>3, <1>5, <1>9, <1>10, <2>1, <2>2, NominalRates
<1>13. /\ r.ahb = NamedRate(s, g.AHB, AHB_CLK_REG) /\ r.apb0 = NamedRate(s, g.APB0, APB0_CLK_REG)
       /\ r.apb1 = NamedRate(s, g.APB1, APB1_CLK_REG) /\ r.uart = NamedRate(s, g.UART, APB_UART_CLK_REG)
       /\ r.gic = NamedRate(s, g.GIC, GIC_CLK_REG) /\ r.nsi = NamedRate(s, g.NSI, NSI_CLK_REG)
       /\ r.mbus = NamedRate(s, g.MBUS, MBUS_CLK_REG)
  <2>1. \A b \in Bus : \A def : \E v : Numbers(v) /\ BusReg(b, def) = Reg(def.fields, v)
    BY <1>1, NominalReg
  <2>2. g.AHB = BusReg("ahb", AHB_CLK_REG) /\ g.APB0 = BusReg("apb0", APB0_CLK_REG)
        /\ g.APB1 = BusReg("apb1", APB1_CLK_REG) /\ g.UART = BusReg("uart", APB_UART_CLK_REG)
        /\ g.GIC = Reg(GIC_CLK_REG.fields, o.clk) /\ g.NSI = Reg(NSI_CLK_REG.fields, o.clk)
        /\ g.MBUS = Reg(MBUS_CLK_REG.fields, o.clk)
    BY ImageRegs DEF g
  <2>3. r.gic = NamedRate(s, g.GIC, GIC_CLK_REG) /\ r.nsi = NamedRate(s, g.NSI, NSI_CLK_REG)
        /\ r.mbus = NamedRate(s, g.MBUS, MBUS_CLK_REG)
    BY <1>2, <1>10, <1>11, <2>2, RateByName
  <2>4. ASSUME NEW b \in Bus, NEW def \in {AHB_CLK_REG, APB0_CLK_REG, APB1_CLK_REG}
        PROVE  a7s_standard_bus_rate(BusReg(b, def), r.dcxo, r.peri0_2x) = NamedRate(s, BusReg(b, def), def)
    <3>1. PICK v : Numbers(v) /\ BusReg(b, def) = Reg(def.fields, v)
      BY <2>1
    <3> QED  BY <3>1, <1>11, RateByName
  <2>5. a7s_uart_rate(g.UART, r.dcxo, r.peri0_2x, r.peri0_480) = NamedRate(s, g.UART, APB_UART_CLK_REG)
    <3>1. PICK v : Numbers(v) /\ BusReg("uart", APB_UART_CLK_REG) = Reg(APB_UART_CLK_REG.fields, v)
      BY <2>1 DEF Bus
    <3> QED  BY <3>1, <1>11, <2>2, RateByName
  <2> QED  BY <1>10, <2>2, <2>3, <2>4, <2>5 DEF Bus
<1>14. <<r.ahb, r.apb0, r.apb1, r.uart>> = [k \in 1..4 |-> Rate(Buses[k])]
  <2>1. Rate("ahb") = r.ahb /\ Rate("apb0") = r.apb0 /\ Rate("apb1") = r.apb1 /\ Rate("uart") = r.uart
    <3>1. /\ Rate("ahb") = ((ref * 100) \div 4) \div 3 /\ Rate("apb0") = ((ref * 100) \div 4) \div 6
          /\ Rate("apb1") = ((ref * 100) \div 4) \div 6 /\ Rate("uart") = ((ref * 100) \div 5) \div 20
      BY <1>1 DEF Rate, SourceRate, AtNominal, Bus, NominalDiv, Peri0Ready, PeriFactors, ref
    <3>2. \A m \in Nat : (m \div 2) \div 2 = m \div 4
      OBVIOUS
    <3>3. ref * 100 \in Nat
      BY <1>4
    <3> QED  BY <3>1, <3>2, <3>3, <1>12
  <2>2. Buses[1] = "ahb" /\ Buses[2] = "apb0" /\ Buses[3] = "apb1" /\ Buses[4] = "uart"
    BY DEF Buses
  <2>3. \A k \in 1..4 : <<r.ahb, r.apb0, r.apb1, r.uart>>[k] = Rate(Buses[k])
    BY <2>1, <2>2
  <2> QED  BY <2>3
<1>15. /\ d["REF"].lock = "locked" /\ d["PERI0"].lock = "locked"
  BY <1>4, DumpPrinted
<1>16. ASSUME NEW p \in DOMAIN OutputsOf, p = "AUDIO0" => g.AUDIO0.v["PLL_FREF_SEL"] = 1
       PROVE  d[p].rates = [k \in DOMAIN OutputsOf[p] |-> NamedOutput(g[p], xo, ref, OutputsOf[p][k])]
  <2> DEFINE Named(out) == NamedOutput(g[p], xo, ref, out)
  <2>1. CASE p \in {"DDR", "NPU", "CCI", "GPU0", "VE0", "VE1"}
    <3>1. OutputsOf[p] = <<Only>>
      BY <2>1 DEF OutputsOf
    <3>2. d[p].rates = <<Output0(g[p], xo, ref)>>
      BY <2>1, <1>5, <1>7, DumpPrinted
    <3>3. d[p].rates = <<Named(Only)>>
      BY <2>1, <3>2, <1>6
    <3> HIDE DEF Named, d
    <3>4. <<Named(Only)>> = [k \in DOMAIN <<Only>> |-> Named(<<Only>>[k])]
      OBVIOUS
    <3> QED  BY <3>1, <3>3, <3>4 DEF Named
  <2>2. CASE p \in {"VIDEO0", "VIDEO1", "VIDEO2", "DE"}
    <3>1. OutputsOf[p] = <<First0, Second>>
      BY <2>2 DEF OutputsOf
    <3>2. d[p].rates = <<Output0(g[p], xo, ref), Output1(g[p], xo, ref)>>
      BY <2>2, <1>5, DumpPrinted
    <3>3. d[p].rates = <<Named(First0), Named(Second)>>
      BY <2>2, <3>2, <1>6
    <3> HIDE DEF Named, d
    <3>4. <<Named(First0), Named(Second)>> = [k \in DOMAIN <<First0, Second>> |-> Named(<<First0, Second>>[k])]
      OBVIOUS
    <3> QED  BY <3>1, <3>3, <3>4 DEF Named
  <2>3. CASE p \in {"PERI0", "PERI1"}
    <3>1. OutputsOf[p] = <<First0, Second, Third>>
      BY <2>3 DEF OutputsOf
    <3>2. d[p].rates = <<Named(First0), Named(Second), Named(Third)>>
      BY <2>3, <1>9, DumpPrinted
    <3> HIDE DEF Named, d
    <3>3. <<Named(First0), Named(Second), Named(Third)>>
            = [k \in DOMAIN <<First0, Second, Third>> |-> Named(<<First0, Second, Third>>[k])]
      OBVIOUS
    <3> QED  BY <3>1, <3>2, <3>3 DEF Named
  <2>4. CASE p = "AUDIO0"
    <3>1. OutputsOf[p] = <<Only>>
      BY <2>4 DEF OutputsOf
    <3>2. d[p].rates = <<a7s_main_pll_output(g.AUDIO0, ref, 16, 7, 27)>>
      BY <2>4, <1>5, DumpPrinted
    <3>3. g.AUDIO0 = Reg(PLL_AUDIO0_CTRL_REG, o.pll) /\ ref \in Nat
      BY <1>4, ImageRegs DEF g
    <3>4. d[p].rates = <<Named(Only)>>
      BY <2>4, <3>2, <3>3, <1>2, <1>3, <1>16, AudioByName
    <3> HIDE DEF Named, d
    <3>5. <<Named(Only)>> = [k \in DOMAIN <<Only>> |-> Named(<<Only>>[k])]
      OBVIOUS
    <3> QED  BY <3>1, <3>4, <3>5 DEF Named
  <2>5. p \in {"DDR", "NPU", "CCI", "GPU0", "VE0", "VE1"} \cup {"VIDEO0", "VIDEO1", "VIDEO2", "DE"}
          \cup {"PERI0", "PERI1"} \cup {"AUDIO0"}
    BY DEF OutputsOf
  <2> QED  BY <2>1, <2>2, <2>3, <2>4, <2>5
<1> DEFINE rate == [AHB |-> r.ahb, APB0 |-> r.apb0, APB1 |-> r.apb1, UART |-> r.uart, GIC |-> r.gic,
                    NSI |-> r.nsi, MBUS |-> r.mbus]
<1>17. \A c \in DOMAIN DefOf : rate[c] = NamedRate(s, g[c], DefOf[c])
  BY <1>13 DEF DefOf
<1> HIDE DEF d, rate
<1>18. DumpAgrees(g, r, d, s)
  <2>1. \A p \in DOMAIN OutputsOf :
          (p = "AUDIO0" => g.AUDIO0.v["PLL_FREF_SEL"] = 1) =>
            d[p].rates = [k \in DOMAIN OutputsOf[p] |-> NamedOutput(g[p], r.dcxo, r.ref, OutputsOf[p][k])]
    BY <1>5, <1>16
  <2>2. {d["REF"].lock, d["PERI0"].lock} = {"locked"}
    BY <1>15
  <2> QED  BY <1>5, <1>14, <1>17, <2>1, <2>2 DEF DumpAgrees, rate
<1> QED  BY <1>18 DEF g, r, d, s

(***************************************************************************)
(* a7s_clock_dump tells the truth about the tree a7s_clock_init left, for  *)
(* every setting of the registers it does not write: the shifts and masks  *)
(* of the C code and the field names of the register header give the same  *)
(* rates, and those of the four buses are the rates of Clock.              *)
(***************************************************************************)
THEOREM ClockDumpTrue == Spec => []DumpTrue
<1>1. IInv => DumpTrue
  BY DumpsTrue DEF DumpTrue
<1> QED  BY <1>1, ClockInductive, PTL
=============================================================================
