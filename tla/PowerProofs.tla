----------------------------- MODULE PowerProofs -----------------------------
(***************************************************************************)
(* Proofs about Power, for every set of rails, every layout of their       *)
(* on/off registers and any number of faults and calls.  The inductive     *)
(* invariant IInv says, for each point of the callers, which transfer of   *)
(* twi_byte_rw is under way and what its result tells about the chips.     *)
(***************************************************************************)
EXTENDS Power, TLAPS

Reg == PmuReg \cup BmuReg

\* Neither before the first phase nor after the last.
Under == {"check"} \cup Phase

TypeOK ==
  /\ t \in {"free", "stop"} \cup Under
  /\ call.op \in {"read", "write"} /\ call.reg \in Reg /\ ptr \in Reg
  /\ held \in BOOLEAN /\ twi_lock \in BOOLEAN /\ clean \in BOOLEAN /\ stored \in BOOLEAN
  /\ bmu_exist \in BOOLEAN
  /\ regs = [r \in Reg |-> regs[r]]
  /\ \A r \in OnOff : regs[r] \subseteq {x \in Rail : RegOf[x] = r}

\* What the phase of a transfer says about the chip: the register it has been
\* told, whether the byte is in it, and what a result of OK means.
BusInv ==
  /\ t = "data" => call.op = "write" /\ ptr = call.reg
  /\ t \in {"restart", "raddr", "rdata"} => call.op = "read" /\ ptr = call.reg
  /\ t \in Under => ~stored /\ ret = "EFAIL"
  /\ t \notin Under /\ ret = "OK" =>
       IF call.op = "write" THEN stored ELSE data = regs[call.reg]
  /\ call.op = "write" /\ stored => regs[call.reg] = call.val

\* What a bus with nothing wrong comes to.
CleanInv ==
  /\ pc = "boot" => t = "free" /\ regs["down"] = {}
  /\ t \in {"free", "check"} /\ pc # "boot" => str = "idle"
  /\ t \in Under /\ clean => ~held
  /\ t \notin Under /\ clean => ret = "OK"

\* Which registers a caller may be writing to.
Writing(r) == t # "free" /\ call.op = "write" /\ call.reg = r

\* The call of pmu_set_voltage_state in progress.
SwitchInv ==
  /\ pc \notin {"modify", "switched", "refused", "gone"} => req = NoReq
  /\ pc = "refused" => req.rail = "rtcldo"
  /\ pc \in {"modify", "switched"} =>
       req.rail \in Rail /\ req.on \in BOOLEAN /\ call.reg = RegOf[req.rail]
  /\ pc = "modify" => call.op = "read"
  /\ pc = "switched" =>
       /\ call.op = "write"
       /\ ~stored => call.val = IF req.on THEN regs[call.reg] \cup {req.rail}
                                          ELSE regs[call.reg] \ {req.rail}
  /\ pc = "gone" => t = "free"
  /\ \A r \in OnOff : Writing(r) => pc = "switched"

\* What sys_op was asked, what it has decided, and what is in the flag.
Agreed ==
  \/ goal = "reboot" /\ sys = "reset"
  \/ goal = "charging" /\ sys = "shutdown" /\ detect \in {"vbus", "failed"}
  \/ goal = "off" /\ sys \in {"shutdown", "uboot_shutdown"} /\ detect # "vbus"

FlagSet == goal \in {"reboot", "charging"} => regs["buffer0"] = goal

SysInv ==
  /\ pc \in {"boot", "bmu", "bmu type", "idle", "modify", "switched", "refused",
             "charging", "charging wait", "vbus", "vbus seen"} => detect = "none"
  /\ pc \in {"charging", "charging wait", "vbus", "vbus seen"} => sys = "shutdown"
  /\ pc \in {"charging wait", "vbus", "vbus seen"} => goal = "charging"
  /\ pc = "off" => sys \in {"shutdown", "uboot_shutdown"} /\ detect # "vbus"
  /\ pc \in {"reset", "reset wait", "flag"} => sys = "reset"
  /\ pc \in {"reset wait", "flag"} => goal = "reboot"
  /\ pc \in {"off wait", "cc", "batfet", "batfet write", "ilimit", "ilimit write"} =>
       goal = "off" /\ Agreed
  /\ pc \in {"flagged", "irq", "soft", "soft write", "told"} => Agreed
  /\ pc = "flagged" =>
       /\ goal \in {"reboot", "charging"}
       /\ call.op = "write" /\ call.reg = "buffer0" /\ call.val = goal
  /\ pc = "irq" => (goal = "charging" => regs["buffer0"] = "charging")
  /\ pc \in {"soft", "soft write", "told"} => FlagSet
  /\ pc = "told" => call.op = "write" /\ call.reg = "down" /\ Bit \in call.val
  /\ Writing("down") => pc = "told"
  /\ Writing("buffer0") => pc = "flagged"

IInv == TypeOK /\ BusInv /\ CleanInv /\ SwitchInv /\ SysInv

-----------------------------------------------------------------------------
(***************************************************************************)
(* The initial states: no transfer, and rails on in their own registers.   *)
(***************************************************************************)
LEMMA InitIInv == Init => IInv
<1> SUFFICES ASSUME Init PROVE IInv
  OBVIOUS
<1>1. PICK on \in SUBSET Rail :
       regs = [r \in PmuReg \cup BmuReg |->
                 CASE r \in OnOff   -> {x \in on : RegOf[x] = r}
                   [] r = "down"    -> {}
                   [] r = "buffer0" -> "clear"
                   [] r = "ic_type" -> "axp515"
                   [] r = "status0" -> IF bmu = "vbus" THEN "vbus" ELSE "no vbus"
                   [] OTHER         -> "reset value"]
  BY DEF Init, TwiStart
<1> DEFINE InOn(r)  == {x \in on : RegOf[x] = r}
           Value(r) == CASE r \in OnOff   -> InOn(r)
                         [] r = "down"    -> {}
                         [] r = "buffer0" -> "clear"
                         [] r = "ic_type" -> "axp515"
                         [] r = "status0" -> IF bmu = "vbus" THEN "vbus" ELSE "no vbus"
                         [] OTHER         -> "reset value"
<1>a. regs = [r \in Reg |-> Value(r)]
  BY <1>1, Zenon DEF Reg
<1>b. \A r \in OnOff : InOn(r) \subseteq {x \in Rail : RegOf[x] = r}
  OBVIOUS
<1> HIDE DEF InOn
<1>c. \A r \in OnOff : Value(r) = InOn(r)
  BY TwiAssumption DEF BmuReg
<1>d. Value("down") = {}
  BY TwiAssumption
<1> HIDE DEF Value
<1>e. /\ regs = [r \in Reg |-> regs[r]] /\ regs["down"] = {}
      /\ \A r \in OnOff : regs[r] \subseteq {x \in Rail : RegOf[x] = r}
  BY <1>a, <1>b, <1>c, <1>d DEF Reg, PmuReg
<1>2. /\ t = "free" /\ call.op = "read" /\ call.reg = "down" /\ ptr = "buffer0" /\ data = {}
      /\ stored = FALSE /\ clean = TRUE /\ twi_lock = FALSE /\ held \in BOOLEAN /\ ret = "OK"
      /\ pc = "boot" /\ bmu_exist = FALSE /\ req = NoReq /\ detect = "none"
  BY DEF Init, TwiStart
<1>3. TypeOK BY <1>e, <1>2 DEF TypeOK, Reg, PmuReg, Under
<1>4. BusInv BY <1>e, <1>2 DEF BusInv, Under, Phase
<1>5. CleanInv BY <1>e, <1>2 DEF CleanInv, Under, Phase
<1>6. SwitchInv BY <1>2 DEF SwitchInv, Writing
<1>7. SysInv BY <1>2 DEF SysInv, Writing
<1> QED BY <1>3, <1>4, <1>5, <1>6, <1>7 DEF IInv

(***************************************************************************)
(* What a phase does to the chips: only the data phase of a write stores,  *)
(* and it stores the argument in the register of the call.                 *)
(***************************************************************************)
LEMMA EffectOn ==
  ASSUME TypeOK, BusInv, NEW p \in Phase, t = p, Effect(p)
  PROVE  /\ p = "baddr" => ptr' = call.reg
         /\ p # "baddr" => ptr' = ptr
         /\ p = "data" => /\ regs' = [regs EXCEPT ![call.reg] = call.val] /\ stored' = TRUE
                          /\ call.op = "write" /\ ptr = call.reg
                          /\ DOMAIN regs' = DOMAIN regs /\ regs'[call.reg] = call.val
                          /\ \A r \in Reg \ {call.reg} : regs'[r] = regs[r]
         /\ p # "data" => regs' = regs /\ stored' = stored
         /\ regs' = [r \in Reg |-> regs'[r]]
<1>1. regs = [r \in Reg |-> regs[r]] /\ call.reg \in Reg /\ stored \in BOOLEAN
  BY DEF TypeOK
<1>2. p = "data" => regs' = [regs EXCEPT ![call.reg] = call.val] /\ stored' = TRUE
  BY <1>1 DEF Effect, BusInv
<1>3. p = "data" => /\ DOMAIN regs' = DOMAIN regs /\ regs'[call.reg] = call.val
                    /\ \A r \in Reg \ {call.reg} : regs'[r] = regs[r]
                    /\ regs' = [r \in Reg |-> regs'[r]]
  BY <1>1, <1>2
<1>4. p # "data" => regs' = regs /\ stored' = stored
  BY <1>1 DEF Effect
<1> QED BY <1>1, <1>2, <1>3, <1>4 DEF Effect, BusInv

(***************************************************************************)
(* A byte that reaches an on/off register is the register's own value with *)
(* the one rail of the call added or removed.                              *)
(***************************************************************************)
LEMMA OnOffStored ==
  ASSUME IInv, t = "data", Effect("data"), call.reg \in OnOff
  PROVE  /\ pc = "switched" /\ req.rail \in Rail /\ call.reg = RegOf[req.rail]
         /\ req.on \in BOOLEAN
         /\ regs'[call.reg] = IF req.on THEN regs[call.reg] \cup {req.rail}
                                        ELSE regs[call.reg] \ {req.rail}
         /\ regs'[call.reg] \subseteq {x \in Rail : RegOf[x] = call.reg}
<1>1. /\ call.op = "write" /\ ~stored /\ regs'[call.reg] = call.val
  BY EffectOn DEF IInv, BusInv, Under, Phase
<1>2. pc = "switched"
  BY <1>1 DEF IInv, SwitchInv, Writing
<1>3. /\ req.rail \in Rail /\ call.reg = RegOf[req.rail] /\ req.on \in BOOLEAN
      /\ call.val = IF req.on THEN regs[call.reg] \cup {req.rail}
                              ELSE regs[call.reg] \ {req.rail}
  BY <1>1, <1>2 DEF IInv, SwitchInv
<1>4. regs[call.reg] \subseteq {x \in Rail : RegOf[x] = call.reg}
  BY DEF IInv, TypeOK
<1> QED BY <1>1, <1>2, <1>3, <1>4

(***************************************************************************)
(* One step of twi_byte_rw preserves what is known of the bus.             *)
(***************************************************************************)
LEMMA PhaseStep ==
  ASSUME IInv, NEW p \in Phase, t = p, Effect(p) \/ UNCHANGED <<ptr, regs, stored>>,
         UNCHANGED <<call, twi_lock, bmu_exist>>, held' \in BOOLEAN, clean' \in BOOLEAN,
         \/ t' = "stop" /\ ret' = ret
         \/ Effect(p) /\ t' = Following(p) /\ ret' = IF p \in {"data", "rdata"} THEN "OK" ELSE ret,
         p = "rdata" /\ ret' = "OK" => data' = regs[ptr]
  PROVE  TypeOK' /\ BusInv'
<1> USE DEF IInv
<1>1. CASE p = "data" /\ Effect(p)
  <2>1. TypeOK'
    <3>1. \A r \in OnOff : regs'[r] \subseteq {x \in Rail : RegOf[x] = r}
      <4> SUFFICES ASSUME NEW r \in OnOff
                   PROVE  regs'[r] \subseteq {x \in Rail : RegOf[x] = r}
        OBVIOUS
      <4>1. CASE r = call.reg
        BY <1>1, <4>1, OnOffStored
      <4>2. CASE r # call.reg
        BY <1>1, <4>2, EffectOn DEF TypeOK, Reg, PmuReg
      <4> QED BY <4>1, <4>2
    <3> QED BY <1>1, <3>1, EffectOn DEF TypeOK, Under, Following
  <2>2. BusInv'
    BY <1>1, EffectOn DEF TypeOK, BusInv, Following, Under, Phase
  <2> QED BY <2>1, <2>2
<1>2. CASE p # "data" /\ Effect(p)
  <2>1. TypeOK'
    BY <1>2, EffectOn DEF TypeOK, Under, Following, Phase
  <2>2. BusInv'
    BY <1>2, EffectOn DEF TypeOK, BusInv, Following, Under, Phase
  <2> QED BY <2>1, <2>2
<1>3. CASE UNCHANGED <<ptr, regs, stored>> /\ t' = "stop" /\ ret' = ret
  BY <1>3 DEF TypeOK, BusInv, Under, Phase
<1> QED BY <1>1, <1>2, <1>3

(***************************************************************************)
(* Every phase of twi_byte_rw preserves the invariant: the callers wait.   *)
(***************************************************************************)
LEMMA TransferStep ==
  ASSUME IInv, Transfer, UNCHANGED <<pc, caller>>
  PROVE  IInv'
<1> USE DEF IInv
<1>0. UNCHANGED <<pc, bmu_exist, req, sys, goal, detect>>
  BY DEF caller
<1>1. CASE Check
  <2>1. TypeOK' /\ BusInv' /\ CleanInv'
    BY <1>0, <1>1 DEF Check, TypeOK, BusInv, CleanInv, Under, Phase, wires
  <2>2. /\ UNCHANGED <<regs, call, stored>> /\ t # "free"
        /\ \A r \in Reg : Writing(r)' => Writing(r)
    BY <1>1 DEF Check, Writing, wires
  <2>3. SwitchInv'
    BY <1>0, <2>2 DEF SwitchInv, Reg, PmuReg
  <2>4. SysInv'
    BY <1>0, <2>2 DEF SysInv, Agreed, FlagSet, Bit, Reg, PmuReg
  <2> QED BY <2>1, <2>3, <2>4
<1>2. CASE Stop
  <2>1. TypeOK' /\ BusInv' /\ CleanInv'
    BY <1>0, <1>2 DEF Stop, TypeOK, BusInv, CleanInv, Under, Phase
  <2>2. /\ UNCHANGED <<regs, call, stored>> /\ t # "free"
        /\ \A r \in Reg : Writing(r)' => Writing(r)
    BY <1>2 DEF Stop, Writing
  <2>3. SwitchInv'
    BY <1>0, <2>2 DEF SwitchInv, Reg, PmuReg
  <2>4. SysInv'
    BY <1>0, <2>2 DEF SysInv, Agreed, FlagSet, Bit, Reg, PmuReg
  <2> QED BY <2>1, <2>3, <2>4
<1>3. ASSUME NEW p \in Phase, Proceed(p) \/ Refused(p) \/ Spoilt(p)
      PROVE  IInv'
  <2>1. /\ t = p /\ UNCHANGED call /\ twi_lock' = twi_lock
        /\ held' \in BOOLEAN /\ clean' \in BOOLEAN
        /\ t' = "stop" \/ t' = Following(p)
        /\ Effect(p) \/ UNCHANGED <<ptr, regs, stored>>
        /\ \/ t' = "stop" /\ ret' = ret
           \/ Effect(p) /\ t' = Following(p) /\ ret' = IF p \in {"data", "rdata"} THEN "OK" ELSE ret
        /\ p = "rdata" /\ ret' = "OK" => data' = regs[ptr]
    BY <1>3 DEF Proceed, Refused, Spoilt, TypeOK, BusInv, Under
  <2>2. TypeOK' /\ BusInv'
    BY <1>0, <2>1, PhaseStep
  <2>3. CleanInv'
    BY <1>0, <1>3, <2>1 DEF CleanInv, TypeOK, Proceed, Refused, Spoilt, Following, Under, Phase
  <2>4. /\ t' # "check" /\ t' # "free"
        /\ \A r \in Reg : Writing(r)' => Writing(r)
    BY <2>1 DEF Writing, Following, Phase
  <2>5. CASE regs' = regs /\ stored' = stored
    <3>1. SwitchInv'
      BY <1>0, <2>1, <2>4, <2>5 DEF SwitchInv, Reg, PmuReg, Phase
    <3>2. SysInv'
      BY <1>0, <2>1, <2>4, <2>5 DEF SysInv, Agreed, FlagSet, Bit, Reg, PmuReg
    <3> QED BY <2>2, <2>3, <3>1, <3>2
  <2>6. CASE p = "data" /\ Effect(p)
    <3>1. SwitchInv'
      BY <1>0, <2>1, <2>4, <2>6, EffectOn DEF SwitchInv, Reg, PmuReg
    <3>2. SysInv'
      <4>1. regs'["buffer0"] # regs["buffer0"] => pc = "flagged"
        BY <2>1, <2>6, EffectOn DEF SysInv, Writing, Reg, PmuReg
      <4> QED BY <1>0, <2>1, <2>4, <4>1 DEF SysInv, Agreed, FlagSet, Bit, Reg, PmuReg
    <3> QED BY <2>2, <2>3, <3>1, <3>2
  <2> QED BY <2>1, <2>5, <2>6, EffectOn
<1> QED BY <1>1, <1>2, <1>3 DEF Transfer

(***************************************************************************)
(* Entering twi_byte_rw, which a locked interface refuses at once.         *)
(***************************************************************************)
LEMMA BeginStep ==
  ASSUME IInv, NEW op \in {"read", "write"}, NEW r \in Reg, NEW v, NEW d,
         Begin(op, r, v, d), pc # "boot", pc' # "boot", bmu_exist' \in BOOLEAN
  PROVE  /\ TypeOK' /\ BusInv' /\ CleanInv'
         /\ regs' = regs /\ stored' = FALSE /\ call' = [op |-> op, reg |-> r, val |-> v]
<1> USE DEF IInv, Begin, wires
<1>1. TypeOK' BY DEF TypeOK, Under
<1>2. BusInv' BY DEF TypeOK, BusInv, Under, Phase
<1>3. CleanInv' BY DEF TypeOK, CleanInv, Under, Phase
<1> QED BY <1>1, <1>2, <1>3

\* A step of a caller that leaves the bus alone.
LEMMA QuietStep ==
  ASSUME IInv, UNCHANGED quiet, pc # "boot", pc' # "boot", bmu_exist' \in BOOLEAN
  PROVE  TypeOK' /\ BusInv' /\ CleanInv'
<1> USE DEF IInv, quiet, wires, driver
<1>1. TypeOK' BY DEF TypeOK
<1>2. BusInv' BY DEF BusInv
<1>3. CleanInv' BY DEF CleanInv
<1> QED BY <1>1, <1>2, <1>3

(***************************************************************************)
(* The calls of pmu_set_voltage_state.                                     *)
(***************************************************************************)
LEMMA SetVoltageStep ==
  ASSUME IInv, \/ \E r \in Rail, on \in BOOLEAN : SetVoltageState(r, on)
               \/ SetVoltageRefused \/ Modify \/ SetVoltageReturn
  PROVE  IInv'
<1> USE DEF IInv
<1>1. ASSUME NEW r \in Rail, NEW on \in BOOLEAN, SetVoltageState(r, on)
      PROVE  IInv'
  <2>1. /\ Begin("read", RegOf[r], {}, {}) /\ pc = "idle" /\ pc' = "modify"
        /\ req' = [rail |-> r, on |-> on] /\ UNCHANGED <<bmu_exist, sys, goal, detect>>
        /\ RegOf[r] \in OnOff /\ RegOf[r] \in Reg
    BY <1>1 DEF SetVoltageState, Read, Go, OnOff, Reg, PmuReg
  <2>2. /\ TypeOK' /\ BusInv' /\ CleanInv'
        /\ regs' = regs /\ stored' = FALSE /\ call' = [op |-> "read", reg |-> RegOf[r], val |-> {}]
    BY <2>1, BeginStep DEF TypeOK
  <2>3. SwitchInv' BY <2>1, <2>2 DEF SwitchInv, Writing
  <2>4. SysInv' BY <2>1, <2>2 DEF SysInv, Writing
  <2> QED BY <2>2, <2>3, <2>4
<1>2. CASE SetVoltageRefused
  <2>1. /\ UNCHANGED quiet /\ pc = "idle" /\ pc' = "refused" /\ t = "free"
        /\ req' = [rail |-> "rtcldo", on |-> TRUE] /\ UNCHANGED <<bmu_exist, sys, goal, detect>>
    BY <1>2 DEF SetVoltageRefused, Go
  <2>2. TypeOK' /\ BusInv' /\ CleanInv' /\ t' = "free"
    BY <2>1, QuietStep DEF TypeOK, quiet, driver
  <2>3. SwitchInv' BY <2>1, <2>2 DEF SwitchInv, Writing
  <2>4. SysInv' BY <2>1, <2>2 DEF SysInv, Writing
  <2> QED BY <2>2, <2>3, <2>4
<1>3. CASE Modify
  <2> DEFINE v == IF req.on THEN data \cup {req.rail} ELSE data \ {req.rail}
  <2>1. /\ Begin("write", RegOf[req.rail], v, v) /\ pc = "modify" /\ pc' = "switched"
        /\ UNCHANGED <<bmu_exist, req, sys, goal, detect>> /\ ret = "OK" /\ t = "free"
        /\ req.rail \in Rail /\ req.on \in BOOLEAN /\ call.reg = RegOf[req.rail]
        /\ RegOf[req.rail] \in OnOff /\ RegOf[req.rail] \in Reg
    BY <1>3 DEF Modify, Write, Go, OnOff, Reg, PmuReg, SwitchInv, caller
  <2>2. data = regs[RegOf[req.rail]]
    BY <2>1 DEF BusInv, SwitchInv, Under, Phase
  <2> HIDE DEF v
  <2>3. /\ TypeOK' /\ BusInv' /\ CleanInv'
        /\ regs' = regs /\ stored' = FALSE
        /\ call' = [op |-> "write", reg |-> RegOf[req.rail], val |-> v]
    BY <2>1, BeginStep, ZenonT(30) DEF TypeOK
  <2>4. SwitchInv' BY <2>1, <2>2, <2>3 DEF SwitchInv, v
  <2>5. SysInv' BY <2>1, <2>3, TwiAssumption DEF SysInv, Writing
  <2> QED BY <2>3, <2>4, <2>5
<1>4. CASE SetVoltageReturn
  <2>1. /\ UNCHANGED quiet /\ pc \in {"modify", "switched", "refused"} /\ pc' = "idle"
        /\ req' = NoReq /\ detect' = "none" /\ UNCHANGED bmu_exist /\ t = "free"
    BY <1>4 DEF SetVoltageReturn, Return, Go
  <2>2. TypeOK' /\ BusInv' /\ CleanInv' /\ t' = "free"
    BY <2>1, QuietStep DEF TypeOK, quiet, driver
  <2>3. SwitchInv' BY <2>1, <2>2 DEF SwitchInv, Writing
  <2>4. SysInv' BY <2>1, <2>2 DEF SysInv, Writing
  <2> QED BY <2>2, <2>3, <2>4
<1> QED BY <1>1, <1>2, <1>3, <1>4

(***************************************************************************)
(* A transfer that is not of an on/off register, started by a caller that  *)
(* is not switching a rail; SysInv is left to be shown.                    *)
(***************************************************************************)
LEMMA OtherBegin ==
  ASSUME IInv, NEW op \in {"read", "write"}, NEW r \in Reg \ OnOff, NEW v, NEW d,
         Begin(op, r, v, d),
         pc \notin {"boot", "modify", "switched", "refused", "gone"},
         pc' \notin {"boot", "modify", "switched", "refused", "gone"},
         UNCHANGED <<bmu_exist, req>>
  PROVE  /\ TypeOK' /\ BusInv' /\ CleanInv' /\ SwitchInv'
         /\ regs' = regs /\ stored' = FALSE
         /\ call' = [op |-> op, reg |-> r, val |-> v]
         /\ call'.op = op /\ call'.reg = r /\ call'.val = v
<1>1. /\ TypeOK' /\ BusInv' /\ CleanInv'
      /\ regs' = regs /\ stored' = FALSE /\ call' = [op |-> op, reg |-> r, val |-> v]
  <2>1. r \in Reg /\ bmu_exist' \in BOOLEAN /\ pc # "boot" /\ pc' # "boot"
    BY DEF IInv, TypeOK
  <2> QED BY <2>1, BeginStep
<1> USE DEF IInv
<1>2. SwitchInv'
  BY <1>1 DEF SwitchInv, Writing
<1> QED BY <1>1, <1>2

\* The same for a step that leaves the bus alone.
LEMMA OtherQuiet ==
  ASSUME IInv, UNCHANGED quiet, t = "free",
         pc \notin {"boot", "modify", "switched", "refused", "gone"},
         pc' \notin {"boot", "modify", "switched", "refused", "gone"},
         UNCHANGED req, bmu_exist' \in BOOLEAN
  PROVE  TypeOK' /\ BusInv' /\ CleanInv' /\ SwitchInv' /\ UNCHANGED <<regs, t, call>>
<1> USE DEF IInv
<1>1. TypeOK' /\ BusInv' /\ CleanInv' /\ UNCHANGED <<regs, t, call>>
  BY QuietStep DEF TypeOK, quiet, wires, driver
<1>2. SwitchInv'
  BY <1>1 DEF SwitchInv, Writing
<1> QED BY <1>1, <1>2

(***************************************************************************)
(* A transfer of sys_op or bmu_init: the caller's own decisions are kept.  *)
(***************************************************************************)
LEMMA SysTransferStep ==
  ASSUME IInv, BmuInit \/ VbusDet \/ ClearIrq \/ BmuShutdown \/ RebootFlag \/ SoftRead \/ SoftWrite
  PROVE  IInv'
<1> USE TwiAssumption DEF IInv, caller
<1>1. CASE BmuInit
  <2>1. Begin("read", "ic_type", "other", "other") /\ pc = "bmu" /\ pc' = "bmu type"
    BY <1>1 DEF BmuInit, Read, Go
  <2>2. /\ TypeOK' /\ BusInv' /\ CleanInv' /\ SwitchInv' /\ call'.op = "read"
    BY <1>1, <2>1, OtherBegin DEF BmuInit, Reg, BmuReg
  <2>3. SysInv' BY <1>1, <2>1, <2>2 DEF BmuInit, SysInv, Writing
  <2> QED BY <2>2, <2>3
<1>2. CASE VbusDet
  <2>1. PICK d \in Values("status0") : Begin("read", "status0", d, d) /\ pc = "vbus" /\ pc' = "vbus seen"
    BY <1>2 DEF VbusDet, Read, Go
  <2>2. /\ TypeOK' /\ BusInv' /\ CleanInv' /\ SwitchInv' /\ call'.op = "read"
    BY <1>2, <2>1, OtherBegin DEF VbusDet, Reg, BmuReg
  <2>3. SysInv' BY <1>2, <2>1, <2>2 DEF VbusDet, SysInv, Writing
  <2> QED BY <2>2, <2>3
<1>3. CASE ClearIrq
  <2>1. /\ Begin("write", "irq", "set", "set") /\ pc = "irq"
        /\ pc' = IF goal = "off" THEN "cc" ELSE IF goal = "reboot" THEN "flag" ELSE "soft"
    BY <1>3 DEF ClearIrq, Write, Go, AfterBmu
  <2>2. /\ TypeOK' /\ BusInv' /\ CleanInv' /\ SwitchInv' /\ call'.reg = "irq" /\ regs' = regs
    BY <1>3, <2>1, OtherBegin DEF ClearIrq, Reg, BmuReg
  <2>3. SysInv' BY <1>3, <2>1, <2>2 DEF ClearIrq, SysInv, Writing, Agreed, FlagSet
  <2> QED BY <2>2, <2>3
<1>4. CASE BmuShutdown
  <2>1. /\ \E op \in {"read", "write"}, r \in {"cc", "batfet", "ilimit"}, v \in {"set", "stale"} :
             Begin(op, r, v, v)
        /\ pc \in {"cc", "batfet", "batfet write", "ilimit", "ilimit write"}
        /\ pc' \in {"cc", "batfet", "batfet write", "ilimit", "ilimit write", "soft"}
    BY <1>4 DEF BmuShutdown, Read, Write, Go
  <2>2. PICK op \in {"read", "write"}, r \in {"cc", "batfet", "ilimit"}, v \in {"set", "stale"} :
             Begin(op, r, v, v)
    BY <2>1
  <2>3. /\ TypeOK' /\ BusInv' /\ CleanInv' /\ SwitchInv' /\ call'.reg = r /\ regs' = regs
    <3>1. /\ r \in Reg \ OnOff /\ UNCHANGED <<bmu_exist, req>>
          /\ pc \notin {"boot", "modify", "switched", "refused", "gone"}
          /\ pc' \notin {"boot", "modify", "switched", "refused", "gone"}
      BY <1>4, <2>1 DEF BmuShutdown, Reg, BmuReg
    <3> QED BY <2>2, <3>1, OtherBegin
  <2>4. SysInv' BY <1>4, <2>1, <2>3 DEF BmuShutdown, SysInv, Writing, Agreed, FlagSet
  <2> QED BY <2>3, <2>4
<1>5. CASE RebootFlag
  <2>1. Begin("write", "buffer0", "reboot", "reboot") /\ pc = "flag" /\ pc' = "flagged"
    BY <1>5 DEF RebootFlag, Write, Go
  <2>2. /\ TypeOK' /\ BusInv' /\ CleanInv' /\ SwitchInv'
        /\ call'.op = "write" /\ call'.reg = "buffer0" /\ call'.val = "reboot"
    BY <1>5, <2>1, OtherBegin DEF RebootFlag, Reg, PmuReg
  <2>3. SysInv' BY <1>5, <2>1, <2>2 DEF RebootFlag, SysInv, Writing, Agreed, FlagSet
  <2> QED BY <2>2, <2>3
<1>6. CASE SoftRead
  <2>1. Begin("read", "down", {}, {}) /\ pc = "soft" /\ pc' = "soft write"
    BY <1>6 DEF SoftRead, Read, Go
  <2>2. /\ TypeOK' /\ BusInv' /\ CleanInv' /\ SwitchInv' /\ call'.op = "read" /\ regs' = regs
    BY <1>6, <2>1, OtherBegin DEF SoftRead, Reg, PmuReg
  <2>3. SysInv' BY <1>6, <2>1, <2>2 DEF SoftRead, SysInv, Writing, Agreed, FlagSet
  <2> QED BY <2>2, <2>3
<1>7. CASE SoftWrite
  <2> DEFINE v == data \cup {Bit}
  <2>1. Begin("write", "down", v, v) /\ pc = "soft write" /\ pc' = "told" /\ Bit \in v
    BY <1>7 DEF SoftWrite, Write, Go
  <2> HIDE DEF v
  <2>2. /\ TypeOK' /\ BusInv' /\ CleanInv' /\ SwitchInv' /\ regs' = regs
        /\ call'.op = "write" /\ call'.reg = "down" /\ call'.val = v
    BY <1>7, <2>1, OtherBegin DEF SoftWrite, Reg, PmuReg
  <2>3. SysInv' BY <1>7, <2>1, <2>2 DEF SoftWrite, SysInv, Writing, Agreed, FlagSet, Bit
  <2> QED BY <2>2, <2>3
<1> QED BY <1>1, <1>2, <1>3, <1>4, <1>5, <1>6, <1>7

(***************************************************************************)
(* The decisions of sys_op between its transfers.                          *)
(***************************************************************************)
LEMMA SysQuietStep ==
  ASSUME IInv, \/ BmuExist \/ NoBmu \/ NoIrq \/ Flagged \/ Told \/ SysReturn \/ SysInvalid
               \/ (\E s \in {"shutdown", "reset", "uboot_shutdown"} : SysOp(s))
               \/ WaitIdle("charging wait", "vbus") \/ WaitIdle("reset wait", "irq")
               \/ WaitIdle("off wait", "irq")
  PROVE  IInv'
<1> USE DEF IInv, caller
<1>1. CASE BmuExist
  <2>1. TypeOK' /\ BusInv' /\ CleanInv' /\ SwitchInv' /\ t' = "free" /\ pc' = "idle"
    BY <1>1, OtherQuiet DEF BmuExist, Go
  <2>2. SysInv' BY <1>1, <2>1 DEF BmuExist, Go, SysInv, Writing
  <2> QED BY <2>1, <2>2
<1>2. CASE NoBmu
  <2>1. TypeOK' /\ BusInv' /\ CleanInv' /\ SwitchInv' /\ t' = "free" /\ pc' = "off"
    BY <1>2, OtherQuiet DEF NoBmu, Go, TypeOK
  <2>2. SysInv' BY <1>2, <2>1 DEF NoBmu, Go, SysInv, Writing
  <2> QED BY <2>1, <2>2
<1>3. CASE NoIrq
  <2>1. TypeOK' /\ BusInv' /\ CleanInv' /\ SwitchInv' /\ t' = "free" /\ UNCHANGED regs
    BY <1>3, OtherQuiet DEF NoIrq, Go, AfterBmu, TypeOK
  <2>2. SysInv' BY <1>3, <2>1 DEF NoIrq, Go, AfterBmu, SysInv, Writing, Agreed, FlagSet
  <2> QED BY <2>1, <2>2
<1>4. CASE Flagged
  <2>1. TypeOK' /\ BusInv' /\ CleanInv' /\ SwitchInv' /\ t' = "free" /\ UNCHANGED regs
    BY <1>4, OtherQuiet DEF Flagged, Go, TypeOK
  <2>2. regs["buffer0"] = goal
    BY <1>4 DEF Flagged, Go, SysInv, BusInv, Under, Phase
  <2>3. SysInv' BY <1>4, <2>1, <2>2 DEF Flagged, Go, SysInv, Writing, Agreed, FlagSet
  <2> QED BY <2>1, <2>3
<1>5. CASE Told
  <2>1. TypeOK' /\ BusInv' /\ CleanInv' /\ SwitchInv' /\ t' = "free" /\ pc' = "end"
    BY <1>5, OtherQuiet DEF Told, Go, TypeOK
  <2>2. SysInv' BY <2>1 DEF SysInv, Writing
  <2> QED BY <2>1, <2>2
<1>6. CASE SysReturn
  <2>1. /\ UNCHANGED <<quiet, bmu_exist>> /\ pc' = "idle" /\ t = "free" /\ detect' = "none"
        /\ req' = NoReq /\ pc \in {"flagged", "soft write", "told"}
    BY <1>6 DEF SysReturn, Return, Go
  <2>2. req = NoReq
    BY <2>1 DEF SwitchInv
  <2>3. TypeOK' /\ BusInv' /\ CleanInv' /\ SwitchInv' /\ t' = "free"
    BY <2>1, <2>2, OtherQuiet DEF TypeOK
  <2>4. SysInv' BY <2>1, <2>3 DEF SysInv, Writing
  <2> QED BY <2>3, <2>4
<1>7. CASE SysInvalid
  <2>1. TypeOK' /\ BusInv' /\ CleanInv' /\ SwitchInv' /\ t' = "free" /\ pc' = "idle"
    BY <1>7, OtherQuiet DEF SysInvalid, Go, TypeOK
  <2>2. SysInv' BY <1>7, <2>1 DEF SysInvalid, Go, SysInv, Writing
  <2> QED BY <2>1, <2>2
<1>8. ASSUME NEW s \in {"shutdown", "reset", "uboot_shutdown"}, SysOp(s)
      PROVE  IInv'
  <2>1. /\ UNCHANGED <<quiet, bmu_exist, req, detect>> /\ t = "free" /\ pc = "idle" /\ sys' = s
        /\ s = "shutdown" => pc' = "charging"
        /\ s = "reset" => pc' = "reset"
        /\ s = "uboot_shutdown" => pc' = "off"
    BY <1>8 DEF SysOp, Call
  <2>2. TypeOK' /\ BusInv' /\ CleanInv' /\ SwitchInv' /\ t' = "free"
    BY <2>1, OtherQuiet DEF TypeOK
  <2>3. SysInv' BY <2>1, <2>2 DEF SysInv, Writing
  <2> QED BY <2>2, <2>3
<1>9. ASSUME NEW from, NEW to, WaitIdle(from, to),
             \/ from = "charging wait" /\ to = "vbus"
             \/ from \in {"reset wait", "off wait"} /\ to = "irq"
      PROVE  IInv'
  <2>1. /\ TypeOK' /\ BusInv' /\ CleanInv' /\ SwitchInv' /\ t' = "free" /\ pc = from /\ pc' = to
        /\ UNCHANGED <<sys, goal, detect>>
    BY <1>9, OtherQuiet DEF WaitIdle, Go, TypeOK
  <2>2. SysInv' BY <1>9, <2>1 DEF SysInv, Writing, Agreed
  <2> QED BY <2>1, <2>2
<1> QED BY <1>1, <1>2, <1>3, <1>4, <1>5, <1>6, <1>7, <1>8, <1>9

(***************************************************************************)
(* The step that detects VBUS decides between charging and power-off.      *)
(***************************************************************************)
LEMMA VbusSeenStep ==
  ASSUME IInv, VbusSeen
  PROVE  IInv'
<1> USE TwiAssumption DEF IInv
<1>0. /\ pc = "vbus seen" /\ t = "free" /\ UNCHANGED <<bmu_exist, req, sys, goal>>
      /\ detect' = IF ret = "OK" THEN data ELSE "failed"
  BY DEF VbusSeen
<1>1. CASE data = "vbus"
  <2>1. Begin("write", "buffer0", "charging", "charging") /\ pc' = "flagged"
    BY <1>1 DEF VbusSeen, Write, Go
  <2>2. /\ TypeOK' /\ BusInv' /\ CleanInv' /\ SwitchInv'
        /\ call'.op = "write" /\ call'.reg = "buffer0" /\ call'.val = "charging"
    BY <1>0, <2>1, OtherBegin DEF Reg, PmuReg
  <2>3. SysInv' BY <1>0, <1>1, <2>1, <2>2 DEF SysInv, Writing, Agreed
  <2> QED BY <2>2, <2>3
<1>2. CASE data # "vbus"
  <2>1. UNCHANGED quiet /\ pc' = "off"
    BY <1>2 DEF VbusSeen, Go
  <2>2. TypeOK' /\ BusInv' /\ CleanInv' /\ SwitchInv' /\ t' = "free"
    BY <1>0, <2>1, OtherQuiet DEF TypeOK
  <2>3. SysInv' BY <1>0, <1>2, <2>1, <2>2 DEF SysInv, Writing
  <2> QED BY <2>2, <2>3
<1> QED BY <1>1, <1>2

(***************************************************************************)
(* What happens to the bus as a whole: resets, clock pulses, a chip that   *)
(* lets go, a change of the bus clock, the end of the power.               *)
(***************************************************************************)
LEMMA BusStep ==
  ASSUME IInv, \/ Boot \/ PrepareAll \/ Pulses("reset wait", "irq") \/ Pulses("off wait", "irq")
               \/ ClkChange \/ PowerCut \/ (LetGo /\ UNCHANGED <<pc, caller>>)
  PROVE  IInv'
<1> USE DEF IInv, caller
<1>1. /\ t = "free" /\ UNCHANGED <<driver, ptr, regs, bmu_exist, req>>
      /\ held' \in BOOLEAN /\ twi_lock' \in BOOLEAN /\ (pc' # "boot" \/ pc' = pc)
      /\ str' = "idle" \/ (pc = "boot" /\ pc' = "boot") \/ (pc # "boot" /\ str' = str)
  BY DEF Boot, TwiInit, Reset, PrepareAll, Prepare, TwiStandbyInit, Pulses, NinePulses, Go,
         ClkChange, PowerCut, LetGo, TypeOK, quiet, wires, CleanInv
<1>2. TypeOK'
  <2>1. UNCHANGED <<t, call, stored, clean, ptr, regs, bmu_exist>>
    BY <1>1 DEF driver
  <2>2. (regs = [r \in Reg |-> regs[r]])' /\ (\A r \in OnOff : regs[r] \subseteq {x \in Rail : RegOf[x] = r})'
    BY <2>1 DEF TypeOK
  <2>3. (t \in {"free", "stop"} \cup Under)' /\ (call.op \in {"read", "write"})'
        /\ (call.reg \in Reg)' /\ (ptr \in Reg)'
    BY <2>1 DEF TypeOK
  <2>4. /\ clean' \in BOOLEAN /\ stored' \in BOOLEAN /\ bmu_exist' \in BOOLEAN
        /\ held' \in BOOLEAN /\ twi_lock' \in BOOLEAN
    BY <1>1, <2>1 DEF TypeOK
  <2> QED BY <2>2, <2>3, <2>4 DEF TypeOK
<1>3. BusInv' BY <1>1 DEF BusInv, driver
<1>4. CleanInv' BY <1>1 DEF CleanInv, driver, Under, Phase
<1>5. SwitchInv'
  <2>1. \/ pc' = "gone"
        \/ pc' \notin {"modify", "switched", "refused"} /\ req = NoReq
        \/ pc' = pc
    BY DEF Boot, PrepareAll, Prepare, Pulses, Go, ClkChange, PowerCut, LetGo, SwitchInv
  <2> QED BY <1>1, <2>1 DEF SwitchInv, Writing, driver
<1>6. SysInv'
  <2>1. CASE Boot BY <1>1, <2>1 DEF Boot, SysInv, Writing, driver
  <2>2. CASE PrepareAll
    BY <1>1, <2>2 DEF PrepareAll, Prepare, SysInv, Writing, Agreed, driver
  <2>3. CASE Pulses("reset wait", "irq") \/ Pulses("off wait", "irq")
    BY <1>1, <2>3 DEF Pulses, Go, SysInv, Writing, Agreed, driver
  <2>4. CASE PowerCut BY <1>1, <2>4 DEF PowerCut, SysInv, Writing, driver
  <2>5. CASE UNCHANGED <<pc, caller>>
    BY <1>1, <2>5 DEF SysInv, Writing, Agreed, FlagSet, Bit, driver
  <2>6. CASE ClkChange BY <2>5, <2>6 DEF ClkChange, Go
  <2> QED BY <2>1, <2>2, <2>3, <2>4, <2>5, <2>6
<1> QED BY <1>2, <1>3, <1>4, <1>5, <1>6

(***************************************************************************)
(* IInv holds in every reachable state, whatever the bus does.             *)
(***************************************************************************)
THEOREM PowerInductive == Spec => []IInv
<1>1. IInv /\ [Next]_vars => IInv'
  <2> SUFFICES ASSUME IInv, [Next]_vars PROVE IInv'
    OBVIOUS
  <2>1. CASE Step
    <3>1. CASE Transfer /\ UNCHANGED <<pc, caller>>
      BY <3>1, TransferStep
    <3>2. CASE Boot \/ PrepareAll
      BY <3>2, BusStep
    <3>3. CASE BmuExist \/ NoBmu \/ NoIrq \/ Flagged \/ Told \/ SysReturn
      BY <3>3, SysQuietStep
    <3>4. CASE Modify \/ SetVoltageReturn
      BY <3>4, SetVoltageStep
    <3>5. CASE WaitAll
      BY <3>5, SysQuietStep, BusStep DEF WaitAll
    <3>6. CASE BmuInit \/ VbusDet \/ ClearIrq \/ BmuShutdown \/ RebootFlag \/ SoftRead \/ SoftWrite
      BY <3>6, SysTransferStep
    <3>7. CASE VbusSeen
      BY <3>7, VbusSeenStep
    <3> QED BY <2>1, <3>1, <3>2, <3>3, <3>4, <3>5, <3>6, <3>7 DEF Step
  <2>2. CASE PowerCut \/ ClkChange \/ (LetGo /\ UNCHANGED <<pc, caller>>)
    BY <2>2, BusStep
  <2>3. CASE SetVoltageRefused \/ \E r \in Rail, on \in BOOLEAN : SetVoltageState(r, on)
    BY <2>3, SetVoltageStep
  <2>4. CASE SysInvalid \/ \E s \in {"shutdown", "reset", "uboot_shutdown"} : SysOp(s)
    BY <2>4, SysQuietStep
  <2>5. CASE UNCHANGED vars
    <3> USE <2>5 DEF vars, twiVars, IInv
    <3>1. TypeOK' BY DEF TypeOK
    <3>2. BusInv' /\ CleanInv' BY DEF BusInv, CleanInv
    <3>3. SwitchInv' BY DEF SwitchInv, Writing
    <3>4. SysInv' BY DEF SysInv, Writing, Agreed, FlagSet, Bit
    <3> QED BY <3>1, <3>2, <3>3, <3>4
  <2> QED BY <2>1, <2>2, <2>3, <2>4, <2>5 DEF Next, Over
<1> QED BY InitIInv, <1>1, PTL DEF Spec

(***************************************************************************)
(* A transfer on a bus with nothing wrong succeeds: no spoilt transfer     *)
(* leaves the controller in a state that a later one trips over.           *)
(***************************************************************************)
THEOREM PowerRecovers == Spec => []Recovers
<1>1. IInv => Recovers
  BY DEF IInv, CleanInv, Recovers, Under, Phase
<1> QED BY <1>1, PowerInductive, PTL

(***************************************************************************)
(* sys_op tells the chip what was asked, with the flag already in place:   *)
(* only the write at the end of _axp8191_pmu_softset changes the bits.     *)
(***************************************************************************)
THEOREM PowerToldAsAsked == Spec => ToldAsAsked
<1> DEFINE Asked ==
      regs'["down"] # regs["down"] =>
       IF sys = "reset" THEN "reset" \in regs'["down"] /\ regs["buffer0"] = "reboot"
       ELSE \/ "off" \in regs'["down"] /\ detect # "vbus"
            \/ /\ "reset" \in regs'["down"] /\ regs["buffer0"] = "charging"
               /\ sys = "shutdown" /\ detect \in {"vbus", "failed"}
<1>1. IInv /\ [Next]_vars => [Asked]_vars
  <2> SUFFICES ASSUME IInv, Next, regs'["down"] # regs["down"] PROVE Asked
    OBVIOUS
  <2>1. \E p \in Phase : t = p /\ Effect(p)
    <3>1. regs' # regs
      OBVIOUS
    <3>2. Transfer
      BY <3>1 DEF Next, Step, Boot, TwiInit, Reset, BmuInit, BmuExist, Modify, SetVoltageReturn,
        PrepareAll, Prepare, TwiStandbyInit, WaitAll, WaitIdle, Pulses, NinePulses, VbusDet,
        VbusSeen, NoBmu, ClearIrq, NoIrq, BmuShutdown, RebootFlag, Flagged, SoftRead, SoftWrite,
        Told, SysReturn, PowerCut, Over, ClkChange, SetVoltageRefused, SysInvalid, LetGo,
        SetVoltageState, SysOp, Read, Write, Begin, Return, quiet, wires, driver, vars, twiVars
    <3> QED BY <3>1, <3>2 DEF Transfer, Check, Stop, Proceed, Refused, Spoilt, wires
  <2>2. t = "data" /\ Effect("data")
    BY <2>1 DEF Effect
  <2>3. call.op = "write" /\ call.reg = "down" /\ regs'["down"] = call.val
    BY <2>2, EffectOn DEF IInv, TypeOK, Reg, PmuReg, Phase
  <2>4. pc = "told" /\ Bit \in call.val /\ Agreed /\ FlagSet
    BY <2>2, <2>3 DEF IInv, SysInv, Writing
  <2> QED BY <2>3, <2>4 DEF Agreed, FlagSet, Bit
<1> QED BY <1>1, PowerInductive, PTL DEF Spec, ToldAsAsked

-----------------------------------------------------------------------------
Powered == UNION {regs[r] : r \in OnOff}
Done    == req.rail \in Rail /\ call.op = "write" /\ stored

(***************************************************************************)
(* A byte stored in a rail's register switches that rail and no other: a   *)
(* rail's bit is in its own register only.                                 *)
(***************************************************************************)
LEMMA StoredSwitches ==
  ASSUME IInv, t = "data", Effect("data"), call.reg \in OnOff
  PROVE  Powered' = IF req.on THEN Powered \cup {req.rail} ELSE Powered \ {req.rail}
<1>1. /\ req.rail \in Rail /\ call.reg = RegOf[req.rail] /\ req.on \in BOOLEAN
      /\ regs'[call.reg] = IF req.on THEN regs[call.reg] \cup {req.rail}
                                     ELSE regs[call.reg] \ {req.rail}
  BY OnOffStored
<1>2. \A r \in OnOff : r # call.reg => regs'[r] = regs[r]
  BY EffectOn DEF IInv, Reg, PmuReg, Phase
<1>3. \A r \in OnOff : \A x \in regs[r] : RegOf[x] = r
  BY DEF IInv, TypeOK
<1>4. \A x : x \in Powered <=> \E r \in OnOff : x \in regs[r]
  BY DEF Powered
<1>5. \A x : x \in Powered' <=> \E r \in OnOff : x \in regs'[r]
  BY DEF Powered
<1>6. CASE req.on
  <2>1. \A x : x \in Powered' <=> x \in Powered \/ x = req.rail
    BY <1>1, <1>2, <1>4, <1>5, <1>6
  <2> QED BY <2>1, <1>6
<1>7. CASE ~req.on
  <2>1. \A x : x \in Powered' <=> x \in Powered /\ x # req.rail
    BY <1>1, <1>2, <1>3, <1>4, <1>5, <1>7
  <2> QED BY <2>1, <1>7
<1> QED BY <1>6, <1>7

(***************************************************************************)
(* Power implements RailSwitch: a call of pmu_set_voltage_state, with all  *)
(* that a bus may do to its read and its write, switches its own rail, at  *)
(* most once, and says OK only if it did.                                  *)
(***************************************************************************)
THEOREM PowerSwitchesRails == Spec => SwitchesRails
<1>1. Init => Switching!Init
  <2> SUFFICES ASSUME Init PROVE Switching!Init
    OBVIOUS
  <2>1. IInv BY InitIInv
  <2>2. Powered \in SUBSET Rail
    BY <2>1 DEF IInv, TypeOK, Powered
  <2>3. ~Done
    BY DEF Init, TwiStart, Done
  <2> QED BY <2>2, <2>3 DEF Switching!Init, Switching!None, Init, NoReq, Powered, Done
<1>2. IInv /\ [Next]_vars => [Switching!Next]_(Switching!vars)
  <2> SUFFICES ASSUME IInv, [Next]_vars PROVE [Switching!Next]_(Switching!vars)
    OBVIOUS
  <2>a. Done \in BOOLEAN /\ Done' \in BOOLEAN /\ NoReq.rail \notin Rail /\ "rtcldo" \notin Rail
    BY PowerAssumption DEF Done, NoReq
  <2>b. ASSUME UNCHANGED <<Powered, req, Done, result>>
        PROVE  [Switching!Next]_(Switching!vars)
    BY <2>b DEF Switching!vars, Powered, Done
  <2>1. CASE \/ SetVoltageRefused
             \/ \E r \in Rail, on \in BOOLEAN : SetVoltageState(r, on)
    <3>1. req = NoReq /\ req' # NoReq /\ UNCHANGED <<regs, result>>
      <4>1. pc = "idle"
        BY <2>1 DEF SetVoltageState, SetVoltageRefused, Call
      <4>2. req = NoReq
        BY <4>1 DEF IInv, SwitchInv
      <4>3. PICK r \in Rail \cup {"rtcldo"}, on \in BOOLEAN : req' = [rail |-> r, on |-> on]
        BY <2>1 DEF SetVoltageState, SetVoltageRefused
      <4>4. req' # NoReq
        BY <4>3, PowerAssumption DEF NoReq
      <4> QED BY <2>1, <4>2, <4>4 DEF SetVoltageState, SetVoltageRefused, Read, Begin, quiet, wires
    <3>2. Done' = FALSE
      BY <2>1, <2>a DEF SetVoltageState, SetVoltageRefused, Read, Begin, Done
    <3>3. Switching!Request
      BY <3>1, <3>2 DEF Switching!Request, Switching!None, NoReq, Powered, Done
    <3> QED BY <3>3 DEF Switching!Next
  <2>2. CASE Modify
    <3>1. UNCHANGED <<regs, req, result>> /\ Done = FALSE /\ Done' = FALSE
      BY <2>2, <2>a DEF Modify, Write, Go, Begin, caller, wires, Done, IInv, SwitchInv
    <3> QED BY <3>1, <2>b DEF Powered
  <2>3. CASE SetVoltageReturn
    <3>1. req # NoReq /\ req' = NoReq /\ Done' = FALSE /\ UNCHANGED regs
      <4>1. /\ req' = NoReq /\ pc \in {"modify", "switched", "refused"} /\ UNCHANGED regs
        BY <2>3 DEF SetVoltageReturn, Return, Go, quiet, wires
      <4>2. req.rail \in Rail \cup {"rtcldo"}
        BY <4>1 DEF IInv, SwitchInv
      <4> QED BY <4>1, <4>2, <2>a, PowerAssumption DEF NoReq, Done
    <3>2. result' \in {"OK", "error"} /\ (result' = "OK" => Done)
      BY <2>3 DEF SetVoltageReturn, Return, Go, IInv, SwitchInv, BusInv, Done, Under, Phase
    <3>3. Switching!Return
      BY <3>1, <3>2 DEF Switching!Return, Switching!None, NoReq, Powered, Done
    <3> QED BY <3>3 DEF Switching!Next
  <2>4. CASE Transfer /\ UNCHANGED <<pc, caller>>
    <3>1. UNCHANGED <<pc, req, result, call>>
      BY <2>4 DEF caller, Transfer, Check, Stop, Proceed, Refused, Spoilt
    <3>2. CASE t = "data" /\ Effect("data") /\ call.reg \in OnOff
      <4>1. Powered' = IF req.on THEN Powered \cup {req.rail} ELSE Powered \ {req.rail}
        BY <3>2, StoredSwitches
      <4>2. req # NoReq /\ req.rail \in Rail /\ Done = FALSE /\ Done' = TRUE
        BY <3>1, <3>2, <2>a, OnOffStored, EffectOn DEF IInv, BusInv, Under, Phase, Done
      <4>3. Switching!Switch
        BY <3>1, <4>1, <4>2 DEF Switching!Switch, Switching!None, NoReq, Powered, Done
      <4> QED BY <4>3 DEF Switching!Next
    <3>3. CASE t = "data" /\ Effect("data") /\ call.reg \notin OnOff
      <4>1. \A r \in OnOff : regs'[r] = regs[r]
        BY <3>3, EffectOn DEF IInv, Reg, PmuReg, Phase
      <4>2. Powered' = Powered
        BY <4>1 DEF Powered
      <4>3. req.rail \notin Rail
        BY <3>3, <2>a, EffectOn DEF IInv, SwitchInv, OnOff, Phase
      <4> QED BY <3>1, <4>2, <4>3, <2>a, <2>b DEF Done
    <3>4. CASE UNCHANGED <<regs, stored>>
      BY <3>1, <3>4, <2>b DEF Powered, Done
    <3>5. \/ UNCHANGED <<regs, stored>>
          \/ t = "data" /\ Effect("data")
      BY <2>4 DEF Transfer, Check, Stop, Proceed, Refused, Spoilt, Effect, IInv, TypeOK, wires
    <3> QED BY <3>2, <3>3, <3>4, <3>5
  <2>5. ASSUME UNCHANGED <<regs, req, result>>, UNCHANGED <<call, stored>> \/ req = NoReq
        PROVE  [Switching!Next]_(Switching!vars)
    <3>1. Powered' = Powered /\ Done' = Done
      BY <2>5, <2>a DEF Powered, Done
    <3> QED BY <2>5, <3>1, <2>b
  <2>6. CASE SysReturn
    BY <2>5, <2>6 DEF SysReturn, Return, Go, IInv, SwitchInv, quiet, wires, driver
  <2>7. CASE BmuInit \/ VbusDet \/ VbusSeen \/ ClearIrq \/ BmuShutdown \/ RebootFlag \/ SoftRead \/ SoftWrite
    <3>1. UNCHANGED <<regs, req, result>>
      BY <2>7 DEF BmuInit, VbusDet, VbusSeen, ClearIrq, BmuShutdown, RebootFlag, SoftRead, SoftWrite,
                  Read, Write, Begin, caller, quiet, wires
    <3>2. pc \notin {"modify", "switched", "refused", "gone"}
      BY <2>7 DEF BmuInit, VbusDet, VbusSeen, ClearIrq, BmuShutdown, RebootFlag, SoftRead, SoftWrite,
                  Read, Write, Go
    <3> QED BY <2>5, <3>1, <3>2 DEF IInv, SwitchInv
  <2>8. CASE \/ Boot \/ PrepareAll \/ BmuExist \/ NoBmu \/ NoIrq \/ Flagged \/ Told \/ SysInvalid
             \/ WaitAll \/ PowerCut \/ ClkChange \/ (LetGo /\ UNCHANGED <<pc, caller>>)
             \/ (\E s \in {"shutdown", "reset", "uboot_shutdown"} : SysOp(s)) \/ UNCHANGED vars
    <3>1. UNCHANGED <<regs, req, result, call, stored>>
      BY <2>8 DEF Boot, TwiInit, Reset, BmuExist, PrepareAll, Prepare, TwiStandbyInit, WaitAll,
        WaitIdle, Pulses, NinePulses, NoBmu, NoIrq, Flagged, Told, PowerCut, ClkChange, SysInvalid,
        LetGo, SysOp, quiet, wires, driver, vars, twiVars, caller
    <3> QED BY <2>5, <3>1
  <2> QED BY <2>1, <2>2, <2>3, <2>4, <2>6, <2>7, <2>8 DEF Next, Step, Over
<1> QED BY <1>1, <1>2, PowerInductive, PTL DEF Spec, SwitchesRails, Switching!Spec
=============================================================================
