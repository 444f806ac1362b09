---------------------------- MODULE WakeupProofs ----------------------------
(***************************************************************************)
(* Proofs about Wakeup and FdtEdit.                                        *)
(*                                                                         *)
(* Wakeup, for any sources, lines and numbers of messages and events: an   *)
(* interrupt may come between any two statements.  FdtEdit, for any names, *)
(* values, buffers and blobs from elsewhere of version 17: whatever calls  *)
(* build and edit a tree, its blocks stay apart and inside the buffer, and *)
(* a reader never takes what a block cut short does not hold.              *)
(***************************************************************************)
EXTENDS Wakeup, FdtEdit, NaturalsInduction, WellFoundedInduction, SequenceTheorems, TLAPS

Starting == {"reset", "returned", "global", "init"}
Arming   == {"set1", "set2", "set3", "set4", "set5", "set6"}
Clearing == {"clear2", "clear3"}
Suspends == {"start", "suspended", "flag", "check", "todoze", "doze"}
Resumes  == {"wake", "stop", "resume", "restore"}

Pcs == Starting \cup Arming \cup Clearing \cup Suspends \cup Resumes
         \cup {"idle", "clearstop", "forget"}

Irq == [ie : SUBSET Line, isr : [Slot -> {isr_default, default_wakeup_handler}],
        wake : SUBSET Line, grp : SUBSET Int, mie : BOOLEAN, nmi : BOOLEAN]

TypeOK ==
  /\ pc \in Pcs /\ irq \in Irq
  /\ armed \subseteq {s \in Src : Known(s)}
  /\ pc \in Arming \cup Clearing => Known(arg)

\* Before interrupts are on, nothing is enabled but what a reset left.
StartInv ==
  /\ pc \in Starting => armed = {}
  /\ irq.mie => pc \notin {"reset", "returned", "global"}
  /\ pc = "global" => irq.ie = {}

\* What set_wakeup_src and clear_wakeup_src have done to their line.
LineInv ==
  /\ pc \in {"set4", "set5", "set6"} => irq.isr[line] = default_wakeup_handler
  /\ pc \in Clearing => line \notin irq.ie /\ arg \notin armed

\* The reason is one of this standby, from the check that ended the wait on
\* there is one.
ReasonInv ==
  /\ pc \in Suspends \cup Resumes => wakeup_source \in happened \cup {Timer, No}
  /\ pc \in Resumes => wakeup_source # No
  /\ No \notin happened

IInv == TypeOK /\ StartInv /\ LineInv /\ NoStorm /\ Armed /\ ReasonInv /\ Recorded

USE DEF Starting, Arming, Clearing, Suspends, Resumes

-----------------------------------------------------------------------------
(* The table of irq_table.h. *)

\* A search of irq_table returns an entry of the table, or FAIL.
LEMMA FirstRowIs ==
  ASSUME NEW key, NEW from \in {1, 2}, NEW to \in {1, 2}
  PROVE  FirstRow(irq_table, from, key, to) = FAIL
         \/ \E i \in DOMAIN irq_table : FirstRow(irq_table, from, key, to) = irq_table[i][to]
<1> DEFINE hits == {i \in DOMAIN irq_table : irq_table[i][from] = key}
           least(i) == \A j \in hits : i <= j
<1>1. DOMAIN irq_table = 1 .. 10
  BY DEF irq_table
<1>2. ASSUME hits # {}
      PROVE  \E i \in hits : least(i)
  <2>1. hits \subseteq 1 .. 10
    BY <1>1
  <2> HIDE DEF hits
  <2>2. \A k \in hits : (\A j \in 1 .. (k - 1) : j \notin hits) => least(k)
    BY <2>1
  <2> HIDE DEF least
  <2>3. CASE hits \cap 1 .. 5 # {}
    BY <2>2, <2>3
  <2>4. CASE hits \cap 1 .. 5 = {}
    <3>1. \A j \in 1 .. 5 : j \notin hits
      BY <2>4
    <3>2. 6 \in hits \/ 7 \in hits \/ 8 \in hits \/ 9 \in hits \/ 10 \in hits
      <4>1. PICK k \in hits : k \in 1 .. 10 /\ k \notin 1 .. 5
        BY <1>2, <2>1, <3>1
      <4>2. k = 6 \/ k = 7 \/ k = 8 \/ k = 9 \/ k = 10
        BY <4>1
      <4> QED BY <4>1, <4>2
    <3>3. \A k \in hits : (\A j \in 6 .. (k - 1) : j \notin hits) => least(k)
      BY <2>1, <2>2, <3>1
    <3> QED BY <3>2, <3>3
  <2> QED BY <2>3, <2>4
<1>3. CASE hits = {}
  BY <1>3 DEF FirstRow
<1>4. CASE hits # {}
  <2> DEFINE c == CHOOSE i \in hits : least(i)
  <2>1. c \in hits
    BY <1>2, <1>4
  <2>2. FirstRow(irq_table, from, key, to) = irq_table[c][to]
    BY <1>4 DEF FirstRow
  <2> QED BY <2>1, <2>2
<1> QED BY <1>3, <1>4

\* Every line of the table has a slot of isr_table, and no number of CPU0 is
\* the one that stands for no reason.
LEMMA Mapped ==
  /\ \A s \in Src : CPUX_IRQ_MAPTO_CPUS(s) # FAIL => CPUX_IRQ_MAPTO_CPUS(s) \in Slot
  /\ \A l : CPUS_IRQ_MAPTO_CPUX(l) # No
  /\ Nmi # No /\ Timer # No
<1>1. \A i \in DOMAIN irq_table : irq_table[i][1] \in 16 .. 34 /\ irq_table[i][2] \in 189 .. 238
  BY DEF irq_table, INTC_R_USB_IRQ, INTC_R_ALM0_IRQ
<1>2. ASSUME NEW s \in Src, CPUX_IRQ_MAPTO_CPUS(s) # FAIL
      PROVE  CPUX_IRQ_MAPTO_CPUS(s) \in Slot
  <2>1. CPUX_IRQ_MAPTO_CPUS(s) \in 16 .. 34
    BY <1>1, <1>2, FirstRowIs DEF CPUX_IRQ_MAPTO_CPUS
  <2>2. CPUX_IRQ_MAPTO_CPUS(s) \in Line
    BY <1>2, WakeupAssumption
  <2> QED BY <2>1, <2>2 DEF Slot, IRQ_SOUCE_MAX
<1>3. ASSUME NEW l PROVE CPUS_IRQ_MAPTO_CPUX(l) # No
  <2> DEFINE m == FirstRow(irq_table, 1, l, 2)
  <2>1. m = FAIL \/ m \in 189 .. 238
    BY <1>1, FirstRowIs
  <2>2. CPUS_IRQ_MAPTO_CPUX(l) = IF m = FAIL THEN FAIL ELSE m - GIC_SRC_SPI
    BY DEF CPUS_IRQ_MAPTO_CPUX
  <2> HIDE DEF m
  <2> QED BY <2>1, <2>2 DEF GIC_SRC_SPI, No, FAIL
<1>4. Nmi # No /\ Timer # No
  BY DEF Nmi, Timer, No, GIC_SRC_SPI
<1> QED BY <1>2, <1>3, <1>4

-----------------------------------------------------------------------------
(* What each step does to the interrupts. *)

\* The steps that leave them alone.
Elsewhere ==
  \/ wakeup_timer_init \/ Tick \/ IdleTick \/ RaiseNmi \/ ServedNmi
  \/ SetTimer \/ Unknown \/ SetForget \/ ClearTimer \/ ClearTimerDone \/ Sleep
  \/ TimerStart \/ TimerStartFlag \/ NoTimer \/ Check \/ Doze \/ TimerStop \/ TimerStopFlag
  \/ Tell \/ TellTimeout \/ Forget \/ \E l \in Line : Raise(l) \/ Served(l)

\* The steps that touch a line's enable bit, handler or wakeup bit only, l
\* being the line.
Same(l) ==
  /\ irq'.mie = irq.mie
  /\ \A k : k # l => (k \in irq'.ie <=> k \in irq.ie) /\ (k \in irq'.wake <=> k \in irq.wake)
  /\ \A k \in Slot : k # l => irq'.isr[k] = irq.isr[k]

\* A source with a line has one of the interrupt controller's lines.
LEMMA KnownLine ==
  ASSUME NEW s, Known(s)
  PROVE  s \in Src /\ CPUX_IRQ_MAPTO_CPUS(s) \in Slot /\ CPUX_IRQ_MAPTO_CPUS(s) \in Line
BY Mapped DEF Known, Slot

\* Steps that are not calls of the interrupt controller leave it alone.
LEMMA ElsewhereSame ==
  ASSUME Elsewhere
  PROVE  irq' = irq
BY DEF Elsewhere, wakeup_timer_init, Tick, IdleTick, RaiseNmi, ServedNmi, SetTimer, Unknown, SetForget,
   ClearTimer, ClearTimerDone, Sleep, TimerStart, TimerStartFlag, NoTimer, Check, Doze, TimerStop,
   TimerStopFlag, Tell, TellTimeout, Forget, Raise, Served

\* What the steps of set_wakeup_src and clear_wakeup_src do to the line at hand,
\* and that they leave every other line alone.
LEMMA LineStep ==
  ASSUME TypeOK
  PROVE  /\ SetMask => /\ irq' \in Irq /\ Same(line) /\ irq'.isr = irq.isr
                       /\ line \notin irq'.ie
         /\ SetQuiet => /\ irq' \in Irq /\ Same(line) /\ irq'.isr = irq.isr
                        /\ line \notin irq'.ie
         /\ SetInstall => /\ irq' \in Irq /\ Same(line) /\ irq'.ie = irq.ie
                          /\ irq'.isr[line] = default_wakeup_handler
         /\ SetEnable \/ SetUnmask => irq' \in Irq /\ Same(line) /\ irq'.isr = irq.isr
         /\ SetDone => /\ irq' \in Irq /\ Same(line) /\ irq'.isr = irq.isr /\ irq'.ie = irq.ie
                       /\ line \in irq'.wake
         /\ ClearQuiet => /\ irq' \in Irq /\ Same(line) /\ irq'.isr = irq.isr
                          /\ line \notin irq'.ie
         /\ ClearUninstall => irq' \in Irq /\ Same(line) /\ irq'.ie = irq.ie
<1>0. irq \in Irq /\ (pc \in Arming \cup Clearing => line \in Slot /\ line \in Line)
  BY KnownLine DEF TypeOK, line
<1> USE DEF Step, Irq, Same
<1>a. ASSUME NEW q \in Irq, NEW on \in BOOLEAN
      PROVE  \E g \in SUBSET Int : group_irq(q, arg, on) = [q EXCEPT !.grp = g]
  <2> DEFINE g == CPUX_IRQ_MAPTO_CPUS_GRP(arg)
  <2>1. g \in Int
    BY DEF CPUX_IRQ_MAPTO_CPUS_GRP, FirstRow, grp_irq_table, FAIL
  <2> QED BY <2>1 DEF group_irq, interrupt_set_group_config
<1>1. ASSUME SetMask
      PROVE  irq' \in Irq /\ Same(line) /\ irq'.isr = irq.isr /\ line \notin irq'.ie
  BY <1>0, <1>1 DEF SetMask, interrupt_set_mask, interrupt_disable
<1>2. ASSUME SetQuiet
      PROVE  irq' \in Irq /\ Same(line) /\ irq'.isr = irq.isr /\ line \notin irq'.ie
  <2> DEFINE q == [irq EXCEPT !.ie = irq.ie \ {line}, !.wake = irq.wake \ {line}]
  <2>1. irq' = group_irq(q, arg, TRUE)
    BY <1>0, <1>2 DEF SetQuiet, interrupt_disable, interrput_arch_set_mask
  <2>2. q \in Irq
    BY <1>0
  <2>3. PICK g \in SUBSET Int : irq' = [q EXCEPT !.grp = g]
    BY <1>a, <2>1, <2>2
  <2> QED BY <1>0, <1>2, <2>3 DEF SetQuiet
<1>3. ASSUME SetInstall
      PROVE  irq' \in Irq /\ Same(line) /\ irq'.ie = irq.ie /\ irq'.isr[line] = default_wakeup_handler
  BY <1>0, <1>3 DEF SetInstall, install_isr
<1>4. ASSUME SetEnable \/ SetUnmask
      PROVE  irq' \in Irq /\ Same(line) /\ irq'.isr = irq.isr
  BY <1>0, <1>4 DEF SetEnable, SetUnmask, interrupt_set_mask, interrupt_enable
<1>5. ASSUME SetDone
      PROVE  irq' \in Irq /\ Same(line) /\ irq'.isr = irq.isr /\ irq'.ie = irq.ie /\ line \in irq'.wake
  BY <1>0, <1>5 DEF SetDone, interrput_arch_set_mask
<1>6. ASSUME ClearQuiet
      PROVE  irq' \in Irq /\ Same(line) /\ irq'.isr = irq.isr /\ line \notin irq'.ie
  BY <1>0, <1>6 DEF ClearQuiet, interrupt_disable, interrput_arch_set_mask
<1>7. ASSUME ClearUninstall
      PROVE  irq' \in Irq /\ Same(line) /\ irq'.ie = irq.ie
  <2> DEFINE q == uninstall_isr(irq, line, default_wakeup_handler)
  <2>1. irq' = group_irq(q, arg, FALSE)
    BY <1>7 DEF ClearUninstall
  <2>2. \/ q = irq
        \/ q = [irq EXCEPT !.isr = [irq.isr EXCEPT ![line] = isr_default]]
    BY <1>0 DEF uninstall_isr
  <2>3. line \in Slot
    BY <1>0, <1>7 DEF ClearUninstall
  <2> HIDE DEF q
  <2>4. /\ q \in Irq /\ q.ie = irq.ie /\ q.wake = irq.wake /\ q.mie = irq.mie
        /\ \A k \in Slot : k # line => q.isr[k] = irq.isr[k]
    BY <1>0, <2>2, <2>3
  <2>5. PICK g \in SUBSET Int : irq' = [q EXCEPT !.grp = g]
    BY <1>a, <2>1, <2>4
  <2> QED BY <1>0, <2>4, <2>5
<1> HIDE DEF Same, Irq
<1> QED BY <1>1, <1>2, <1>3, <1>4, <1>5, <1>6, <1>7

\* The NMI's enable is a bit of its own, in the resume half too.
NmiStep == platform_nmi_handler \/ NmiOn \/ Abort \/ NmiOff

\* What the handler, the first step of clear_wakeup_src, start-up and the NMI do
\* to the interrupt controller.
LEMMA OtherStep ==
  ASSUME TypeOK
  PROVE  /\ \A l \in Line : Handler(l) => /\ irq' \in Irq /\ Same(l) /\ irq'.isr = irq.isr
                                           /\ irq'.wake = irq.wake /\ l \notin irq'.ie
         /\ ClearMask => /\ Known(arg') /\ irq' \in Irq /\ Same(line') /\ irq'.isr = irq.isr
                         /\ line' \notin irq'.ie
         /\ InterruptInit => /\ irq' \in Irq /\ irq'.mie = irq.mie
                             /\ pc' \in {"global", "returned"} /\ (pc' = "global" => irq'.ie = {})
         /\ EnableGlobal => /\ irq' \in Irq /\ irq'.ie = irq.ie
         /\ NmiStep => /\ irq' \in Irq /\ irq'.ie = irq.ie /\ irq'.isr = irq.isr
                       /\ irq'.wake = irq.wake /\ irq'.mie = irq.mie
<1>0. irq \in Irq
  BY DEF TypeOK
<1> USE DEF Step, Irq, Same
<1>1. ASSUME NEW l \in Line, Handler(l)
      PROVE  /\ irq' \in Irq /\ Same(l) /\ irq'.isr = irq.isr /\ irq'.wake = irq.wake
             /\ l \notin irq'.ie
  BY <1>0, <1>1 DEF Handler, interrupt_set_mask, interrupt_disable
<1>2. ASSUME ClearMask
      PROVE  /\ Known(arg') /\ irq' \in Irq /\ Same(line') /\ irq'.isr = irq.isr
             /\ line' \notin irq'.ie
  <2>1. Known(arg') /\ irq' = [irq EXCEPT !.ie = irq.ie \ {line'}]
    BY <1>0, <1>2 DEF ClearMask, line, interrupt_set_mask, interrupt_disable
  <2> QED BY <1>0, <2>1
<1>3. ASSUME InterruptInit
      PROVE  /\ irq' \in Irq /\ irq'.mie = irq.mie
             /\ pc' \in {"global", "returned"} /\ (pc' = "global" => irq'.ie = {})
  <2>1. PICK c \in Counts : /\ pc' = IF interrupt_init_result(c) = OK THEN "global" ELSE "returned"
                            /\ irq' = interrupt_init(irq, c)
    BY <1>3 DEF InterruptInit
  <2>2. CASE c \in IRQ_SOUCE_MAX .. CLIC_IRQ_MAX
    <3>1. irq' = [irq EXCEPT !.ie = {l \in irq.ie : l >= c}, !.isr = [l \in Slot |-> isr_default]]
      BY <1>0, <2>1, <2>2 DEF interrupt_init, intc_init
    <3>2. ~(c < IRQ_SOUCE_MAX)
      BY <2>2 DEF IRQ_SOUCE_MAX, CLIC_IRQ_MAX
    <3>3. \A l \in irq.ie : l < c /\ l \in Int /\ c \in Int
      BY <1>0, <3>2, WakeupAssumption DEF CLIC_IRQ_MAX
    <3>4. {l \in irq.ie : l >= c} = {}
      BY <3>3
    <3> QED BY <1>0, <2>1, <3>1, <3>4, ZenonT(30)
  <2>3. CASE c \notin IRQ_SOUCE_MAX .. CLIC_IRQ_MAX
    <3>1. irq' = irq /\ pc' = "returned"
      BY <2>1, <2>3 DEF interrupt_init, interrupt_init_result, OK, EINVAL
    <3> QED BY <1>0, <3>1
  <2> QED BY <2>2, <2>3
<1>4. ASSUME EnableGlobal PROVE irq' \in Irq /\ irq'.ie = irq.ie
  BY <1>0, <1>4 DEF EnableGlobal, cpu_enable_global_int
<1>5. ASSUME NmiStep
      PROVE  /\ irq' \in Irq /\ irq'.ie = irq.ie /\ irq'.isr = irq.isr /\ irq'.wake = irq.wake
             /\ irq'.mie = irq.mie
  BY <1>0, <1>5 DEF NmiStep, platform_nmi_handler, NmiOn, Abort, NmiOff, nmi_int_enable, nmi_int_disable
<1> HIDE DEF Same, Irq
<1> QED BY <1>1, <1>2, <1>3, <1>4, <1>5

\* Every step is one of these.
LEMMA Steps ==
  ASSUME [Next]_vars
  PROVE  \/ Elsewhere \/ NmiStep \/ InterruptInit \/ EnableGlobal \/ ClearMask
         \/ SetMask \/ SetQuiet \/ SetInstall \/ SetEnable \/ SetUnmask \/ SetDone
         \/ ClearQuiet \/ ClearUninstall \/ (\E l \in Line : Handler(l)) \/ UNCHANGED vars
BY DEF Next, Process, Request, Elsewhere, NmiStep

-----------------------------------------------------------------------------
(* The invariant is kept. *)

\* The types, step by step.
LEMMA TypeOKKept ==
  ASSUME IInv, [Next]_vars
  PROVE  TypeOK'
<1>0. TypeOK
  BY DEF IInv
<1>1. CASE Elsewhere
  <2>1. irq' = irq
    BY <1>1, ElsewhereSame
  <2> QED BY <1>0, <1>1, <2>1
      DEF TypeOK, Pcs, Known, hist, Message, Step, Awake, Elsewhere, wakeup_timer_init, Tick, IdleTick,
        RaiseNmi, ServedNmi, SetTimer, Unknown, SetForget, ClearTimer, ClearTimerDone, Sleep, TimerStart,
        TimerStartFlag, NoTimer, Check, Doze, TimerStop, TimerStopFlag, Tell, TellTimeout, Forget, Raise,
        Served
<1>2. CASE NmiStep \/ InterruptInit \/ EnableGlobal
  <2>1. irq' \in Irq
    BY <1>0, <1>2, OtherStep
  <2> QED BY <1>0, <1>2, <2>1
      DEF TypeOK, Pcs, Known, hist, Step, Awake, NmiStep, platform_nmi_handler, NmiOn, Abort, NmiOff,
        InterruptInit, EnableGlobal
<1>3. CASE ClearMask
  <2>1. irq' \in Irq /\ Known(arg')
    BY <1>0, <1>3, OtherStep
  <2> QED BY <1>0, <1>3, <2>1 DEF TypeOK, Pcs, Known, Message, Step, ClearMask
<1>4. CASE \E l \in Line : Handler(l)
  <2>1. irq' \in Irq
    BY <1>0, <1>4, OtherStep
  <2> QED BY <1>0, <1>4, <2>1 DEF TypeOK, Pcs, Known, Awake, Handler
<1>5. CASE SetMask \/ SetQuiet \/ SetInstall \/ SetEnable \/ SetUnmask \/ SetDone \/ ClearQuiet
           \/ ClearUninstall
  <2>1. irq' \in Irq
    BY <1>0, <1>5, LineStep
  <2> QED BY <1>0, <1>5, <2>1
      DEF TypeOK, Pcs, Known, hist, Step, SetMask, SetQuiet, SetInstall, SetEnable, SetUnmask, SetDone,
        ClearQuiet, ClearUninstall
<1>6. CASE UNCHANGED vars
  BY <1>0, <1>6 DEF TypeOK, Known, vars
<1> QED BY <1>1, <1>2, <1>3, <1>4, <1>5, <1>6, Steps

\* What start-up has done so far, and the line of the request at hand, step by
\* step.
LEMMA StartLineKept ==
  ASSUME IInv, [Next]_vars
  PROVE  StartInv' /\ LineInv'
<1>0. TypeOK /\ StartInv /\ LineInv
  BY DEF IInv
<1> USE DEF StartInv, LineInv
<1>1. CASE Elsewhere
  <2>1. irq' = irq
    BY <1>1, ElsewhereSame
  <2> QED BY <1>0, <1>1, <2>1
      DEF line, hist, Message, Step, Awake, Elsewhere, wakeup_timer_init, Tick, IdleTick,
        RaiseNmi, ServedNmi, SetTimer, Unknown, SetForget, ClearTimer, ClearTimerDone, Sleep, TimerStart,
        TimerStartFlag, NoTimer, Check, Doze, TimerStop, TimerStopFlag, Tell, TellTimeout, Forget, Raise,
        Served
<1>2. CASE NmiStep \/ InterruptInit \/ EnableGlobal
  BY <1>0, <1>2, OtherStep
  DEF line, hist, Step, Awake, NmiStep, platform_nmi_handler, NmiOn, Abort, NmiOff, InterruptInit,
    EnableGlobal
<1>3. CASE ClearMask
  BY <1>0, <1>3, OtherStep DEF Message, Step, ClearMask, Same
<1>4. CASE \E l \in Line : Handler(l)
  <2>1. PICK l \in Line : Handler(l)
    BY <1>4
  <2>2. Same(l) /\ irq'.isr = irq.isr /\ l \notin irq'.ie
    BY <1>0, <2>1, OtherStep
  <2> QED BY <1>0, <2>1, <2>2 DEF line, Awake, Handler, Same, TakesInterrupt
<1>5. CASE SetMask \/ SetQuiet \/ SetInstall \/ SetEnable \/ SetUnmask \/ SetDone \/ ClearQuiet
           \/ ClearUninstall
  BY <1>0, <1>5, LineStep
  DEF line, hist, Step, SetMask, SetQuiet, SetInstall, SetEnable, SetUnmask, SetDone, ClearQuiet,
    ClearUninstall, Same
<1>6. CASE UNCHANGED vars
  BY <1>0, <1>6 DEF line, vars
<1> QED BY <1>1, <1>2, <1>3, <1>4, <1>5, <1>6, Steps

\* A line is enabled after its handler is there, and its handler goes after it
\* is disabled.
LEMMA NoStormKept ==
  ASSUME IInv, [Next]_vars
  PROVE  NoStorm'
<1>0. TypeOK /\ StartInv /\ LineInv /\ NoStorm
  BY DEF IInv
<1> USE DEF NoStorm
<1>1. CASE Elsewhere
  <2>1. irq' = irq
    BY <1>1, ElsewhereSame
  <2> QED BY <1>0, <2>1
<1>2. CASE NmiStep
  BY <1>0, <1>2, OtherStep
<1>3. CASE InterruptInit
  <2>1. irq'.mie = irq.mie /\ pc = "reset"
    BY <1>0, <1>3, OtherStep DEF InterruptInit, Step
  <2> QED BY <1>0, <2>1 DEF StartInv
<1>4. CASE EnableGlobal
  <2>1. irq'.ie = irq.ie /\ pc = "global"
    BY <1>0, <1>4, OtherStep DEF EnableGlobal, Step
  <2> QED BY <1>0, <2>1 DEF StartInv
<1>5. CASE ClearMask
  <2>1. Same(line') /\ irq'.isr = irq.isr /\ line' \notin irq'.ie
    BY <1>0, <1>5, OtherStep
  <2> QED BY <1>0, <2>1 DEF Same
<1>6. CASE \E l \in Line : Handler(l)
  <2>1. PICK l \in Line : Handler(l)
    BY <1>6
  <2>2. Same(l) /\ irq'.isr = irq.isr /\ l \notin irq'.ie
    BY <1>0, <2>1, OtherStep
  <2> QED BY <1>0, <2>2 DEF Same
<1>7. CASE SetMask \/ SetQuiet \/ ClearQuiet
  <2>1. Same(line) /\ irq'.isr = irq.isr /\ line \notin irq'.ie
    BY <1>0, <1>7, LineStep
  <2> QED BY <1>0, <2>1 DEF Same
<1>8. CASE SetInstall
  <2>1. Same(line) /\ irq'.ie = irq.ie /\ irq'.isr[line] = default_wakeup_handler
    BY <1>0, <1>8, LineStep
  <2> QED BY <1>0, <2>1 DEF Same
<1>9. CASE SetEnable \/ SetUnmask \/ SetDone
  <2>1. Same(line) /\ irq'.isr = irq.isr
    BY <1>0, <1>9, LineStep
  <2>2. pc \in {"set4", "set5", "set6"}
    BY <1>9 DEF SetEnable, SetUnmask, SetDone, Step
  <2>3. irq.isr[line] = default_wakeup_handler /\ line \in Slot
    BY <1>0, <2>2, KnownLine DEF LineInv, TypeOK, line
  <2> QED BY <1>0, <2>1, <2>3 DEF Same
<1>10. CASE ClearUninstall
  <2>1. Same(line) /\ irq'.ie = irq.ie /\ line \notin irq.ie
    BY <1>0, <1>10, LineStep DEF LineInv, ClearUninstall, Step
  <2> QED BY <1>0, <2>1 DEF Same
<1>11. CASE UNCHANGED vars
  BY <1>0, <1>11 DEF vars
<1> QED BY <1>1, <1>2, <1>3, <1>4, <1>5, <1>6, <1>7, <1>8, <1>9, <1>10, <1>11, Steps

\* A source alone on its line is disturbed by its own messages only, and by
\* its interrupt.
LEMMA ArmedKept ==
  ASSUME IInv, [Next]_vars
  PROVE  Armed'
<1>0. TypeOK /\ StartInv /\ LineInv /\ Armed
  BY DEF IInv
<1> SUFFICES ASSUME NEW s \in armed' \ fired', Alone(s), ~(arg' = s /\ pc' \in Arming)
             PROVE  LET l == CPUX_IRQ_MAPTO_CPUS(s)
                    IN  l \in irq'.ie \cap irq'.wake /\ irq'.isr[l] = default_wakeup_handler
  BY DEF Armed, Alone
<1> DEFINE l == CPUX_IRQ_MAPTO_CPUS(s)
           Up == l \in irq.ie /\ l \in irq.wake /\ irq.isr[l] = default_wakeup_handler
<1>a. s \in armed \ fired /\ ~(arg = s /\ pc \in Arming) => Up
  BY <1>0 DEF Armed
<1>b. s \in Src /\ l \in Slot
  BY TypeOKKept, KnownLine DEF TypeOK
<1>c. \A t \in Src : t # s => CPUX_IRQ_MAPTO_CPUS(t) # l
  BY DEF Alone
<1>d. (pc \in Arming \cup Clearing) => (arg \in Src /\ (arg # s => line # l))
  BY <1>0, <1>c DEF TypeOK, Known, line
<1> HIDE DEF l
<1>e. ASSUME Up, NEW k, k # l, Same(k)
      PROVE  l \in irq'.ie \cap irq'.wake /\ irq'.isr[l] = default_wakeup_handler
  BY <1>b, <1>e DEF Same
<1>f. ASSUME Up, irq' = irq
      PROVE  l \in irq'.ie \cap irq'.wake /\ irq'.isr[l] = default_wakeup_handler
  BY <1>f
<1> HIDE DEF Up
<1>1. CASE Elsewhere
  <2>1. irq' = irq
    BY <1>1, ElsewhereSame
  <2>2. s \in armed \ fired /\ ~(arg = s /\ pc \in Arming)
    BY <1>1 DEF hist, Message, Step, Awake, Elsewhere, wakeup_timer_init, Tick, IdleTick,
        RaiseNmi, ServedNmi, SetTimer, Unknown, SetForget, ClearTimer, ClearTimerDone, Sleep, TimerStart,
        TimerStartFlag, NoTimer, Check, Doze, TimerStop, TimerStopFlag, Tell, TellTimeout, Forget, Raise,
        Served
  <2> QED BY <1>a, <1>f, <2>1, <2>2 DEF l
<1>2. CASE NmiStep
  <2>1. irq'.ie = irq.ie /\ irq'.isr = irq.isr /\ irq'.wake = irq.wake
    BY <1>0, <1>2, OtherStep
  <2>2. s \in armed \ fired /\ ~(arg = s /\ pc \in Arming)
    BY <1>2 DEF hist, Step, Awake, NmiStep, platform_nmi_handler, NmiOn, Abort, NmiOff
  <2> QED BY <1>a, <2>1, <2>2 DEF Up, l
<1>3. CASE InterruptInit \/ EnableGlobal
  <2>1. armed' = {}
    BY <1>0, <1>3 DEF StartInv, InterruptInit, EnableGlobal, Step, hist
  <2> QED BY <2>1
<1>4. CASE ClearMask
  <2>1. Known(arg') /\ Same(line')
    BY <1>0, <1>4, OtherStep
  <2>2. s # arg' /\ s \in armed \ fired /\ pc \notin Arming
    BY <1>4 DEF ClearMask, Message, Step
  <2>3. line' # l
    BY <1>c, <2>1, <2>2 DEF Known, line
  <2> QED BY <1>a, <1>e, <2>1, <2>2, <2>3 DEF l
<1>5. CASE \E k \in Line : Handler(k)
  <2>1. PICK k \in Line : Handler(k)
    BY <1>5
  <2>2. Same(k)
    BY <1>0, <2>1, OtherStep
  <2>3. s \in armed \ fired /\ ~(arg = s /\ pc \in Arming) /\ k # l
    BY <2>1 DEF Handler, Awake, l
  <2> QED BY <1>a, <1>e, <2>2, <2>3 DEF l
<1>6. CASE SetMask \/ SetQuiet \/ SetInstall \/ SetEnable \/ SetUnmask
  <2>1. Same(line) /\ pc \in Arming /\ pc' \in Arming /\ arg' = arg /\ armed' = armed /\ fired' = fired
    BY <1>0, <1>6, LineStep DEF SetMask, SetQuiet, SetInstall, SetEnable, SetUnmask, Step, hist
  <2>2. arg # s /\ line # l
    BY <1>d, <2>1
  <2> QED BY <1>a, <1>e, <2>1, <2>2 DEF l
<1>7. CASE SetDone
  <2>1. /\ Same(line) /\ irq'.isr = irq.isr /\ irq'.ie = irq.ie /\ line \in irq'.wake
        /\ pc = "set6" /\ armed' = armed \cup {arg}
        /\ fired' = IF line \in irq.ie THEN fired \ {arg} ELSE fired \cup {arg}
    BY <1>0, <1>7, LineStep DEF SetDone, Step
  <2>2. CASE s = arg
    <3>1. line = l /\ line \in irq.ie /\ irq.isr[line] = default_wakeup_handler
      BY <1>0, <2>1, <2>2 DEF LineInv, line, l
    <3> QED BY <2>1, <3>1 DEF l
  <2>3. CASE s # arg
    <3>1. s \in armed \ fired /\ line # l
      BY <1>d, <2>1, <2>3
    <3> QED BY <1>a, <1>e, <2>1, <2>3, <3>1 DEF l
  <2> QED BY <2>2, <2>3
<1>8. CASE ClearQuiet \/ ClearUninstall
  <2>1. Same(line) /\ pc \in Clearing /\ armed' = armed /\ fired' = fired
    BY <1>0, <1>8, LineStep DEF ClearQuiet, ClearUninstall, Step, hist
  <2>2. arg # s /\ line # l
    BY <1>0, <1>d, <2>1 DEF LineInv
  <2> QED BY <1>a, <1>e, <2>1, <2>2 DEF l
<1>9. CASE UNCHANGED vars
  BY <1>9, <1>a, <1>f DEF vars, l
<1> QED BY <1>1, <1>2, <1>3, <1>4, <1>5, <1>6, <1>7, <1>8, <1>9, Steps

\* Nothing between the request and the answer takes a reason off the record.
LEMMA ReasonKept ==
  ASSUME IInv, [Next]_vars
  PROVE  ReasonInv' /\ Recorded'
<1>0. ReasonInv /\ Recorded
  BY DEF IInv
<1>a. Nmi # No /\ Timer # No /\ \A l : CPUS_IRQ_MAPTO_CPUX(l) # No
  BY Mapped
<1> USE DEF ReasonInv, Recorded, Step, Message, hist
<1>1. CASE Tick
  BY <1>0, <1>1, <1>a DEF Tick, Awake
<1>2. CASE platform_nmi_handler
  BY <1>0, <1>2, <1>a DEF platform_nmi_handler, Awake
<1>3. CASE \E l \in Line : Handler(l)
  BY <1>0, <1>3, <1>a DEF Handler, Awake
<1>4. CASE IdleTick \/ RaiseNmi \/ ServedNmi \/ \E l \in Line : Raise(l) \/ Served(l)
  BY <1>0, <1>4 DEF IdleTick, RaiseNmi, ServedNmi, Raise, Served
<1>5. CASE Request
  BY <1>0, <1>5 DEF Request, SetTimer, Unknown, SetForget, ClearMask, ClearTimer, Sleep
<1>6. CASE Process
  BY <1>0, <1>6 DEF Process, InterruptInit, EnableGlobal, wakeup_timer_init, SetMask, SetQuiet,
    SetInstall, SetEnable, SetUnmask, SetDone, ClearQuiet, ClearUninstall, ClearTimerDone, NmiOn, Abort,
    TimerStart, TimerStartFlag, NoTimer, Check, Doze, TimerStop, TimerStopFlag, NmiOff, Tell,
    TellTimeout, Forget
<1>7. CASE UNCHANGED vars
  BY <1>0, <1>7 DEF vars
<1> QED BY <1>1, <1>2, <1>3, <1>4, <1>5, <1>6, <1>7 DEF Next

-----------------------------------------------------------------------------
(* The theorems. *)

\* The firmware comes out of reset over whatever was enabled before.
LEMMA InitIInv == Init => IInv
<1> SUFFICES ASSUME Init PROVE IInv
  OBVIOUS
<1>1. PICK stale \in SUBSET Line :
        irq = [ie |-> stale, isr |-> [l \in Slot |-> isr_default], wake |-> {}, grp |-> {},
               mie |-> FALSE, nmi |-> FALSE]
  BY DEF Init
<1>2. irq \in Irq /\ irq.mie = FALSE
  BY <1>1 DEF Irq
<1> QED BY <1>2 DEF Init, IInv, TypeOK, Pcs, StartInv, LineInv, NoStorm, Armed, ReasonInv, Recorded

\* Every line, handler and reason is where the steps taken so far put it,
\* wherever the interrupts came.
THEOREM WakeupInductive == Spec => []IInv
<1>1. IInv /\ [Next]_vars => IInv'
  BY TypeOKKept, StartLineKept, NoStormKept, ArmedKept, ReasonKept DEF IInv
<1> QED BY InitIInv, <1>1, PTL DEF Spec

\* No interrupt is ever taken through isr_default or past the end of isr_table,
\* where it would stay up and be taken for ever: intc_init clears what a warm
\* reset left, and a line is enabled only with the handler that masks it.
THEOREM WakeupNoStorm == Spec => []NoStorm
<1>1. IInv => NoStorm
  BY DEF IInv
<1> QED BY <1>1, WakeupInductive, PTL

\* A source CPU0 was told is armed stays enabled, in the wakeup mask and with
\* its handler until it fires or is cleared, and a wakeup since standby_entry
\* stays on record until CPU0 is answered.
THEOREM WakeupNotMissed == Spec => []NotMissed
<1>1. IInv => NotMissed
  BY DEF IInv, NotMissed
<1> QED BY <1>1, WakeupInductive, PTL

\* The reason wait_cpu0_resume gives CPU0 is a wakeup of this standby, or the
\* timer's.
THEOREM WakeupToldTrue == Spec => ToldTrue
<1> DEFINE True == (pc = "restore" /\ pc' = "forget") => told' \in happened \cup {Timer}
<1>1. IInv /\ [Next]_vars => [True]_vars
  <2> SUFFICES ASSUME IInv, Next, pc = "restore", pc' = "forget"
               PROVE  told' \in happened \cup {Timer}
    OBVIOUS
  <2>1. told' = wakeup_source
    BY DEF Next, Process, Request, InterruptInit, EnableGlobal, wakeup_timer_init, SetMask, SetQuiet,
      SetInstall, SetEnable, SetUnmask, SetDone, ClearQuiet, ClearUninstall, ClearTimerDone, NmiOn,
      Abort, TimerStart, TimerStartFlag, NoTimer, Check, Doze, TimerStop, TimerStopFlag, NmiOff, Tell,
      TellTimeout, Forget, SetTimer, Unknown, SetForget, ClearMask, ClearTimer, Sleep, Step, Message,
      Tick, IdleTick, platform_nmi_handler, Handler, Awake, RaiseNmi, ServedNmi, Raise, Served
  <2> QED BY <2>1 DEF IInv, ReasonInv
<1> QED BY <1>1, WakeupInductive, PTL DEF Spec, ToldTrue

-----------------------------------------------------------------------------
(* Device trees.  The loops of the readers come first: each is a recursive  *)
(* function, and every turn of it is nearer to the end of the block.        *)

\* A set of numbers that is not empty has a least one.
LEMMA LeastNumber ==
  ASSUME NEW S \in SUBSET Nat, S # {}
  PROVE  \E n \in S : \A k \in S : ~ (k < n)
<1>1. PICK n \in S : \A j \in S : ~ (<<j, n>> \in OpToRel(<, Nat))
  BY NatLessThanWellFounded, WFMin
<1>2. \A j \in S : ~ (j < n)
  BY <1>1 DEF OpToRel
<1> QED  BY <1>2

\* A loop that stops in Stop and otherwise goes on with nxt, nearer to its end.
Loops(g, X, Stop, res, nxt) == g = [x \in X |-> IF x \in Stop THEN res[x] ELSE g[nxt[x]]]

\* The recursive functions of the readers are such loops, and such a function exists:
\* every turn is nearer to the end of the block by the measure m.
LEMMA LoopDefined ==
  ASSUME NEW X, NEW Stop, NEW res, NEW nxt, NEW M \in Nat, NEW m \in [X -> 0 .. M],
         \A x \in X \ Stop : nxt[x] \in X /\ m[nxt[x]] < m[x]
  PROVE  \E g : Loops(g, X, Stop, res, nxt)
<1> DEFINE Turn(g, x) == IF x \in Stop THEN res[x] ELSE g[nxt[x]]
           Sol(g, k) == \A x \in X : m[x] < k => g[x] = Turn(g, x)
           Bad == {k \in Nat : ~ \E g : Sol(g, k)}
<1>1. Bad = {}
  <2>1. SUFFICES ASSUME Bad # {} PROVE FALSE
    OBVIOUS
  <2>2. PICK n \in Bad : \A k \in Bad : ~ (k < n)
    BY <2>1, LeastNumber
  <2>3. n # 0
    <3>1. Sol(res, 0)
      OBVIOUS
    <3> QED  BY <3>1
  <2>4. n - 1 \in Nat /\ n - 1 < n /\ n \in Nat
    BY <2>3
  <2>5. PICK g : Sol(g, n - 1)
    BY <2>2, <2>4
  <2> DEFINE h == [x \in X |-> IF m[x] = n - 1 THEN Turn(g, x) ELSE g[x]]
  <2>6. ASSUME NEW x \in X, m[x] < n PROVE h[x] = Turn(h, x)
    <3>1. m[x] \in Nat
      OBVIOUS
    <3>2. h[x] = Turn(g, x)
      <4>1. CASE m[x] = n - 1
        BY <4>1
      <4>2. CASE m[x] < n - 1
        BY <2>5, <4>2
      <4> QED  BY <2>4, <2>6, <3>1, <4>1, <4>2
    <3>3. x \notin Stop => h[nxt[x]] = g[nxt[x]]
      <4>1. SUFFICES ASSUME x \notin Stop PROVE h[nxt[x]] = g[nxt[x]]
        OBVIOUS
      <4>2. nxt[x] \in X /\ m[nxt[x]] < m[x] /\ m[nxt[x]] \in Nat
        BY <4>1
      <4>3. m[nxt[x]] # n - 1
        BY <2>4, <2>6, <3>1, <4>2
      <4> QED  BY <4>2, <4>3
    <3> QED  BY <3>2, <3>3
  <2>7. Sol(h, n)
    BY <2>6
  <2> HIDE DEF h
  <2> QED  BY <2>7
<1>2. PICK g : Sol(g, M + 1)
  BY <1>1
<1> DEFINE h == [x \in X |-> g[x]]
<1>3. \A x \in X : g[x] = Turn(g, x)
  BY <1>2
<1>4. \A x \in X : h[x] = Turn(h, x)
  BY <1>3
<1>5. h = [x \in X |-> Turn(h, x)]
  BY <1>4
<1> HIDE DEF h
<1> QED  BY <1>5 DEF Loops

\* What such a loop returns: what holds where it stops and is handed on backwards.
HandsOn(D, g, good, nxt, m) ==
  \A x \in D : /\ m[x] \in Nat
               /\ \/ g[x] \in good[x]
                  \/ /\ nxt[x] \in D /\ m[nxt[x]] < m[x] /\ g[x] = g[nxt[x]]
                     /\ good[nxt[x]] \subseteq good[x]

\* Where the result is good, or is that of a later turn whose good results are good
\* here, it is good everywhere.
LEMMA LoopResult ==
  ASSUME NEW D, NEW g, NEW good, NEW nxt, NEW m, HandsOn(D, g, good, nxt, m)
  PROVE  \A x \in D : g[x] \in good[x]
<1> USE DEF HandsOn
<1> DEFINE Bad == {m[x] : x \in {y \in D : g[y] \notin good[y]}}
<1>1. SUFFICES ASSUME NEW y \in D, g[y] \notin good[y] PROVE FALSE
  OBVIOUS
<1>2. Bad # {} /\ Bad \in SUBSET Nat
  BY <1>1
<1>3. PICK n \in Bad : \A k \in Bad : ~ (k < n)
  BY <1>2, LeastNumber
<1>4. PICK x \in D : g[x] \notin good[x] /\ n = m[x]
  BY <1>3
<1>5. nxt[x] \in D /\ m[nxt[x]] < m[x] /\ g[nxt[x]] \notin good[nxt[x]]
  BY <1>4
<1> QED  BY <1>3, <1>4, <1>5

-----------------------------------------------------------------------------
(* Tokens. *)

\* A blob whose header says where the structure block ends.
Sized(blob) == blob.version >= 17 /\ blob.st \in Seq(Nat)
Tags == {FDT_BEGIN_NODE, FDT_END_NODE, FDT_PROP, FDT_NOP, FDT_END}
Tag(blob, off) == fdt_next_tag(blob, off).tag
Nxt(blob, off) == fdt_next_tag(blob, off).next

\* The error codes of libfdt.h, as numbers.
LEMMA ErrorCodes ==
  /\ Err.NOTFOUND = -1 /\ Err.EXISTS = -2 /\ Err.NOSPACE = -3 /\ Err.BADOFFSET = -4 /\ Err.BADSTATE = -7
  /\ Err.TRUNCATED = -8 /\ Err.BADMAGIC = -9 /\ Err.BADVERSION = -10 /\ Err.BADSTRUCTURE = -11
  /\ Err.BADLAYOUT = -12 /\ Err.INTERNAL = -13
BY DEF Err

\* fdt_next_tag moves on, inside the block, or reports an error.
LEMMA NextTag ==
  ASSUME NEW blob, Sized(blob), NEW off \in Nat
  PROVE  /\ Tag(blob, off) \in Tags
         /\ \/ /\ Nxt(blob, off) \in Nat /\ off < Nxt(blob, off) /\ Nxt(blob, off) <= Len(blob.st)
               /\ off < Len(blob.st) /\ Tag(blob, off) = At(blob, off)
            \/ Tag(blob, off) = FDT_END /\ Nxt(blob, off) \in {Err.TRUNCATED, Err.BADSTRUCTURE}
         /\ Tag(blob, off) = FDT_BEGIN_NODE => Nxt(blob, off) = off + 2
         /\ Tag(blob, off) = FDT_PROP => /\ At(blob, off + 1) \in Nat
                                         /\ Nxt(blob, off) = off + 3 + At(blob, off + 1)
<1> DEFINE L == Len(blob.st)
           tag == At(blob, off)
           e == TokenEnd(blob, off, tag)
<1>0. L \in Nat /\ blob.version >= 17
  BY DEF Sized
<1>1. \A k \in Nat : k < L => At(blob, k) \in Nat
  BY DEF Sized, At
<1>2. \A o, n : fdt_offset_ptr(blob, o, n) <=> o + n <= L
  BY <1>0 DEF fdt_offset_ptr
<1>3. CASE ~ fdt_offset_ptr(blob, off, 1)
  <2>1. fdt_next_tag(blob, off) = Token(FDT_END, Err.TRUNCATED)
    BY <1>3 DEF fdt_next_tag
  <2> QED  BY <2>1 DEF Tag, Nxt, Token, Tags, FDT_BEGIN_NODE, FDT_END_NODE, FDT_PROP, FDT_NOP, FDT_END
<1>4. CASE fdt_offset_ptr(blob, off, 1)
  <2>1. off < L /\ tag \in Nat
    BY <1>0, <1>1, <1>2, <1>4
  <2>2. fdt_next_tag(blob, off) = TokenAt(blob, off, tag, e)
    BY <1>4 DEF fdt_next_tag
  <2> HIDE DEF tag
  <2>3. CASE tag = FDT_BEGIN_NODE
    <3>1. e = off + 2
      BY <2>3 DEF TokenEnd, FDT_BEGIN_NODE, FDT_END_NODE, FDT_PROP, FDT_NOP, FDT_END
    <3> QED  BY <1>0, <1>2, <2>1, <2>2, <2>3, <3>1
             DEF Tag, Nxt, TokenAt, TokenIf, Inside, Token, Tags, tag,
                 FDT_BEGIN_NODE, FDT_END_NODE, FDT_PROP, FDT_NOP, FDT_END
  <2>4. CASE tag = FDT_PROP
    <3>1. e = IF off + 2 <= L THEN off + 3 + At(blob, off + 1) ELSE 0
      <4>1. fdt_offset_ptr(blob, off + 1, 1) <=> off + 2 <= L
        BY <1>0, <1>2
      <4> QED  BY <2>4, <4>1 DEF TokenEnd, FDT_BEGIN_NODE, FDT_END_NODE, FDT_PROP, FDT_NOP, FDT_END
    <3>2. off + 2 <= L => At(blob, off + 1) \in Nat
      BY <1>0, <1>1
    <3> QED  BY <1>0, <1>2, <2>1, <2>2, <2>4, <3>1, <3>2
             DEF Tag, Nxt, TokenAt, TokenIf, Inside, Token, Tags, tag,
                 FDT_BEGIN_NODE, FDT_END_NODE, FDT_PROP, FDT_NOP, FDT_END
  <2>5. CASE tag \in {FDT_END, FDT_END_NODE, FDT_NOP}
    <3>1. e = off + 1
      BY <2>5 DEF TokenEnd, FDT_BEGIN_NODE, FDT_END_NODE, FDT_PROP, FDT_NOP, FDT_END
    <3> QED  BY <1>0, <1>2, <2>1, <2>2, <2>5, <3>1
             DEF Tag, Nxt, TokenAt, TokenIf, Inside, Token, Tags, tag,
                 FDT_BEGIN_NODE, FDT_END_NODE, FDT_PROP, FDT_NOP, FDT_END
  <2>6. CASE tag \notin {FDT_BEGIN_NODE, FDT_PROP, FDT_END, FDT_END_NODE, FDT_NOP}
    <3>1. e = 0
      BY <2>6 DEF TokenEnd
    <3> QED  BY <2>2, <3>1
             DEF Tag, Nxt, TokenAt, TokenIf, Inside, Token, Tags,
                 FDT_BEGIN_NODE, FDT_END_NODE, FDT_PROP, FDT_NOP, FDT_END
  <2> QED  BY <2>3, <2>4, <2>5, <2>6
<1> QED  BY <1>3, <1>4

\* What is left of a block shows the same token or none.
Cut(blob, n) == [blob EXCEPT !.st = SubSeq(@, 1, n)]

\* A block cut after n words keeps those words and its header.
LEMMA CutSized ==
  ASSUME NEW blob \in Blob, Sized(blob), NEW n \in 0 .. Len(blob.st)
  PROVE  /\ Sized(Cut(blob, n)) /\ Len(Cut(blob, n).st) = n
         /\ \A k \in 0 .. n - 1 : At(Cut(blob, n), k) = At(blob, k)
         /\ Cut(blob, n).version = blob.version /\ Cut(blob, n).magic = blob.magic
         /\ Cut(blob, n).comp = blob.comp
<1>0. Len(blob.st) \in Nat /\ blob.st \in Seq(Nat) /\ n \in Nat /\ n <= Len(blob.st)
  BY DEF Sized
<1>1. Cut(blob, n).st = SubSeq(blob.st, 1, n) /\ Cut(blob, n).version = blob.version
      /\ Cut(blob, n).magic = blob.magic /\ Cut(blob, n).comp = blob.comp
  BY DEF Cut, Blob
<1>2. SubSeq(blob.st, 1, n) \in Seq(Nat) /\ Len(SubSeq(blob.st, 1, n)) = n
      /\ \A k \in 1 .. n : SubSeq(blob.st, 1, n)[k] = blob.st[k]
  BY <1>0
<1>3. \A k \in 0 .. n - 1 : k + 1 \in 1 .. n
  BY <1>0
<1> QED  BY <1>1, <1>2, <1>3 DEF Sized, At

\* The cut block has a token of the whole one, or reports that it ends too early.
LEMMA CutTag ==
  ASSUME NEW blob \in Blob, Sized(blob), NEW n \in 0 .. Len(blob.st), NEW off \in Nat
  PROVE  \/ /\ Tag(Cut(blob, n), off) = Tag(blob, off) /\ Nxt(Cut(blob, n), off) = Nxt(blob, off)
            /\ Nxt(blob, off) \in Nat
         \/ /\ Tag(Cut(blob, n), off) = FDT_END
            /\ Nxt(Cut(blob, n), off) \in {Err.TRUNCATED, Err.BADSTRUCTURE}
<1> DEFINE c == Cut(blob, n)
           L == Len(blob.st)
<1>0. /\ Sized(c) /\ Len(c.st) = n /\ c.version >= 17 /\ blob.version >= 17 /\ L \in Nat /\ n \in Nat /\ n <= L
      /\ \A k \in 0 .. n - 1 : At(c, k) = At(blob, k)
  BY CutSized DEF Sized
<1> HIDE DEF c
<1>1. SUFFICES ASSUME ~ (Tag(c, off) = FDT_END /\ Nxt(c, off) \in {Err.TRUNCATED, Err.BADSTRUCTURE})
               PROVE  /\ Tag(c, off) = Tag(blob, off) /\ Nxt(c, off) = Nxt(blob, off)
                      /\ Nxt(blob, off) \in Nat
  BY DEF c
<1>2. /\ Nxt(c, off) \in Nat /\ off < Nxt(c, off) /\ Nxt(c, off) <= n /\ off < n
      /\ Tag(c, off) = At(c, off)
      /\ Tag(c, off) = FDT_BEGIN_NODE => Nxt(c, off) = off + 2
      /\ Tag(c, off) = FDT_PROP => At(c, off + 1) \in Nat /\ Nxt(c, off) = off + 3 + At(c, off + 1)
  BY <1>0, <1>1, NextTag
<1>3. At(blob, off) = At(c, off) /\ (off + 1 < n => At(blob, off + 1) = At(c, off + 1))
  BY <1>0, <1>2
<1>4. /\ fdt_offset_ptr(blob, off, 1) /\ fdt_offset_ptr(c, off, 1)
      /\ off + 1 < n => fdt_offset_ptr(blob, off + 1, 1) /\ fdt_offset_ptr(c, off + 1, 1)
      /\ fdt_offset_ptr(c, off + 1, 1) => off + 1 < n
  BY <1>0, <1>2 DEF fdt_offset_ptr
<1> DEFINE tag == At(c, off)
           e == TokenEnd(c, off, tag)
<1>5. fdt_next_tag(c, off) = TokenIf(Inside(c, off, e), tag, e)
  BY <1>4 DEF fdt_next_tag, TokenAt
<1>6. Inside(c, off, e) /\ Nxt(c, off) = e
  <2> HIDE DEF e, tag
  <2>1. CASE ~ Inside(c, off, e)
    BY <1>1, <1>5, <2>1 DEF TokenIf, Token, Tag, Nxt
  <2>2. CASE Inside(c, off, e)
    BY <1>5, <2>2 DEF TokenIf, Token, Nxt
  <2> QED  BY <2>1, <2>2
<1>7. TokenEnd(blob, off, tag) = e
  <2>1. CASE tag # FDT_PROP
    BY <2>1 DEF TokenEnd
  <2>2. CASE tag = FDT_PROP
    <3>1. tag # FDT_BEGIN_NODE
      BY <2>2 DEF FDT_PROP, FDT_BEGIN_NODE
    <3>2. fdt_offset_ptr(c, off + 1, 1)
      <4>1. SUFFICES ASSUME ~ fdt_offset_ptr(c, off + 1, 1) PROVE FALSE
        OBVIOUS
      <4>2. e = 0
        BY <2>2, <3>1, <4>1 DEF TokenEnd, FDT_BEGIN_NODE, FDT_END_NODE, FDT_PROP, FDT_NOP, FDT_END
      <4> QED  BY <1>6, <4>2 DEF Inside
    <3>3. fdt_offset_ptr(blob, off + 1, 1) /\ At(blob, off + 1) = At(c, off + 1)
      BY <1>3, <1>4, <3>2
    <3> QED  BY <2>2, <3>1, <3>2, <3>3 DEF TokenEnd
  <2> QED  BY <2>1, <2>2
<1>8. Inside(blob, off, e)
  <2>1. e \in Nat /\ e <= n /\ e # 0
    BY <1>2, <1>6
  <2> HIDE DEF e
  <2> QED  BY <1>0, <2>1 DEF Inside, fdt_offset_ptr
<1>9. fdt_next_tag(blob, off) = TokenIf(Inside(blob, off, e), tag, e)
  BY <1>3, <1>4, <1>7 DEF fdt_next_tag, TokenAt
<1>10. fdt_next_tag(blob, off) = fdt_next_tag(c, off)
  <2> HIDE DEF e, tag
  <2> QED  BY <1>5, <1>6, <1>8, <1>9 DEF TokenIf
<1> QED  BY <1>2, <1>10 DEF Tag, Nxt

-----------------------------------------------------------------------------
(* fdt_next_node. *)

Spot == [off : Nat, depth : Int]
WalkStops(blob, counted, r) ==
  \/ Tag(blob, r.off) \in {FDT_BEGIN_NODE, FDT_END}
  \/ Tag(blob, r.off) = FDT_END_NODE /\ counted /\ r.depth = 0
WalkEnd(blob, counted, r) ==
  IF Tag(blob, r.off) = FDT_BEGIN_NODE THEN Reached(r.off, r.depth + 1)
  ELSE IF Tag(blob, r.off) = FDT_END
         THEN Reached(IF Nxt(blob, r.off) >= 0 \/ (Nxt(blob, r.off) = Err.TRUNCATED /\ ~ counted)
                        THEN Err.NOTFOUND ELSE Nxt(blob, r.off), r.depth)
  ELSE Reached(Nxt(blob, r.off), -1)
WalkOn(blob, r) ==
  Reached(Nxt(blob, r.off), IF Tag(blob, r.off) = FDT_END_NODE THEN r.depth - 1 ELSE r.depth)

\* How far a loop at offset off is from its end, in a block of L words.
Ahead(L, off) == IF off < 0 THEN 0 ELSE IF off >= L THEN 1 ELSE L - off + 1

\* The measure of the loops: how far an offset is from the end of the block.
LEMMA AheadRange ==
  ASSUME NEW blob, Sized(blob)
  PROVE  /\ Len(blob.st) + 1 \in Nat
         /\ \A j \in Int : Ahead(Len(blob.st), j) \in 0 .. Len(blob.st) + 1 /\ Ahead(Len(blob.st), j) \in Nat
<1>1. Len(blob.st) \in Nat
  BY DEF Sized
<1> QED  BY <1>1 DEF Ahead

\* The loop of fdt_next_node goes on behind the token it is at, inside the block.
LEMMA WalkMoves ==
  ASSUME NEW blob, Sized(blob), NEW counted \in BOOLEAN, NEW r \in Spot, ~ WalkStops(blob, counted, r)
  PROVE  /\ WalkOn(blob, r) \in Spot /\ r.off < WalkOn(blob, r).off /\ WalkOn(blob, r).off <= Len(blob.st)
         /\ Ahead(Len(blob.st), WalkOn(blob, r).off) < Ahead(Len(blob.st), r.off)
<1>0. r.off \in Nat /\ r.depth \in Int /\ Len(blob.st) \in Nat
  BY DEF Spot, Sized
<1>1. Nxt(blob, r.off) \in Nat /\ r.off < Nxt(blob, r.off) /\ Nxt(blob, r.off) <= Len(blob.st)
      /\ r.off < Len(blob.st)
  BY <1>0, NextTag DEF WalkStops
<1>2. WalkOn(blob, r).off = Nxt(blob, r.off) /\ WalkOn(blob, r) \in Spot
  BY <1>0, <1>1 DEF WalkOn, Spot, Reached
<1>3. Ahead(Len(blob.st), Nxt(blob, r.off)) < Ahead(Len(blob.st), r.off)
  BY <1>0, <1>1 DEF Ahead
<1> QED  BY <1>1, <1>2, <1>3

\* The loop of fdt_next_node, one turn at a time.
LEMMA WalkLoop ==
  ASSUME NEW blob, Sized(blob), NEW counted \in BOOLEAN
  PROVE  \A r \in Spot : Walk(blob, counted)[r] = IF WalkStops(blob, counted, r) THEN WalkEnd(blob, counted, r)
                                                  ELSE Walk(blob, counted)[WalkOn(blob, r)]
<1> DEFINE Stop == {r \in Spot : WalkStops(blob, counted, r)}
           res == [r \in Spot |-> WalkEnd(blob, counted, r)]
           nxt == [r \in Spot |-> WalkOn(blob, r)]
           m == [r \in Spot |-> Ahead(Len(blob.st), r.off)]
           Body(g, r) ==
             IF Tag(blob, r.off) = FDT_BEGIN_NODE THEN Reached(r.off, r.depth + 1)
             ELSE IF Tag(blob, r.off) = FDT_END
                    THEN Reached(IF Nxt(blob, r.off) >= 0 \/ (Nxt(blob, r.off) = Err.TRUNCATED /\ ~ counted)
                                   THEN Err.NOTFOUND ELSE Nxt(blob, r.off), r.depth)
             ELSE IF Tag(blob, r.off) = FDT_END_NODE /\ counted /\ r.depth = 0 THEN Reached(Nxt(blob, r.off), -1)
             ELSE g[Reached(Nxt(blob, r.off), IF Tag(blob, r.off) = FDT_END_NODE
                                                THEN r.depth - 1 ELSE r.depth)]
           Law(g, r) == IF WalkStops(blob, counted, r) THEN WalkEnd(blob, counted, r) ELSE g[WalkOn(blob, r)]
<1>0. Len(blob.st) + 1 \in Nat /\ m \in [Spot -> 0 .. Len(blob.st) + 1]
  BY AheadRange DEF Spot
<1>1. \A r \in Spot \ Stop : nxt[r] \in Spot /\ m[nxt[r]] < m[r]
  BY WalkMoves
<1>2. PICK g : Loops(g, Spot, Stop, res, nxt)
  <2> HIDE DEF Stop, res, nxt, m, Body, Law
  <2> QED  BY <1>0, <1>1, LoopDefined
<1>3. \A h, r : Body(h, r) = Law(h, r)
  BY DEF WalkStops, WalkEnd, WalkOn, FDT_BEGIN_NODE, FDT_END_NODE, FDT_END
<1>4. g = [r \in Spot |-> Law(g, r)]
  BY <1>2 DEF Loops
<1>5. Walk(blob, counted) = CHOOSE f : f = [r \in [off : Nat, depth : Int] |-> Body(f, r)]
  BY DEF Walk, Tag, Nxt
<1> HIDE DEF Body
<1>6. g = [r \in [off : Nat, depth : Int] |-> Body(g, r)]
  BY <1>3, <1>4 DEF Spot
<1>7. Walk(blob, counted) = [r \in [off : Nat, depth : Int] |-> Body(Walk(blob, counted), r)]
  BY <1>5, <1>6
<1> HIDE DEF Law
<1>8. \A r \in Spot : Walk(blob, counted)[r] = Law(Walk(blob, counted), r)
  BY <1>3, <1>7 DEF Spot
<1> QED  BY <1>8 DEF Law

\* The walk ends at a node, behind the end of the node it is in, or with an error.
Walked(blob, counted, r) ==
  {v \in Place : \/ /\ v.off \in {Err.NOTFOUND, Err.TRUNCATED, Err.BADSTRUCTURE}
                    /\ counted /\ r.depth >= 0 => v.depth >= 0
                 \/ /\ v.off \in Nat /\ r.off <= v.off /\ v.off < Len(blob.st)
                    /\ counted /\ r.depth >= 0 => v.depth >= 1
                 \/ /\ counted /\ v.depth = -1
                    /\ v.off \in Nat /\ r.off < v.off /\ v.off <= Len(blob.st)}

\* It ends at a node of the block, behind the end of the node it began in, or with an
\* error.
LEMMA WalkRange ==
  ASSUME NEW blob, Sized(blob), NEW counted \in BOOLEAN
  PROVE  \A r \in Spot : Walk(blob, counted)[r] \in Walked(blob, counted, r)
<1> DEFINE W == Walk(blob, counted)
           good == [r \in Spot |-> Walked(blob, counted, r)]
           nxt == [r \in Spot |-> WalkOn(blob, r)]
           m == [r \in Spot |-> Ahead(Len(blob.st), r.off)]
<1>1. ASSUME NEW r \in Spot, WalkStops(blob, counted, r) PROVE W[r] \in good[r]
  <2>0. r.off \in Nat /\ r.depth \in Int /\ Len(blob.st) \in Nat
    BY DEF Spot, Sized
  <2>1. W[r] = WalkEnd(blob, counted, r)
    BY <1>1, WalkLoop
  <2> DEFINE t == Tag(blob, r.off)
             n == Nxt(blob, r.off)
  <2>2. /\ \/ n \in Nat /\ r.off < n /\ n <= Len(blob.st) /\ r.off < Len(blob.st)
           \/ t = FDT_END /\ n \in {Err.TRUNCATED, Err.BADSTRUCTURE}
    BY <2>0, NextTag
  <2>3. CASE t = FDT_BEGIN_NODE
    <3>1. W[r] = [off |-> r.off, depth |-> r.depth + 1]
      BY <2>1, <2>3 DEF WalkEnd, Reached
    <3>2. r.off < Len(blob.st)
      BY <2>2, <2>3 DEF FDT_BEGIN_NODE, FDT_END
    <3> HIDE DEF W
    <3> QED  BY <2>0, <3>1, <3>2 DEF Walked, Place
  <2>4. CASE t = FDT_END
    <3>1. /\ W[r] = [off |-> IF n >= 0 \/ (n = Err.TRUNCATED /\ ~ counted) THEN Err.NOTFOUND ELSE n, depth |-> r.depth]
      BY <2>1, <2>4 DEF WalkEnd, Reached, FDT_BEGIN_NODE, FDT_END
    <3>2. n \in Nat \/ n \in {Err.TRUNCATED, Err.BADSTRUCTURE}
      BY <2>2
    <3> HIDE DEF W, n
    <3> QED  BY <2>0, <3>1, <3>2, ErrorCodes DEF Walked, Place
  <2>5. CASE t \notin {FDT_BEGIN_NODE, FDT_END}
    <3>1. W[r] = [off |-> n, depth |-> -1] /\ counted
      BY <1>1, <2>1, <2>5 DEF WalkEnd, Reached, WalkStops
    <3>2. n \in Nat /\ r.off < n /\ n <= Len(blob.st)
      BY <2>2, <2>5
    <3> HIDE DEF W, n
    <3> QED  BY <2>0, <3>1, <3>2 DEF Walked, Place
  <2> QED  BY <2>3, <2>4, <2>5
<1>2. ASSUME NEW r \in Spot, ~ WalkStops(blob, counted, r)
      PROVE  /\ nxt[r] \in Spot /\ m[nxt[r]] < m[r] /\ W[r] = W[nxt[r]]
             /\ good[nxt[r]] \subseteq good[r]
  <2>0. r.off \in Nat /\ r.depth \in Int /\ Len(blob.st) \in Nat
    BY DEF Spot, Sized
  <2>1. nxt[r] \in Spot /\ m[nxt[r]] < m[r] /\ r.off < nxt[r].off
    BY <1>2, WalkMoves
  <2>2. W[r] = W[nxt[r]]
    BY <1>2, WalkLoop
  <2>3. nxt[r].off \in Nat /\ nxt[r].depth \in Int /\ (counted /\ r.depth >= 0 => nxt[r].depth >= 0)
    <3>1. nxt[r].depth = IF Tag(blob, r.off) = FDT_END_NODE THEN r.depth - 1 ELSE r.depth
      BY DEF WalkOn, Reached
    <3>2. ~ (Tag(blob, r.off) = FDT_END_NODE /\ counted /\ r.depth = 0)
      BY <1>2 DEF WalkStops
    <3>3. nxt[r].off \in Nat
      BY <2>1 DEF Spot
    <3> QED  BY <2>0, <3>1, <3>2, <3>3
  <2>4. Walked(blob, counted, nxt[r]) \subseteq Walked(blob, counted, r)
    <3> HIDE DEF nxt
    <3> QED  BY <2>0, <2>1, <2>3 DEF Walked, Place
  <2> QED  BY <2>1, <2>2, <2>4
<1>3. \A r \in Spot : m[r] \in Nat
  BY AheadRange DEF Spot
<1> HIDE DEF W, good, nxt, m
<1>4. HandsOn(Spot, W, good, nxt, m)
  BY <1>1, <1>2, <1>3 DEF HandsOn
<1>5. \A r \in Spot : W[r] \in good[r]
  BY <1>4, LoopResult
<1> QED  BY <1>5 DEF W, good

\* _fdt_check_node_offset accepts the offset of a node, and only that.
LEMMA NodeOffset ==
  ASSUME NEW blob, Sized(blob), NEW off \in Nat
  PROVE  \/ /\ fdt_check_node_offset(blob, off) = off + 2 /\ off + 2 <= Len(blob.st)
            /\ Tag(blob, off) = FDT_BEGIN_NODE /\ Nxt(blob, off) = off + 2
         \/ /\ fdt_check_node_offset(blob, off) = Err.BADOFFSET
            /\ Tag(blob, off) # FDT_BEGIN_NODE
<1>1. fdt_check_node_offset(blob, off)
        = IF Tag(blob, off) # FDT_BEGIN_NODE THEN Err.BADOFFSET ELSE Nxt(blob, off)
  BY DEF fdt_check_node_offset, Behind, Tag, Nxt
<1> QED  BY <1>1, NextTag DEF FDT_BEGIN_NODE, FDT_END

\* fdt_next_node from a node, with a depth to count.
LEMMA NextNodeOf ==
  ASSUME NEW blob, Sized(blob), NEW off \in Nat, NEW depth
  PROVE  fdt_next_node(blob, off, depth, TRUE)
           = IF fdt_check_node_offset(blob, off) < 0 THEN Reached(Err.BADOFFSET, depth)
             ELSE Walk(blob, TRUE)[Reached(off + 2, depth)]
<1>1. fdt_next_node(blob, off, depth, TRUE) = WalkFrom(blob, fdt_check_node_offset(blob, off), depth, TRUE)
  <2>1. ~ (off < 0)
    OBVIOUS
  <2> QED  BY <2>1 DEF fdt_next_node
<1>2. ~ (fdt_check_node_offset(blob, off) < 0) => fdt_check_node_offset(blob, off) = off + 2
  BY NodeOffset, ErrorCodes
<1> QED  BY <1>1, <1>2 DEF WalkFrom

\* fdt_next_node, with a depth: the next node, the end of the outermost one, or
\* an error.
Stepped(blob, off) ==
  {v \in Place : \/ /\ v.off \in {Err.NOTFOUND, Err.TRUNCATED, Err.BADSTRUCTURE, Err.BADOFFSET}
                    /\ v.depth >= 0
                 \/ v.off \in Nat /\ off < v.off /\ v.off < Len(blob.st) /\ v.depth >= 1
                 \/ v.depth = -1 /\ v.off \in Nat /\ off < v.off /\ v.off <= Len(blob.st)}

\* fdt_next_node moves on inside the block or returns an error.
LEMMA NextNodeRange ==
  ASSUME NEW blob, Sized(blob), NEW off \in Nat, NEW depth \in Nat
  PROVE  fdt_next_node(blob, off, depth, TRUE) \in Stepped(blob, off)
<1>0. Len(blob.st) \in Nat
  BY DEF Sized
<1>1. CASE fdt_check_node_offset(blob, off) < 0
  <2>1. fdt_next_node(blob, off, depth, TRUE) = [off |-> Err.BADOFFSET, depth |-> depth]
    BY <1>1, NextNodeOf DEF Reached
  <2> DEFINE v == [off |-> Err.BADOFFSET, depth |-> depth]
  <2>2. v \in Place /\ v.off = Err.BADOFFSET /\ v.depth = depth
    BY ErrorCodes DEF Place
  <2> HIDE DEF v
  <2>3. v \in Stepped(blob, off)
    BY <2>2 DEF Stepped
  <2> QED  BY <2>1, <2>3 DEF v
<1>2. CASE ~ (fdt_check_node_offset(blob, off) < 0)
  <2> DEFINE r == Reached(off + 2, depth)
             v == Walk(blob, TRUE)[r]
  <2>1. r \in Spot /\ r.off = off + 2 /\ r.depth = depth
    BY DEF Reached, Spot
  <2>2. v \in Walked(blob, TRUE, r)
    BY <2>1, WalkRange
  <2>3. fdt_next_node(blob, off, depth, TRUE) = v
    BY <1>2, NextNodeOf
  <2> HIDE DEF v, r
  <2>4. v \in Stepped(blob, off)
    BY <1>0, <2>1, <2>2 DEF Walked, Stepped, Place
  <2> QED  BY <2>3, <2>4
<1> QED  BY <1>1, <1>2

\* So a loop over nodes gets on.
LEMMA PlacesMove ==
  ASSUME NEW blob, Sized(blob), NEW r \in Place, r.off >= 0, r.depth >= 0
  PROVE  /\ fdt_next_node(blob, r.off, r.depth, TRUE) \in Place
         /\ Ahead(Len(blob.st), fdt_next_node(blob, r.off, r.depth, TRUE).off) < Ahead(Len(blob.st), r.off)
<1> DEFINE v == fdt_next_node(blob, r.off, r.depth, TRUE)
<1>0. r.off \in Nat /\ r.depth \in Nat /\ Len(blob.st) \in Nat
  BY DEF Place, Sized
<1>1. v \in Stepped(blob, r.off)
  BY <1>0, NextNodeRange
<1> HIDE DEF v
<1>2. v \in Place /\ (v.off < 0 \/ (r.off < v.off /\ v.off <= Len(blob.st)))
  BY <1>0, <1>1, ErrorCodes DEF Stepped
<1>3. v.off \in Int
  BY <1>2 DEF Place
<1>4. Ahead(Len(blob.st), v.off) < Ahead(Len(blob.st), r.off)
  BY <1>0, <1>2, <1>3 DEF Ahead
<1> QED  BY <1>2, <1>4 DEF v

-----------------------------------------------------------------------------
(* The loops over nodes. *)

SubnodeStops(blob, name, r) == r.depth < 0 \/ r.off < 0 \/ (r.depth = 1 /\ fdt_nodename_eq(blob, r.off, name))

\* The loop of fdt_subnode_offset_namelen, one turn at a time.
LEMMA SubnodeLoop ==
  ASSUME NEW blob, Sized(blob), NEW name
  PROVE  \A r \in Place :
           SubnodeFrom(blob, name)[r]
             = IF SubnodeStops(blob, name, r) THEN (IF r.depth < 0 THEN Err.NOTFOUND ELSE r.off)
               ELSE SubnodeFrom(blob, name)[fdt_next_node(blob, r.off, r.depth, TRUE)]
<1> DEFINE Stop == {r \in Place : SubnodeStops(blob, name, r)}
           res == [r \in Place |-> IF r.depth < 0 THEN Err.NOTFOUND ELSE r.off]
           nxt == [r \in Place |-> fdt_next_node(blob, r.off, r.depth, TRUE)]
           m == [r \in Place |-> Ahead(Len(blob.st), r.off)]
           Body(g, r) ==
             IF r.depth < 0 THEN Err.NOTFOUND
             ELSE IF r.off < 0 \/ (r.depth = 1 /\ fdt_nodename_eq(blob, r.off, name)) THEN r.off
             ELSE g[fdt_next_node(blob, r.off, r.depth, TRUE)]
           Law(g, r) == IF SubnodeStops(blob, name, r) THEN (IF r.depth < 0 THEN Err.NOTFOUND ELSE r.off)
                        ELSE g[fdt_next_node(blob, r.off, r.depth, TRUE)]
<1>0. Len(blob.st) + 1 \in Nat /\ m \in [Place -> 0 .. Len(blob.st) + 1]
  BY AheadRange DEF Place
<1>1. \A r \in Place \ Stop : nxt[r] \in Place /\ m[nxt[r]] < m[r]
  <2> SUFFICES ASSUME NEW r \in Place, ~ SubnodeStops(blob, name, r)
               PROVE  nxt[r] \in Place /\ m[nxt[r]] < m[r]
    OBVIOUS
  <2>1. r.off >= 0 /\ r.depth >= 0
    BY DEF SubnodeStops, Place
  <2> QED  BY <2>1, PlacesMove
<1>2. PICK g : Loops(g, Place, Stop, res, nxt)
  <2> HIDE DEF Stop, res, nxt, m, Body, Law
  <2> QED  BY <1>0, <1>1, LoopDefined
<1>3. \A h, r : Body(h, r) = Law(h, r)
  BY DEF SubnodeStops
<1>4. g = [r \in Place |-> Law(g, r)]
  BY <1>2 DEF Loops
<1>5. SubnodeFrom(blob, name) = CHOOSE f : f = [r \in Place |-> Body(f, r)]
  BY DEF SubnodeFrom
<1> HIDE DEF Body
<1>6. g = [r \in Place |-> Body(g, r)]
  BY <1>3, <1>4
<1>7. SubnodeFrom(blob, name) = [r \in Place |-> Body(SubnodeFrom(blob, name), r)]
  BY <1>5, <1>6
<1> HIDE DEF Law
<1>8. \A r \in Place : SubnodeFrom(blob, name)[r] = Law(SubnodeFrom(blob, name), r)
  BY <1>3, <1>7
<1> QED  BY <1>8 DEF Law

\* The loop of _fdt_node_end_offset, one turn at a time.
LEMMA NodeEndLoop ==
  ASSUME NEW blob, Sized(blob)
  PROVE  \A r \in Place : NodeEndFrom(blob)[r] = IF r.off < 0 \/ r.depth < 0 THEN r.off
                                                 ELSE NodeEndFrom(blob)[fdt_next_node(blob, r.off, r.depth, TRUE)]
<1> DEFINE Stop == {r \in Place : r.off < 0 \/ r.depth < 0}
           res == [r \in Place |-> r.off]
           nxt == [r \in Place |-> fdt_next_node(blob, r.off, r.depth, TRUE)]
           m == [r \in Place |-> Ahead(Len(blob.st), r.off)]
           Body(g, r) == IF r.off < 0 \/ r.depth < 0 THEN r.off
                         ELSE g[fdt_next_node(blob, r.off, r.depth, TRUE)]
<1>0. Len(blob.st) + 1 \in Nat /\ m \in [Place -> 0 .. Len(blob.st) + 1]
  BY AheadRange DEF Place
<1>1. \A r \in Place \ Stop : nxt[r] \in Place /\ m[nxt[r]] < m[r]
  <2> SUFFICES ASSUME NEW r \in Place, ~ (r.off < 0 \/ r.depth < 0)
               PROVE  nxt[r] \in Place /\ m[nxt[r]] < m[r]
    OBVIOUS
  <2>1. r.off >= 0 /\ r.depth >= 0
    BY DEF Place
  <2> QED  BY <2>1, PlacesMove
<1>2. PICK g : Loops(g, Place, Stop, res, nxt)
  <2> HIDE DEF Stop, res, nxt, m, Body
  <2> QED  BY <1>0, <1>1, LoopDefined
<1>3. g = [r \in Place |-> Body(g, r)]
  BY <1>2 DEF Loops
<1>4. NodeEndFrom(blob) = CHOOSE f : f = [r \in Place |-> Body(f, r)]
  BY DEF NodeEndFrom
<1> HIDE DEF Body
<1>5. NodeEndFrom(blob) = [r \in Place |-> Body(NodeEndFrom(blob), r)]
  BY <1>3, <1>4
<1>6. \A r \in Place : NodeEndFrom(blob)[r] = Body(NodeEndFrom(blob), r)
  BY <1>5
<1> QED  BY <1>6 DEF Body

\* _fdt_node_end_offset: behind the node, inside the block.
LEMMA NodeEndRange ==
  ASSUME NEW blob, Sized(blob), NEW node \in Nat
  PROVE  LET end == fdt_node_end_offset(blob, node)
         IN  end \in Int /\ (end < 0 \/ (node < end /\ end <= Len(blob.st)))
<1> DEFINE F == NodeEndFrom(blob)
           D == {r \in Place : r.off <= Len(blob.st)}
           good == [r \in Place |-> {v \in Int : v < 0 \/ (0 <= r.off /\ r.off <= v /\ v <= Len(blob.st))}]
           nxt == [r \in Place |-> fdt_next_node(blob, r.off, r.depth, TRUE)]
           m == [r \in Place |-> Ahead(Len(blob.st), r.off)]
<1>0. Len(blob.st) \in Nat
  BY DEF Sized
<1>1. ASSUME NEW r \in D, r.off < 0 \/ r.depth < 0 PROVE F[r] \in good[r]
  <2>1. F[r] = r.off /\ r.off \in Int
    BY <1>1, NodeEndLoop DEF Place
  <2> QED  BY <1>0, <2>1
<1>2. ASSUME NEW r \in D, ~ (r.off < 0 \/ r.depth < 0)
      PROVE  nxt[r] \in D /\ m[nxt[r]] < m[r] /\ F[r] = F[nxt[r]] /\ good[nxt[r]] \subseteq good[r]
  <2>0. r.off \in Nat /\ r.depth \in Nat /\ r.off >= 0 /\ r.depth >= 0 /\ r \in Place
    BY <1>2 DEF Place
  <2>1. nxt[r] \in Stepped(blob, r.off)
    BY <2>0, NextNodeRange
  <2>2. m[nxt[r]] < m[r] /\ nxt[r] \in Place
    BY <2>0, PlacesMove
  <2>3. F[r] = F[nxt[r]]
    BY <1>2, NodeEndLoop
  <2> HIDE DEF nxt, F, m
  <2>4. nxt[r].off \in Int /\ nxt[r].off <= Len(blob.st) /\ (nxt[r].off < 0 \/ r.off < nxt[r].off)
    BY <1>0, <2>0, <2>1, ErrorCodes, SMTT(30) DEF Stepped, Place
  <2>5. nxt[r] \in D /\ good[nxt[r]] \subseteq good[r]
    BY <1>0, <2>0, <2>2, <2>4
  <2> QED  BY <2>2, <2>3, <2>5
<1>3. \A r \in D : m[r] \in Nat
  BY AheadRange DEF Place
<1>4. \A r \in D : F[r] \in good[r]
  <2> HIDE DEF F, good, nxt, m, D
  <2>1. HandsOn(D, F, good, nxt, m)
    BY <1>1, <1>2, <1>3 DEF HandsOn
  <2> QED  BY <2>1, LoopResult
<1> DEFINE v == fdt_next_node(blob, node, 0, TRUE)
<1>5. Reached(node, 0) \in Place /\ Reached(node, 0).off = node /\ Reached(node, 0).depth = 0
  BY DEF Reached, Place
<1>6. fdt_node_end_offset(blob, node) = F[v]
  <2>1. ~ (Reached(node, 0).off < 0 \/ Reached(node, 0).depth < 0)
    BY <1>5
  <2>2. F[Reached(node, 0)] = F[fdt_next_node(blob, Reached(node, 0).off, Reached(node, 0).depth, TRUE)]
    BY <1>5, <2>1, NodeEndLoop
  <2> QED  BY <1>5, <2>2 DEF fdt_node_end_offset
<1>7. v \in Stepped(blob, node)
  BY NextNodeRange
<1> HIDE DEF v, F
<1>8. v \in D /\ v.off \in Int /\ (v.off < 0 \/ node < v.off)
  BY <1>0, <1>7, ErrorCodes DEF Stepped, Place
<1>9. F[v] \in good[v]
  BY <1>4, <1>8
<1>10. F[v] \in Int /\ (F[v] < 0 \/ (node < F[v] /\ F[v] <= Len(blob.st)))
  BY <1>0, <1>8, <1>9
<1> QED  BY <1>6, <1>10

-----------------------------------------------------------------------------
(* The loops over properties. *)

\* The loop of _nextprop, one turn at a time.
LEMMA NextpropLoop ==
  ASSUME NEW blob, Sized(blob)
  PROVE  \A off \in Nat :
           nextprop(blob)[off] = IF Tag(blob, off) = FDT_NOP THEN nextprop(blob)[Nxt(blob, off)]
                                 ELSE IF Tag(blob, off) = FDT_PROP THEN off
                                 ELSE IF Tag(blob, off) # FDT_END THEN Err.NOTFOUND
                                 ELSE IF Nxt(blob, off) >= 0 THEN Err.BADSTRUCTURE ELSE Nxt(blob, off)
<1> DEFINE End(off) == IF Tag(blob, off) = FDT_PROP THEN off
                       ELSE IF Tag(blob, off) # FDT_END THEN Err.NOTFOUND
                       ELSE IF Nxt(blob, off) >= 0 THEN Err.BADSTRUCTURE ELSE Nxt(blob, off)
           Stop == {off \in Nat : Tag(blob, off) # FDT_NOP}
           res == [off \in Nat |-> End(off)]
           nxt == [off \in Nat |-> Nxt(blob, off)]
           m == [off \in Nat |-> Ahead(Len(blob.st), off)]
           Law(g, off) == IF Tag(blob, off) = FDT_NOP THEN g[Nxt(blob, off)] ELSE End(off)
<1>0. Len(blob.st) + 1 \in Nat /\ m \in [Nat -> 0 .. Len(blob.st) + 1]
  BY AheadRange
<1>1. \A off \in Nat \ Stop : nxt[off] \in Nat /\ m[nxt[off]] < m[off]
  <2> SUFFICES ASSUME NEW off \in Nat, Tag(blob, off) = FDT_NOP
               PROVE  Nxt(blob, off) \in Nat /\ Ahead(Len(blob.st), Nxt(blob, off)) < Ahead(Len(blob.st), off)
    OBVIOUS
  <2>1. /\ Nxt(blob, off) \in Nat /\ off < Nxt(blob, off) /\ Nxt(blob, off) <= Len(blob.st)
        /\ Len(blob.st) \in Nat
    BY NextTag DEF FDT_NOP, FDT_END, Sized
  <2> QED  BY <2>1 DEF Ahead
<1>2. PICK g : Loops(g, Nat, Stop, res, nxt)
  <2> HIDE DEF Stop, res, nxt, m, Law
  <2> QED  BY <1>0, <1>1, LoopDefined
<1>3. g = [off \in Nat |-> Law(g, off)]
  BY <1>2 DEF Loops
<1>4. nextprop(blob) = CHOOSE f : f = [off \in Nat |-> Law(f, off)]
  BY DEF nextprop, Tag, Nxt
<1> HIDE DEF Law
<1>5. nextprop(blob) = [off \in Nat |-> Law(nextprop(blob), off)]
  BY <1>3, <1>4
<1>6. \A off \in Nat : nextprop(blob)[off] = Law(nextprop(blob), off)
  BY <1>5
<1> QED  BY <1>6 DEF Law

\* _nextprop: a property at or behind off, or an error.
PropsBehind(blob, off) == {v \in Int : v < 0 \/ (off <= v /\ Tag(blob, v) = FDT_PROP)}

\* _nextprop finds a property token at or behind an offset, or returns an error.
LEMMA NextpropRange ==
  ASSUME NEW blob, Sized(blob)
  PROVE  \A off \in Nat : nextprop(blob)[off] \in PropsBehind(blob, off)
<1> DEFINE F == nextprop(blob)
           D == Nat
           good == [off \in Nat |-> PropsBehind(blob, off)]
           nxt == [off \in Nat |-> Nxt(blob, off)]
           m == [off \in Nat |-> Ahead(Len(blob.st), off)]
<1>1. ASSUME NEW off \in Nat, Tag(blob, off) # FDT_NOP PROVE F[off] \in good[off]
  <2>1. F[off] = IF Tag(blob, off) = FDT_PROP THEN off
                 ELSE IF Tag(blob, off) # FDT_END THEN Err.NOTFOUND
                 ELSE IF Nxt(blob, off) >= 0 THEN Err.BADSTRUCTURE ELSE Nxt(blob, off)
    BY <1>1, NextpropLoop
  <2>2. Nxt(blob, off) \in Int
    BY NextTag, ErrorCodes
  <2> HIDE DEF F
  <2>3. F[off] \in Int /\ (F[off] < 0 \/ (F[off] = off /\ Tag(blob, off) = FDT_PROP))
    BY <2>1, <2>2, ErrorCodes
  <2> QED  BY <2>3 DEF PropsBehind
<1>2. ASSUME NEW off \in Nat, Tag(blob, off) = FDT_NOP
      PROVE  nxt[off] \in Nat /\ m[nxt[off]] < m[off] /\ F[off] = F[nxt[off]] /\ good[nxt[off]] \subseteq good[off]
  <2>1. /\ Nxt(blob, off) \in Nat /\ off < Nxt(blob, off) /\ Nxt(blob, off) <= Len(blob.st)
        /\ Len(blob.st) \in Nat
    BY <1>2, NextTag DEF FDT_NOP, FDT_END, Sized
  <2>2. Ahead(Len(blob.st), Nxt(blob, off)) < Ahead(Len(blob.st), off)
    BY <2>1 DEF Ahead
  <2>3. F[off] = F[nxt[off]]
    BY <1>2, NextpropLoop
  <2>4. PropsBehind(blob, Nxt(blob, off)) \subseteq PropsBehind(blob, off)
    BY <2>1 DEF PropsBehind
  <2> QED  BY <2>1, <2>2, <2>3, <2>4
<1>3. \A off \in Nat : m[off] \in Nat
  BY AheadRange
<1>4. \A off \in Nat : F[off] \in good[off]
  <2> HIDE DEF F, good, nxt, m
  <2>1. HandsOn(D, F, good, nxt, m)
    BY <1>1, <1>2, <1>3 DEF HandsOn
  <2> HIDE DEF D
  <2>2. \A off \in D : F[off] \in good[off]
    BY <2>1, LoopResult
  <2> QED  BY <2>2 DEF D
<1> QED  BY <1>4

\* _fdt_check_prop_offset accepts a property whose value ends inside the block, and
\* only that.
LEMMA PropOffset ==
  ASSUME NEW blob, Sized(blob), NEW off \in Nat
  PROVE  \/ /\ fdt_check_prop_offset(blob, off) = Nxt(blob, off) /\ Tag(blob, off) = FDT_PROP
            /\ Nxt(blob, off) \in Nat /\ off < Nxt(blob, off) /\ Nxt(blob, off) <= Len(blob.st)
            /\ PropLen(blob, off) \in Nat /\ Nxt(blob, off) = off + 3 + PropLen(blob, off)
         \/ /\ fdt_check_prop_offset(blob, off) = Err.BADOFFSET
            /\ Tag(blob, off) # FDT_PROP
<1>1. fdt_check_prop_offset(blob, off)
        = IF Tag(blob, off) # FDT_PROP THEN Err.BADOFFSET ELSE Nxt(blob, off)
  BY DEF fdt_check_prop_offset, Behind, Tag, Nxt
<1> QED  BY <1>1, NextTag DEF FDT_PROP, FDT_END, PropLen

\* fdt_first_property_offset, fdt_next_property_offset
LEMMA BehindRange ==
  ASSUME NEW blob, Sized(blob), NEW off \in Int
  PROVE  PropertyBehind(blob, off) \in Int /\ (PropertyBehind(blob, off) < 0 \/ (0 <= off /\ off <= PropertyBehind(blob, off)))
<1>1. CASE off < 0
  BY <1>1 DEF PropertyBehind, After
<1>2. CASE ~ (off < 0)
  <2>1. off \in Nat /\ PropertyBehind(blob, off) = nextprop(blob)[off]
    BY <1>2 DEF PropertyBehind, After
  <2>2. nextprop(blob)[off] \in PropsBehind(blob, off)
    BY <2>1, NextpropRange
  <2> QED  BY <2>1, <2>2 DEF PropsBehind
<1> QED  BY <1>1, <1>2

PropertyStops(blob, name, off) ==
  off < 0 \/ fdt_get_property_by_offset(blob, off) < 0 \/ PropName(blob, off) = name

\* The loop of fdt_get_property_namelen goes on to a later property.
LEMMA PropertyMoves ==
  ASSUME NEW blob, Sized(blob), NEW name, NEW off \in Int, ~ PropertyStops(blob, name, off)
  PROVE  /\ fdt_next_property_offset(blob, off) \in Int
         /\ Ahead(Len(blob.st), fdt_next_property_offset(blob, off)) < Ahead(Len(blob.st), off)
<1>0. off \in Nat /\ ~ (fdt_get_property_by_offset(blob, off) < 0) /\ Len(blob.st) \in Nat
  BY DEF PropertyStops, Sized
<1>1. ~ (fdt_check_prop_offset(blob, off) < 0)
  BY <1>0, ErrorCodes DEF fdt_get_property_by_offset
<1>2. /\ fdt_check_prop_offset(blob, off) = Nxt(blob, off)
      /\ Nxt(blob, off) \in Nat /\ off < Nxt(blob, off) /\ Nxt(blob, off) <= Len(blob.st)
  BY <1>0, <1>1, PropOffset, ErrorCodes
<1> DEFINE p == fdt_next_property_offset(blob, off)
<1>3. p \in Int /\ (p < 0 \/ Nxt(blob, off) <= p)
  <2>1. p = PropertyBehind(blob, Nxt(blob, off)) /\ Nxt(blob, off) \in Int
    BY <1>2 DEF fdt_next_property_offset
  <2> HIDE DEF p
  <2> QED  BY <2>1, BehindRange
<1> HIDE DEF p
<1>4. Ahead(Len(blob.st), p) < Ahead(Len(blob.st), off)
  BY <1>0, <1>2, <1>3 DEF Ahead
<1> QED  BY <1>3, <1>4 DEF p

\* The loop of fdt_get_property_namelen, one turn at a time.
LEMMA PropertyLoop ==
  ASSUME NEW blob, Sized(blob), NEW name
  PROVE  \A off \in Int :
           PropertyFrom(blob, name)[off]
             = IF PropertyStops(blob, name, off)
                 THEN (IF 0 <= off /\ fdt_get_property_by_offset(blob, off) < 0 THEN Err.INTERNAL ELSE off)
               ELSE PropertyFrom(blob, name)[fdt_next_property_offset(blob, off)]
<1> DEFINE Stop == {off \in Int : PropertyStops(blob, name, off)}
           End(off) == IF 0 <= off /\ fdt_get_property_by_offset(blob, off) < 0 THEN Err.INTERNAL ELSE off
           res == [off \in Int |-> End(off)]
           nxt == [off \in Int |-> fdt_next_property_offset(blob, off)]
           m == [off \in Int |-> Ahead(Len(blob.st), off)]
           Body(g, off) == IF off < 0 THEN off
                           ELSE IF fdt_get_property_by_offset(blob, off) < 0 THEN Err.INTERNAL
                           ELSE IF PropName(blob, off) = name THEN off
                           ELSE g[fdt_next_property_offset(blob, off)]
           Law(g, off) == IF PropertyStops(blob, name, off) THEN End(off)
                          ELSE g[fdt_next_property_offset(blob, off)]
<1>0. Len(blob.st) + 1 \in Nat /\ m \in [Int -> 0 .. Len(blob.st) + 1]
  BY AheadRange
<1>1. \A off \in Int \ Stop : nxt[off] \in Int /\ m[nxt[off]] < m[off]
  BY PropertyMoves
<1>2. PICK g : Loops(g, Int, Stop, res, nxt)
  <2> HIDE DEF Stop, res, nxt, m, Body, Law
  <2> QED  BY <1>0, <1>1, LoopDefined
<1>3. \A h, off : off \in Int => Body(h, off) = Law(h, off)
  BY DEF PropertyStops
<1>4. g = [off \in Int |-> Law(g, off)]
  BY <1>2 DEF Loops
<1>5. PropertyFrom(blob, name) = CHOOSE f : f = [off \in Int |-> Body(f, off)]
  BY DEF PropertyFrom
<1> HIDE DEF Body
<1>6. g = [off \in Int |-> Body(g, off)]
  BY <1>3, <1>4
<1>7. PropertyFrom(blob, name) = [off \in Int |-> Body(PropertyFrom(blob, name), off)]
  BY <1>5, <1>6
<1> HIDE DEF Law
<1>8. \A off \in Int : PropertyFrom(blob, name)[off] = Law(PropertyFrom(blob, name), off)
  BY <1>3, <1>7
<1> QED  BY <1>8 DEF Law

\* fdt_get_property: a property that ends inside the block, or an error.
LEMMA PropertyRange ==
  ASSUME NEW blob, Sized(blob), NEW node \in Nat, NEW name
  PROVE  LET p == fdt_get_property(blob, node, name)
         IN  p \in Int /\ (p < 0 \/ (PropLen(blob, p) \in Nat /\ p + 3 + PropLen(blob, p) <= Len(blob.st)))
<1> DEFINE F == PropertyFrom(blob, name)
           D == Int
           Found == {v \in Int : v < 0 \/ (PropLen(blob, v) \in Nat /\ v + 3 + PropLen(blob, v) <= Len(blob.st))}
           good == [off \in Int |-> Found]
           nxt == [off \in Int |-> fdt_next_property_offset(blob, off)]
           m == [off \in Int |-> Ahead(Len(blob.st), off)]
<1>1. ASSUME NEW off \in Int, PropertyStops(blob, name, off) PROVE F[off] \in Found
  <2>1. F[off] = IF 0 <= off /\ fdt_get_property_by_offset(blob, off) < 0 THEN Err.INTERNAL ELSE off
    BY <1>1, PropertyLoop
  <2> HIDE DEF F
  <2>2. CASE off < 0
    BY <2>1, <2>2
  <2>3. CASE ~ (off < 0) /\ fdt_get_property_by_offset(blob, off) < 0
    BY <2>1, <2>3, ErrorCodes
  <2>4. CASE ~ (off < 0) /\ ~ (fdt_get_property_by_offset(blob, off) < 0)
    <3>1. off \in Nat /\ ~ (fdt_check_prop_offset(blob, off) < 0)
      BY <2>4, ErrorCodes DEF fdt_get_property_by_offset
    <3>2. PropLen(blob, off) \in Nat /\ off + 3 + PropLen(blob, off) <= Len(blob.st)
      BY <3>1, PropOffset, ErrorCodes
    <3> QED  BY <2>1, <2>4, <3>2
  <2> QED  BY <2>2, <2>3, <2>4
<1>2. ASSUME NEW off \in Int, ~ PropertyStops(blob, name, off)
      PROVE  nxt[off] \in Int /\ m[nxt[off]] < m[off] /\ F[off] = F[nxt[off]] /\ good[nxt[off]] \subseteq good[off]
  <2>1. nxt[off] \in Int /\ m[nxt[off]] < m[off]
    BY <1>2, PropertyMoves
  <2>2. F[off] = F[nxt[off]]
    BY <1>2, PropertyLoop
  <2> HIDE DEF F, nxt, m, Found
  <2> QED  BY <2>1, <2>2
<1>3. \A off \in Int : m[off] \in Nat
  BY AheadRange
<1>4. \A off \in Int : F[off] \in good[off]
  <2> HIDE DEF F, nxt, m, Found
  <2>1. HandsOn(D, F, good, nxt, m)
    BY <1>1, <1>2, <1>3 DEF HandsOn
  <2> HIDE DEF D, good
  <2>2. \A off \in D : F[off] \in good[off]
    BY <2>1, LoopResult
  <2> QED  BY <2>2 DEF D
<1>5. fdt_first_property_offset(blob, node) \in Int
  <2>1. fdt_check_node_offset(blob, node) \in Int
    BY NodeOffset, ErrorCodes
  <2> QED  BY <2>1, BehindRange DEF fdt_first_property_offset
<1>6. fdt_get_property(blob, node, name) \in Found
  <2> HIDE DEF Found
  <2> QED  BY <1>4, <1>5 DEF fdt_get_property
<1> QED  BY <1>6

\* The loop of fdt_add_subnode_namelen over the properties, one turn at a time.
LEMMA AfterPropsLoop ==
  ASSUME NEW blob, Sized(blob)
  PROVE  \A off \in Nat : AfterProps(blob)[off] = IF Tag(blob, off) \in {FDT_PROP, FDT_NOP}
                                                    THEN AfterProps(blob)[Nxt(blob, off)] ELSE off
<1> DEFINE Stop == {off \in Nat : Tag(blob, off) \notin {FDT_PROP, FDT_NOP}}
           res == [off \in Nat |-> off]
           nxt == [off \in Nat |-> Nxt(blob, off)]
           m == [off \in Nat |-> Ahead(Len(blob.st), off)]
           Body(g, off) == IF Tag(blob, off) \in {FDT_PROP, FDT_NOP} THEN g[Nxt(blob, off)] ELSE off
<1>0. Len(blob.st) + 1 \in Nat /\ m \in [Nat -> 0 .. Len(blob.st) + 1]
  BY AheadRange
<1>1. \A off \in Nat \ Stop : nxt[off] \in Nat /\ m[nxt[off]] < m[off]
  <2> SUFFICES ASSUME NEW off \in Nat, Tag(blob, off) \in {FDT_PROP, FDT_NOP}
               PROVE  Nxt(blob, off) \in Nat /\ Ahead(Len(blob.st), Nxt(blob, off)) < Ahead(Len(blob.st), off)
    OBVIOUS
  <2>1. /\ Nxt(blob, off) \in Nat /\ off < Nxt(blob, off) /\ Nxt(blob, off) <= Len(blob.st)
        /\ Len(blob.st) \in Nat
    BY NextTag DEF FDT_NOP, FDT_PROP, FDT_END, Sized
  <2> QED  BY <2>1 DEF Ahead
<1>2. PICK g : Loops(g, Nat, Stop, res, nxt)
  <2> HIDE DEF Stop, res, nxt, m, Body
  <2> QED  BY <1>0, <1>1, LoopDefined
<1>3. g = [off \in Nat |-> Body(g, off)]
  BY <1>2 DEF Loops
<1>4. AfterProps(blob) = CHOOSE f : f = [off \in Nat |-> Body(f, off)]
  BY DEF AfterProps, Tag, Nxt
<1> HIDE DEF Body
<1>5. AfterProps(blob) = [off \in Nat |-> Body(AfterProps(blob), off)]
  BY <1>3, <1>4
<1>6. \A off \in Nat : AfterProps(blob)[off] = Body(AfterProps(blob), off)
  BY <1>5
<1> QED  BY <1>6 DEF Body

\* It ends inside the block.
LEMMA AfterPropsRange ==
  ASSUME NEW blob, Sized(blob)
  PROVE  \A off \in 0 .. Len(blob.st) : AfterProps(blob)[off] \in 0 .. Len(blob.st)
<1> DEFINE F == AfterProps(blob)
           D == 0 .. Len(blob.st)
           good == [off \in Nat |-> D]
           nxt == [off \in Nat |-> Nxt(blob, off)]
           m == [off \in Nat |-> Ahead(Len(blob.st), off)]
<1>0. Len(blob.st) \in Nat /\ D \subseteq Nat
  BY DEF Sized
<1>1. ASSUME NEW off \in D, Tag(blob, off) \notin {FDT_PROP, FDT_NOP} PROVE F[off] \in good[off]
  <2>1. F[off] = off
    BY <1>0, <1>1, AfterPropsLoop
  <2> QED  BY <2>1
<1>2. ASSUME NEW off \in D, Tag(blob, off) \in {FDT_PROP, FDT_NOP}
      PROVE  nxt[off] \in D /\ m[nxt[off]] < m[off] /\ F[off] = F[nxt[off]] /\ good[nxt[off]] \subseteq good[off]
  <2>1. /\ Nxt(blob, off) \in Nat /\ off < Nxt(blob, off) /\ Nxt(blob, off) <= Len(blob.st)
    BY <1>2, NextTag DEF FDT_NOP, FDT_PROP, FDT_END
  <2>2. Ahead(Len(blob.st), Nxt(blob, off)) < Ahead(Len(blob.st), off)
    BY <1>0, <2>1 DEF Ahead
  <2>3. F[off] = F[nxt[off]]
    BY <1>2, AfterPropsLoop
  <2> HIDE DEF F
  <2> QED  BY <1>0, <2>1, <2>2, <2>3
<1>3. \A off \in D : m[off] \in Nat
  BY AheadRange
<1>4. \A off \in D : F[off] \in good[off]
  <2> HIDE DEF F, good, nxt, m, D
  <2>1. HandsOn(D, F, good, nxt, m)
    BY <1>1, <1>2, <1>3 DEF HandsOn
  <2> QED  BY <2>1, LoopResult
<1> QED  BY <1>4

-----------------------------------------------------------------------------
(* A structure block cut short. *)

CutErrors == {Err.TRUNCATED, Err.BADSTRUCTURE, Err.BADOFFSET}
CutShort(r) == {v \in Place : v.off \in CutErrors /\ (r.depth >= 0 => v.depth >= 0)}

\* The walk over what is left of a block is the walk over the whole block, or
\* ends where the block was cut.
LEMMA CutWalk ==
  ASSUME NEW blob \in Blob, Sized(blob), NEW n \in 0 .. Len(blob.st)
  PROVE  \A r \in Spot : Walk(Cut(blob, n), TRUE)[r] \in {Walk(blob, TRUE)[r]} \cup CutShort(r)
<1> DEFINE c == Cut(blob, n)
           F == Walk(c, TRUE)
           G == Walk(blob, TRUE)
           good == [r \in Spot |-> {G[r]} \cup CutShort(r)]
           nxt == [r \in Spot |-> WalkOn(c, r)]
           m == [r \in Spot |-> Ahead(Len(c.st), r.off)]
<1>0. Sized(c)
  BY CutSized
<1>1. \A off \in Nat : \/ Tag(c, off) = Tag(blob, off) /\ Nxt(c, off) = Nxt(blob, off) /\ Nxt(blob, off) \in Nat
                       \/ Tag(c, off) = FDT_END /\ Nxt(c, off) \in {Err.TRUNCATED, Err.BADSTRUCTURE}
  BY CutTag
<1> HIDE DEF c
<1>2. ASSUME NEW r \in Spot
      PROVE  \/ F[r] \in good[r]
             \/ nxt[r] \in Spot /\ m[nxt[r]] < m[r] /\ F[r] = F[nxt[r]] /\ good[nxt[r]] \subseteq good[r]
  <2>0. r.off \in Nat /\ r.depth \in Int
    BY DEF Spot
  <2>1. CASE Tag(c, r.off) = FDT_END /\ Nxt(c, r.off) \in {Err.TRUNCATED, Err.BADSTRUCTURE}
    <3>1. ~ (Nxt(c, r.off) >= 0)
      BY <2>1, ErrorCodes
    <3>2. F[r] = [off |-> Nxt(c, r.off), depth |-> r.depth]
      <4>1. F[r] = WalkEnd(c, TRUE, r)
        BY <1>0, <2>1, WalkLoop DEF WalkStops
      <4>2. FDT_END # FDT_BEGIN_NODE
        BY DEF FDT_END, FDT_BEGIN_NODE
      <4> HIDE DEF F
      <4> QED  BY <2>1, <3>1, <4>1, <4>2 DEF WalkEnd, Reached
    <3>3. Nxt(c, r.off) \in Int
      BY <2>1, ErrorCodes
    <3> HIDE DEF F
    <3>4. F[r] \in CutShort(r)
      BY <2>0, <2>1, <3>2, <3>3 DEF CutShort, CutErrors, Place
    <3> QED  BY <3>4
  <2>2. CASE Tag(c, r.off) = Tag(blob, r.off) /\ Nxt(c, r.off) = Nxt(blob, r.off) /\ Nxt(blob, r.off) \in Nat
    <3>1. /\ WalkStops(c, TRUE, r) <=> WalkStops(blob, TRUE, r)
          /\ WalkEnd(c, TRUE, r) = WalkEnd(blob, TRUE, r) /\ WalkOn(c, r) = WalkOn(blob, r)
      BY <2>2 DEF WalkStops, WalkEnd, WalkOn
    <3>2. CASE WalkStops(c, TRUE, r)
      <4>1. F[r] = G[r]
        BY <1>0, <3>1, <3>2, WalkLoop
      <4> QED  BY <4>1
    <3>3. CASE ~ WalkStops(c, TRUE, r)
      <4>1. nxt[r] \in Spot /\ m[nxt[r]] < m[r]
        BY <1>0, <3>3, WalkMoves
      <4>2. F[r] = F[nxt[r]] /\ G[r] = G[nxt[r]]
        BY <1>0, <3>1, <3>3, WalkLoop, ZenonT(30)
      <4>3. r.depth >= 0 => nxt[r].depth >= 0
        <5>1. nxt[r].depth = IF Tag(c, r.off) = FDT_END_NODE THEN r.depth - 1 ELSE r.depth
          BY DEF WalkOn, Reached
        <5>2. ~ (Tag(c, r.off) = FDT_END_NODE /\ r.depth = 0)
          BY <3>3 DEF WalkStops
        <5> QED  BY <2>0, <5>1, <5>2
      <4>4. CutShort(nxt[r]) \subseteq CutShort(r)
        BY <4>3 DEF CutShort
      <4> HIDE DEF nxt, G, F, m
      <4> QED  BY <4>1, <4>2, <4>4
    <3> QED  BY <3>2, <3>3
  <2> QED  BY <1>1, <2>0, <2>1, <2>2
<1>3. \A r \in Spot : m[r] \in Nat
  BY <1>0, AheadRange DEF Spot
<1> HIDE DEF F, G, good, nxt, m
<1>4. HandsOn(Spot, F, good, nxt, m)
  BY <1>2, <1>3 DEF HandsOn
<1>5. \A r \in Spot : F[r] \in good[r]
  BY <1>4, LoopResult
<1> QED  BY <1>5 DEF F, G, good, c

\* fdt_next_node on the cut block does what it does on the whole one, or returns one
\* of the errors of a block that ends too early.
LEMMA CutNext ==
  ASSUME NEW blob \in Blob, Sized(blob), NEW n \in 0 .. Len(blob.st), NEW off \in Nat, NEW depth \in Nat
  PROVE  LET v == fdt_next_node(Cut(blob, n), off, depth, TRUE)
         IN  v = fdt_next_node(blob, off, depth, TRUE) \/ (v \in Place /\ v.off \in CutErrors /\ v.depth >= 0)
<1> DEFINE c == Cut(blob, n)
           r == Reached(off + 2, depth)
<1>0. Sized(c)
  BY CutSized
<1>1. r \in Spot /\ r.depth = depth
  BY DEF Reached, Spot
<1>2. CASE Tag(c, off) = FDT_BEGIN_NODE
  <2>1. Tag(blob, off) = FDT_BEGIN_NODE
    BY <1>2, CutTag DEF FDT_BEGIN_NODE, FDT_END
  <2> HIDE DEF c
  <2>2. fdt_check_node_offset(c, off) = off + 2 /\ fdt_check_node_offset(blob, off) = off + 2 /\ ~ (off + 2 < 0)
    BY <1>0, <1>2, <2>1, NodeOffset
  <2>3. fdt_next_node(c, off, depth, TRUE) = Walk(c, TRUE)[r] /\ fdt_next_node(blob, off, depth, TRUE) = Walk(blob, TRUE)[r]
    BY <1>0, <2>2, NextNodeOf
  <2> HIDE DEF r
  <2>4. Walk(c, TRUE)[r] \in {Walk(blob, TRUE)[r]} \cup CutShort(r)
    BY <1>1, CutWalk DEF c
  <2>5. CASE Walk(c, TRUE)[r] = Walk(blob, TRUE)[r]
    BY <2>3, <2>5 DEF c
  <2>6. CASE Walk(c, TRUE)[r] \in CutShort(r)
    <3>1. fdt_next_node(c, off, depth, TRUE) \in CutShort(r) /\ r.depth >= 0
      <4>1. fdt_next_node(c, off, depth, TRUE) \in CutShort(r)
        BY <2>3, <2>6
      <4>2. r.depth >= 0
        BY <1>1
      <4> QED  BY <4>1, <4>2
    <3> QED  BY <3>1 DEF CutShort, c
  <2> QED  BY <2>4, <2>5, <2>6
<1>3. CASE Tag(c, off) # FDT_BEGIN_NODE
  <2>1. fdt_check_node_offset(c, off) = Err.BADOFFSET /\ Err.BADOFFSET < 0
    BY <1>0, <1>3, NodeOffset, ErrorCodes
  <2>2. fdt_next_node(c, off, depth, TRUE) = [off |-> Err.BADOFFSET, depth |-> depth]
    BY <1>0, <2>1, NextNodeOf DEF Reached
  <2> DEFINE v == fdt_next_node(c, off, depth, TRUE)
  <2> HIDE DEF v
  <2>3. v = [off |-> Err.BADOFFSET, depth |-> depth] /\ Err.BADOFFSET \in Int
    <3>1. v = [off |-> Err.BADOFFSET, depth |-> depth]
      BY <2>2 DEF v
    <3>2. Err.BADOFFSET \in Int
      BY ErrorCodes
    <3> QED  BY <3>1, <3>2
  <2>4. v \in Place /\ v.off \in CutErrors /\ v.depth >= 0
    BY <2>3 DEF Place, CutErrors
  <2> QED  BY <2>4 DEF v
<1> QED  BY <1>2, <1>3

\* A child found in what is left of a block is the child that the whole block has.
LEMMA CutSubnode ==
  ASSUME NEW blob \in Blob, Sized(blob), NEW n \in 0 .. Len(blob.st), NEW name
  PROVE  \A r \in Place : SubnodeFrom(Cut(blob, n), name)[r] \in {SubnodeFrom(blob, name)[r]} \cup CutErrors
<1> DEFINE c == Cut(blob, n)
           F == SubnodeFrom(c, name)
           G == SubnodeFrom(blob, name)
           good == [r \in Place |-> {G[r]} \cup CutErrors]
           nxt == [r \in Place |-> fdt_next_node(c, r.off, r.depth, TRUE)]
           m == [r \in Place |-> Ahead(Len(c.st), r.off)]
<1>0. /\ Sized(c) /\ Len(c.st) = n /\ c.version >= 17 /\ blob.version >= 17 /\ n \in Nat
      /\ Len(blob.st) \in Nat /\ n <= Len(blob.st)
      /\ \A k \in 0 .. n - 1 : At(c, k) = At(blob, k)
  BY CutSized DEF Sized
<1>1. \A off, depth \in Nat :
        LET v == fdt_next_node(c, off, depth, TRUE)
        IN  v = fdt_next_node(blob, off, depth, TRUE) \/ (v \in Place /\ v.off \in CutErrors /\ v.depth >= 0)
  BY CutNext
<1> HIDE DEF c
<1>2. ASSUME NEW r \in Place
      PROVE  \/ F[r] \in good[r]
             \/ nxt[r] \in Place /\ m[nxt[r]] < m[r] /\ F[r] = F[nxt[r]] /\ good[nxt[r]] \subseteq good[r]
  <2>0. r.off \in Int /\ r.depth \in Int
    BY DEF Place
  <2>1. CASE r.depth < 0 \/ r.off < 0
    <3>1. SubnodeStops(c, name, r) /\ SubnodeStops(blob, name, r)
      BY <2>1 DEF SubnodeStops
    <3>2. F[r] = G[r]
      BY <1>0, <3>1, SubnodeLoop
    <3> QED  BY <3>2
  <2>2. CASE ~ (r.depth < 0 \/ r.off < 0)
    <3>0. r.off \in Nat /\ r.depth \in Nat
      BY <2>0, <2>2
    <3>1. CASE r.off + 2 <= n
      <4>1. At(c, r.off + 1) = At(blob, r.off + 1) /\ fdt_offset_ptr(c, r.off + 1, 1) /\ fdt_offset_ptr(blob, r.off + 1, 1)
        BY <1>0, <3>0, <3>1 DEF fdt_offset_ptr
      <4>2. fdt_nodename_eq(c, r.off, name) <=> fdt_nodename_eq(blob, r.off, name)
        BY <4>1 DEF fdt_nodename_eq
      <4>3. SubnodeStops(c, name, r) <=> SubnodeStops(blob, name, r)
        BY <4>2 DEF SubnodeStops
      <4>4. CASE SubnodeStops(c, name, r)
        <5>1. F[r] = G[r]
          BY <1>0, <4>3, <4>4, SubnodeLoop
        <5> QED  BY <5>1
      <4>5. CASE ~ SubnodeStops(c, name, r)
        <5>1. F[r] = F[nxt[r]] /\ G[r] = G[fdt_next_node(blob, r.off, r.depth, TRUE)]
          BY <1>0, <4>3, <4>5, SubnodeLoop
        <5>2. nxt[r] \in Place /\ m[nxt[r]] < m[r]
          <6>1. r.off >= 0 /\ r.depth >= 0
            BY <3>0
          <6> QED  BY <1>0, <6>1, PlacesMove
        <5>3. CASE nxt[r] = fdt_next_node(blob, r.off, r.depth, TRUE)
          <6> HIDE DEF nxt, F, G, m
          <6> QED  BY <5>1, <5>2, <5>3
        <5>4. CASE nxt[r].off \in CutErrors /\ nxt[r].depth >= 0
          <6> HIDE DEF nxt
          <6>1. nxt[r].off < 0 /\ ~ (nxt[r].depth < 0)
            BY <5>2, <5>4, ErrorCodes, SMTT(30) DEF CutErrors, Place
          <6>2. F[nxt[r]] = nxt[r].off
            BY <1>0, <5>2, <6>1, SubnodeLoop, ZenonT(30) DEF SubnodeStops
          <6> HIDE DEF F, G
          <6> QED  BY <5>1, <5>4, <6>2
        <5> QED  BY <1>1, <3>0, <5>3, <5>4
      <4> QED  BY <4>4, <4>5
    <3>2. CASE ~ (r.off + 2 <= n)
      <4>1. ~ fdt_offset_ptr(c, r.off + 1, 1)
        BY <1>0, <3>0, <3>2 DEF fdt_offset_ptr
      <4>2. ~ SubnodeStops(c, name, r)
        BY <2>2, <4>1 DEF SubnodeStops, fdt_nodename_eq
      <4>3. fdt_check_node_offset(c, r.off) < 0
        <5>1. fdt_check_node_offset(c, r.off) = Err.BADOFFSET
          BY <1>0, <3>0, <3>2, NodeOffset
        <5> QED  BY <5>1, ErrorCodes
      <4>4. nxt[r] = [off |-> Err.BADOFFSET, depth |-> r.depth]
        BY <1>0, <3>0, <4>3, NextNodeOf DEF Reached
      <4>5. nxt[r] \in Place /\ nxt[r].off = Err.BADOFFSET /\ nxt[r].off < 0 /\ ~ (nxt[r].depth < 0)
        <5> HIDE DEF nxt
        <5>1. Err.BADOFFSET \in Int /\ Err.BADOFFSET < 0 /\ r.depth \in Int /\ ~ (r.depth < 0)
          BY <2>0, <3>0, ErrorCodes
        <5> QED  BY <4>4, <5>1 DEF Place
      <4>6. F[r] = F[nxt[r]]
        BY <1>0, <4>2, SubnodeLoop
      <4> HIDE DEF nxt
      <4>7. F[nxt[r]] = nxt[r].off
        <5>1. SubnodeStops(c, name, nxt[r])
          BY <4>5 DEF SubnodeStops
        <5> QED  BY <1>0, <4>5, <5>1, SubnodeLoop
      <4> HIDE DEF F, G
      <4> QED  BY <4>5, <4>6, <4>7 DEF CutErrors
    <3> QED  BY <3>1, <3>2
  <2> QED  BY <2>1, <2>2
<1>3. \A r \in Place : m[r] \in Nat
  BY <1>0, AheadRange DEF Place
<1> HIDE DEF F, good, nxt, m
<1>4. HandsOn(Place, F, good, nxt, m)
  BY <1>2, <1>3 DEF HandsOn
<1>5. \A r \in Place : F[r] \in good[r]
  BY <1>4, LoopResult
<1> QED  BY <1>5 DEF F, good, c

\* What CutIsSafe says, of every blob whose header says where its structure block ends,
\* whatever words it holds: a property found in the cut block ends inside it, and
\* fdt_subnode_offset finds the child that the whole block has, or reports an error.
LEMMA CutSafe ==
  ASSUME NEW blob \in Blob, Sized(blob), blob.magic = "fdt", NEW n \in 0 .. Len(blob.st)
  PROVE  LET cut == [blob EXCEPT !.st = SubSeq(@, 1, n)]
         IN  /\ \A off \in 0 .. n - 1 :
                  fdt_get_property_by_offset(cut, off) >= 0 => off + 3 + PropLen(cut, off) <= n
             /\ \A name \in Name :
                  LET o == fdt_subnode_offset(cut, 0, name)
                  IN  o = fdt_subnode_offset(blob, 0, name)
                      \/ o \in {Err.TRUNCATED, Err.BADSTRUCTURE, Err.BADOFFSET}
<1> DEFINE c == Cut(blob, n)
<1>0. /\ Sized(c) /\ Len(c.st) = n /\ n \in Nat /\ c.version = blob.version /\ c.magic = blob.magic
      /\ c.comp = blob.comp
  BY CutSized DEF Sized
<1>1. ASSUME NEW off \in 0 .. n - 1, fdt_get_property_by_offset(c, off) >= 0
      PROVE  off + 3 + PropLen(c, off) <= n
  <2> HIDE DEF c
  <2>1. off \in Nat
    BY <1>0
  <2>2. ~ (fdt_check_prop_offset(c, off) < 0)
    BY <1>1, ErrorCodes DEF fdt_get_property_by_offset
  <2> QED  BY <1>0, <2>1, <2>2, PropOffset, ErrorCodes
<1>2. ASSUME NEW name \in Name
      PROVE  LET o == fdt_subnode_offset(c, 0, name)
             IN  o = fdt_subnode_offset(blob, 0, name)
                 \/ o \in {Err.TRUNCATED, Err.BADSTRUCTURE, Err.BADOFFSET}
  <2> DEFINE r == Reached(0, 0)
  <2>1. r \in Place
    BY DEF Reached, Place
  <2>2. SubnodeFrom(c, name)[r] \in {SubnodeFrom(blob, name)[r]} \cup CutErrors
    BY <2>1, CutSubnode
  <2> HIDE DEF c, r
  <2>3. fdt_check_header(c) = fdt_check_header(blob)
    BY <1>0 DEF fdt_check_header
  <2> QED  BY <2>2, <2>3 DEF fdt_subnode_offset, After, CutErrors, r
<1> QED  BY <1>1, <1>2 DEF Cut

-----------------------------------------------------------------------------
(* The writers.  A blob in a buffer of size words, when its reserve map is  *)
(* to hold ms: unfinished, with op nodes open, or finished.                 *)

Entry == Nat \X (Nat \ {0})

RsvHolds(blob, ms) ==
  /\ Len(ms) + 1 <= Len(blob.rsv) /\ blob.rsv[Len(ms) + 1][2] = 0
  /\ \A i \in 1 .. Len(ms) : blob.rsv[i] = ms[i]

SwFit(blob, size, ms, op, lost) ==
  /\ blob \in Blob /\ blob.version = 17 /\ blob.magic = "sw" /\ blob.total <= size
  /\ blob.off_rsv = 12 /\ blob.off_struct = 12 + RsvWords * Len(blob.rsv)
  /\ size < 12 => blob.rsv = <<>> /\ blob.strs = <<>>
  /\ size >= 12 => blob.off_struct + Len(blob.strs) <= blob.total
  /\ size >= 12 => "shrunk" \in lost \/ blob.off_struct + Len(blob.st) + Len(blob.strs) <= blob.total
  /\ blob.st = <<>> => blob.strs = <<>>
  /\ op = -1 => blob.rsv = ms /\ blob.st = <<>>
  /\ op > 0 => blob.st # <<>>
  /\ op # -1 => "early" \in lost \/ RsvHolds(blob, ms)

InOrder(blob, ms) ==
  /\ blob.off_rsv >= HeaderWords /\ blob.off_rsv + RsvWords * (Len(ms) + 1) <= blob.off_struct
  /\ blob.off_struct + Len(blob.st) <= blob.off_strings

FdtFit(blob, size, ms) ==
  /\ blob \in Blob /\ blob.version >= 17 /\ blob.magic = "fdt"
  /\ blob.total <= size /\ DataSize(blob) <= blob.total
  /\ RsvHolds(blob, ms)
  /\ blob.off_strings >= blob.off_struct => InOrder(blob, ms)

\* finished, after a resize to too little or without an end of the reserve map
StrayFit(blob, size) ==
  /\ blob \in Blob /\ blob.magic = "fdt"
  /\ size >= 12 => blob.total <= size
  /\ DataSize(blob) <= blob.total /\ blob.off_struct + Len(blob.st) <= blob.off_strings

FdtIInv ==
  /\ cap \in Nat /\ maps \in Seq(Entry) /\ open \in Nat \cup {-1}
  /\ \/ b = NoBlob /\ maps = <<>> /\ open = -1 /\ astray = {}
     \/ SwFit(b, cap, maps, open, astray)
     \/ astray = {} /\ FdtFit(b, cap, maps)
     \/ astray # {} /\ StrayFit(b, cap)

Splice(s, i, t, j) == SubSeq(s, 1, i) \o t \o SubSeq(s, j + 1, Len(s))

IsSplice(r, S, s, i, t, j) ==
  /\ r \in Seq(S) /\ Len(r) = i + Len(t) + (Len(s) - j)
  /\ \A k \in 1 .. i : r[k] = s[k]
  /\ \A k \in 1 .. Len(s) - j : r[i + Len(t) + k] = s[j + k]
  /\ \A k \in 1 .. Len(t) : r[i + k] = t[k]

\* One sequence behind another.
LEMMA Joined ==
  ASSUME NEW S, NEW s \in Seq(S), NEW t \in Seq(S)
  PROVE  s \o t \in Seq(S) /\ Len(s \o t) = Len(s) + Len(t)
OBVIOUS

\* Words i + 1 .. j of a sequence replaced by others: what _fdt_splice and the memmove
\* of fdt_rw.c do to a block.
LEMMA Spliced ==
  ASSUME NEW S, NEW s \in Seq(S), NEW t \in Seq(S), NEW i \in Nat, NEW j \in Nat, i <= j, j <= Len(s)
  PROVE  IsSplice(Splice(s, i, t, j), S, s, i, t, j)
<1> DEFINE u == SubSeq(s, 1, i)
           w == SubSeq(s, j + 1, Len(s))
<1>0. Len(s) \in Nat /\ Len(t) \in Nat
  OBVIOUS
<1>1. u \in Seq(S) /\ Len(u) = i /\ \A k \in 1 .. i : u[k] = s[k]
  BY <1>0
<1>2. w \in Seq(S) /\ Len(w) = Len(s) - j /\ \A k \in 1 .. Len(s) - j : w[k] = s[j + k]
  BY <1>0
<1> HIDE DEF u, w
<1> DEFINE x == u \o t
           r == x \o w
<1>3. x \in Seq(S) /\ Len(x) = Len(u) + Len(t)
  BY <1>1, Joined
<1>3a. (\A k \in 1 .. Len(u) : x[k] = u[k]) /\ \A k \in 1 .. Len(t) : x[Len(u) + k] = t[k]
  BY <1>0, <1>1
<1> HIDE DEF x
<1>4. x \in Seq(S) /\ Len(x) = i + Len(t) /\ (\A k \in 1 .. i : x[k] = s[k]) /\ \A k \in 1 .. Len(t) : x[i + k] = t[k]
  BY <1>1, <1>3, <1>3a
<1>5. r \in Seq(S) /\ Len(r) = i + Len(t) + (Len(s) - j)
  <2>1. r \in Seq(S) /\ Len(r) = Len(x) + Len(w)
    <3>1. x \in Seq(S) /\ w \in Seq(S)
      BY <1>2, <1>4
    <3> QED  BY <3>1
  <2> QED  BY <1>0, <1>2, <1>4, <2>1
<1>6. \A k \in 1 .. i : r[k] = s[k]
  <2>1. \A k \in 1 .. i : k \in 1 .. Len(x)
    BY <1>0, <1>4
  <2>2. \A k \in 1 .. Len(x) : r[k] = x[k]
    BY <1>2, <1>4
  <2> QED  BY <1>4, <2>1, <2>2
<1>7. \A k \in 1 .. Len(s) - j : r[i + Len(t) + k] = s[j + k]
  BY <1>0, <1>2, <1>4
<1>8. \A k \in 1 .. Len(t) : r[i + k] = t[k]
  BY <1>0, <1>2, <1>4
<1>9. r = Splice(s, i, t, j)
  BY DEF Splice, x, u, w
<1> HIDE DEF r
<1>10. IsSplice(r, S, s, i, t, j)
  BY <1>5, <1>6, <1>7, <1>8 DEF IsSplice
<1> QED  BY <1>9, <1>10

\* fdt_num_mem_rsv counts the entries before the first of size 0.
LEMMA NumMemRsv ==
  ASSUME NEW blob \in Blob, NEW ms \in Seq(Entry), RsvHolds(blob, ms)
  PROVE  fdt_num_mem_rsv(blob) = Len(ms)
<1> DEFINE P(i) == blob.rsv[i + 1][2] = 0 /\ \A j \in 1 .. i : blob.rsv[j][2] # 0
           L == Len(ms)
<1>0. L \in Nat /\ Len(blob.rsv) \in Nat /\ L + 1 <= Len(blob.rsv)
  BY SMTT(30) DEF Blob, RsvHolds
<1>1. \A j \in 1 .. L : blob.rsv[j][2] # 0
  <2>1. ASSUME NEW j \in 1 .. L PROVE ms[j] \in Entry
    BY <1>0
  <2>2. \A e \in Entry : e[2] # 0
    BY DEF Entry
  <2> QED  BY <2>1, <2>2 DEF RsvHolds
<1>2. L \in 0 .. Len(blob.rsv) - 1 /\ P(L)
  BY <1>0, <1>1 DEF RsvHolds
<1>3. \A i \in 0 .. Len(blob.rsv) - 1 : P(i) => i = L
  <2>1. SUFFICES ASSUME NEW i \in 0 .. Len(blob.rsv) - 1, P(i) PROVE i = L
    OBVIOUS
  <2>2. ~ (i < L)
    <3>1. i < L => i + 1 \in 1 .. L
      BY <1>0
    <3> QED  BY <1>1, <2>1, <3>1
  <2>3. ~ (L < i)
    <3>1. L < i => L + 1 \in 1 .. i
      BY <1>0
    <3> QED  BY <1>2, <2>1, <3>1
  <2> QED  BY <1>0, <2>2, <2>3
<1>4. fdt_num_mem_rsv(blob) = CHOOSE i \in 0 .. Len(blob.rsv) - 1 : P(i)
  BY DEF fdt_num_mem_rsv
<1> HIDE DEF P
<1> QED  BY <1>2, <1>3, <1>4

Seventeen(blob) == [blob EXCEPT !.version = 17]

\* A blob of version 17 in place of a later one.
LEMMA SeventeenFit ==
  ASSUME NEW blob, NEW size, NEW ms, FdtFit(blob, size, ms)
  PROVE  FdtFit(Seventeen(blob), size, ms)
<1> DEFINE c == Seventeen(blob)
<1>1. blob \in Blob
  BY DEF FdtFit
<1>2. /\ c \in Blob /\ c.version = 17 /\ c.magic = blob.magic /\ c.total = blob.total /\ c.st = blob.st
      /\ c.rsv = blob.rsv /\ c.strs = blob.strs /\ c.off_rsv = blob.off_rsv /\ c.off_struct = blob.off_struct
      /\ c.off_strings = blob.off_strings
  BY <1>1 DEF Seventeen, Blob
<1> HIDE DEF c
<1>3. RsvHolds(c, ms)
  BY <1>2 DEF FdtFit, RsvHolds
<1>4. c.off_strings >= c.off_struct => InOrder(c, ms)
  BY <1>2 DEF FdtFit, InOrder
<1>5. DataSize(c) = DataSize(blob) /\ c.version >= 17
  BY <1>2 DEF DataSize
<1>6. FdtFit(c, size, ms)
  BY <1>2, <1>3, <1>4, <1>5 DEF FdtFit
<1> QED  BY <1>6 DEF c

\* What the header check of fdt_rw.c lets through.
LEMMA RwChecked ==
  ASSUME NEW blob, NEW size, NEW ms \in Seq(Entry), FdtFit(blob, size, ms), NEW r
  PROVE  \/ Checked(blob, r).err = r.err /\ Checked(blob, r).b = Seventeen(r.b) /\ InOrder(blob, ms)
         \/ Checked(blob, r).b = blob /\ Checked(blob, r).err < 0
<1> DEFINE e == fdt_rw_check_header(blob)
<1>0. /\ blob.version \in Nat /\ blob.off_rsv \in Nat /\ blob.off_struct \in Nat /\ blob.off_strings \in Nat
      /\ blob.total \in Nat /\ Len(blob.st) \in Nat /\ blob.comp \in Nat
      /\ blob.version >= 17 /\ blob.magic = "fdt"
  BY DEF FdtFit, Blob
<1>1. fdt_check_header(blob) \in {0, Err.BADVERSION}
  BY <1>0 DEF fdt_check_header
<1>2. CASE e # 0
  <2>1. e < 0
    BY <1>1, <1>2, ErrorCodes DEF fdt_rw_check_header
  <2> HIDE DEF e
  <2>2. Checked(blob, r) = Ret(e, blob)
    BY <1>2 DEF Checked, e
  <2> QED  BY <2>1, <2>2 DEF Ret
<1>3. CASE e = 0
  <2>1. ~ fdt_blocks_misordered(blob, RsvWords)
    BY <1>0, <1>1, <1>3, ErrorCodes DEF fdt_rw_check_header
  <2>2. blob.off_strings >= blob.off_struct
    BY <1>0, <2>1 DEF fdt_blocks_misordered
  <2>3. InOrder(blob, ms)
    BY <2>2 DEF FdtFit
  <2>4. Checked(blob, r) = Ret(r.err, Seventeen(r.b))
    BY <1>3 DEF Checked, Seventeen
  <2> QED  BY <2>3, <2>4 DEF Ret
<1> QED  BY <1>2, <1>3

Restruct(blob, s, o) == [blob EXCEPT !.st = s, !.off_strings = o]

IsRestruct(r, blob, s, o) ==
  /\ r \in Blob /\ r.st = s /\ r.off_strings = o /\ r.strs = blob.strs /\ r.rsv = blob.rsv
  /\ r.off_struct = blob.off_struct /\ r.off_rsv = blob.off_rsv /\ r.total = blob.total
  /\ r.version = blob.version /\ r.magic = blob.magic

\* Another structure block, and the strings moved.
LEMMA WithStruct ==
  ASSUME NEW blob \in Blob, NEW s \in Seq(Nat), NEW o \in Nat
  PROVE  IsRestruct(Restruct(blob, s, o), blob, s, o)
BY DEF Blob, Restruct, IsRestruct

StructFits(r, blob, size, ms, old, new) ==
  /\ FdtFit(r.b, size, ms) /\ r.err \in Int
  /\ \/ r.err < 0 /\ r.b = blob
     \/ r.err = 0 /\ Len(r.b.st) = Len(blob.st) - old + Len(new) /\ InOrder(r.b, ms)

\* A splice of the structure block, of words inside it.
LEMMA SpliceStructFit ==
  ASSUME NEW blob, NEW size, NEW ms \in Seq(Entry), FdtFit(blob, size, ms), InOrder(blob, ms), size \in Nat,
         NEW off \in Nat, NEW old \in Nat, NEW new \in Seq(Nat), off + old <= Len(blob.st)
  PROVE  StructFits(SpliceStruct(blob, off, old, new), blob, size, ms, old, new)
<1> DEFINE e == fdt_splice(blob, blob.off_struct + off, old, Len(new))
           s == Splice(blob.st, off, new, off + old)
           o == blob.off_strings + Len(new) - old
           c == Restruct(blob, s, o)
<1>0. /\ blob \in Blob /\ blob.off_rsv \in Nat /\ blob.off_struct \in Nat /\ blob.off_strings \in Nat
      /\ blob.total \in Nat /\ Len(blob.st) \in Nat /\ Len(blob.strs) \in Nat /\ Len(new) \in Nat
      /\ blob.st \in Seq(Nat) /\ Len(ms) \in Nat
  BY SMTT(30) DEF FdtFit, Blob
<1>1. s \in Seq(Nat) /\ Len(s) = off + Len(new) + (Len(blob.st) - (off + old))
  <2>1. off + old \in Nat /\ off <= off + old
    OBVIOUS
  <2> DEFINE S == Nat
  <2>2. blob.st \in Seq(S) /\ new \in Seq(S)
    BY <1>0
  <2> HIDE DEF S
  <2>3. Splice(blob.st, off, new, off + old) \in Seq(S)
        /\ Len(Splice(blob.st, off, new, off + old)) = off + Len(new) + (Len(blob.st) - (off + old))
    <3>1. off \in Nat /\ off + old \in Nat /\ off <= off + old /\ off + old <= Len(blob.st)
      BY <2>1
    <3>2. IsSplice(Splice(blob.st, off, new, off + old), S, blob.st, off, new, off + old)
      BY <2>2, <3>1, Spliced
    <3> QED  BY <3>2 DEF IsSplice
  <2> QED  BY <2>3 DEF S
<1>2. o \in Nat
  <2>1. blob.off_struct + Len(blob.st) <= blob.off_strings
    BY DEF InOrder
  <2>2. old <= blob.off_strings
    BY <1>0, <2>1
  <2> QED  BY <1>0, <2>2
<1> HIDE DEF s, o, c
<1>3. /\ c \in Blob /\ c.st = s /\ c.off_strings = o /\ c.strs = blob.strs /\ c.rsv = blob.rsv
      /\ c.off_struct = blob.off_struct /\ c.off_rsv = blob.off_rsv /\ c.total = blob.total
      /\ c.version = blob.version /\ c.magic = blob.magic
  <2>1. blob \in Blob /\ s \in Seq(Nat) /\ o \in Nat
    BY <1>0, <1>1, <1>2
  <2>2. IsRestruct(c, blob, s, o)
    BY <2>1, WithStruct DEF c
  <2> QED  BY <2>2 DEF IsRestruct
<1>4. e \in Int /\ (e < 0 \/ e = 0)
  BY ErrorCodes DEF fdt_splice
<1>5. SpliceStruct(blob, off, old, new) = IF e < 0 THEN Ret(e, blob) ELSE Ret(0, c)
  BY DEF SpliceStruct, s, o, c, Splice, Restruct
<1>6. CASE e < 0
  <2> HIDE DEF e
  <2>1. SpliceStruct(blob, off, old, new).b = blob /\ SpliceStruct(blob, off, old, new).err = e
    BY <1>5, <1>6 DEF Ret
  <2> QED  BY <1>4, <1>6, <2>1 DEF StructFits
<1>7. CASE e = 0
  <2>1. DataSize(blob) - old + Len(new) <= blob.total
    <3>1. ~ (DataSize(blob) - old + Len(new) > blob.total)
      BY <1>7, ErrorCodes DEF fdt_splice
    <3>2. DataSize(blob) \in Nat
      BY <1>0 DEF DataSize
    <3> QED  BY <1>0, <3>1, <3>2
  <2> HIDE DEF e
  <2>2. SpliceStruct(blob, off, old, new).b = c /\ SpliceStruct(blob, off, old, new).err = 0
    BY <1>5, <1>7 DEF Ret
  <2>3. DataSize(c) <= c.total
    BY <1>0, <1>3, <2>1 DEF DataSize, o
  <2>4. Len(c.st) = Len(blob.st) - old + Len(new)
    <3>1. Len(c.st) = Len(s)
      BY <1>3
    <3>2. off + Len(new) + (Len(blob.st) - (off + old)) = Len(blob.st) - old + Len(new)
      <4> DEFINE L == Len(blob.st)
                 N == Len(new)
      <4>1. L \in Nat /\ N \in Nat
        BY <1>0
      <4> HIDE DEF L, N
      <4>2. off + N + (L - (off + old)) = L - old + N
        BY ONLY <4>1, off \in Nat, old \in Nat
      <4> QED  BY <4>2 DEF L, N
    <3> QED  BY <1>1, <3>1, <3>2
  <2>5. InOrder(c, ms)
    <3>1. /\ c.off_rsv >= HeaderWords /\ c.off_rsv + RsvWords * (Len(ms) + 1) <= c.off_struct
      BY <1>3 DEF InOrder
    <3>2. blob.off_struct + Len(blob.st) <= blob.off_strings
      BY DEF InOrder
    <3>3. blob.off_struct + (Len(blob.st) - old + Len(new)) <= o
      BY <1>0, <3>2, SMTT(30) DEF o
    <3>4. c.off_struct + Len(c.st) <= c.off_strings
      BY <1>3, <2>4, <3>3
    <3> QED  BY <3>1, <3>4 DEF InOrder
  <2>6. RsvHolds(c, ms)
    BY <1>3 DEF FdtFit, RsvHolds
  <2>7. FdtFit(c, size, ms)
    BY <1>3, <2>3, <2>5, <2>6 DEF FdtFit
  <2> QED  BY <2>2, <2>4, <2>5, <2>7 DEF StructFits
<1> QED  BY <1>4, <1>6, <1>7

\* _fdt_find_string returns a place in the table or 0.
LEMMA FindStringRange ==
  ASSUME NEW blob \in Blob, NEW s
  PROVE  fdt_find_string(blob, s) \in 0 .. Len(blob.strs)
<1> DEFINE P(i) == blob.strs[i] = s /\ \A j \in 1 .. i - 1 : blob.strs[j] # s
           At1 == {i \in 1 .. Len(blob.strs) : blob.strs[i] = s}
<1>0. Len(blob.strs) \in Nat
  BY DEF Blob
<1>1. CASE \A i \in 1 .. Len(blob.strs) : blob.strs[i] # s
  BY <1>0, <1>1 DEF fdt_find_string
<1>2. CASE ~ \A i \in 1 .. Len(blob.strs) : blob.strs[i] # s
  <2>1. At1 # {} /\ At1 \in SUBSET Nat
    BY <1>0, <1>2
  <2>2. PICK i \in At1 : \A k \in At1 : ~ (k < i)
    BY <2>1, LeastNumber
  <2>3. \A j \in 1 .. i - 1 : j \in 1 .. Len(blob.strs) /\ j < i
    BY <1>0, <2>2
  <2>4. i \in 1 .. Len(blob.strs) /\ P(i)
    BY <2>2, <2>3
  <2>5. fdt_find_string(blob, s) = CHOOSE k \in 1 .. Len(blob.strs) : P(k)
    BY <1>2 DEF fdt_find_string
  <2> HIDE DEF P
  <2>6. fdt_find_string(blob, s) \in 1 .. Len(blob.strs)
    BY <2>4, <2>5
  <2> QED  BY <1>0, <2>6
<1> QED  BY <1>1, <1>2

IsRestrs(r, blob, v) ==
  /\ r \in Blob /\ r.strs = v /\ r.st = blob.st /\ r.off_strings = blob.off_strings /\ r.rsv = blob.rsv
  /\ r.off_struct = blob.off_struct /\ r.off_rsv = blob.off_rsv /\ r.total = blob.total
  /\ r.version = blob.version /\ r.magic = blob.magic

\* Another table of strings.
LEMMA WithStrings ==
  ASSUME NEW blob \in Blob, NEW v \in Seq(Nat)
  PROVE  IsRestrs([blob EXCEPT !.strs = v], blob, v)
BY DEF Blob, IsRestrs

StringFits(r, blob, size, ms) ==
  /\ FdtFit(r.b, size, ms) /\ r.b.st = blob.st /\ InOrder(r.b, ms)
  /\ r.err \in Int /\ (r.err < 0 => r.b = blob)

\* _fdt_find_add_string of fdt_rw.c
LEMMA RwStringFit ==
  ASSUME NEW blob, NEW size \in Nat, NEW ms \in Seq(Entry), FdtFit(blob, size, ms), InOrder(blob, ms), NEW s \in Nat
  PROVE  StringFits(RwString(blob, s), blob, size, ms)
<1> DEFINE e == fdt_splice(blob, DataSize(blob), 0, 1)
           c == [blob EXCEPT !.strs = Append(@, s)]
           f == fdt_find_string(blob, s)
           r == RwString(blob, s)
<1>0. /\ blob \in Blob /\ blob.off_strings \in Nat /\ blob.total \in Nat /\ blob.strs \in Seq(Nat)
      /\ Len(blob.strs) \in Nat
  BY DEF FdtFit, Blob
<1>1. f \in Nat /\ f <= Len(blob.strs)
  BY <1>0, FindStringRange
<1>2. e \in Int /\ (e < 0 \/ e = 0)
  BY ErrorCodes DEF fdt_splice
<1> HIDE DEF f
<1>3. CASE f # 0
  <2>1. r = Ret(f - 1, blob)
    BY <1>3 DEF RwString, f
  <2>2. r.err = f - 1 /\ r.b = blob
    BY <2>1 DEF Ret
  <2> HIDE DEF r
  <2> QED  BY <1>1, <1>3, <2>2 DEF r, StringFits
<1>4. CASE f = 0 /\ e < 0
  <2> HIDE DEF e
  <2>1. r = Ret(e, blob)
    BY <1>4 DEF RwString, f, e
  <2>2. r.err = e /\ r.b = blob
    BY <2>1 DEF Ret
  <2> HIDE DEF r
  <2> QED  BY <1>2, <1>4, <2>2 DEF r, StringFits
<1>5. CASE f = 0 /\ e = 0
  <2>1. r = Ret(Len(blob.strs), c)
    <3> HIDE DEF e, c
    <3>1. ~ (e < 0)
      BY <1>5
    <3> QED  BY <1>5, <3>1 DEF RwString, f, e, c
  <2>2. r.err = Len(blob.strs) /\ r.b = c
    BY <2>1 DEF Ret
  <2> DEFINE v == Append(blob.strs, s)
  <2>3. v \in Seq(Nat) /\ Len(v) = Len(blob.strs) + 1
    BY <1>0
  <2>4. IsRestrs(c, blob, v)
    BY <1>0, <2>3, WithStrings
  <2> HIDE DEF c, r, v
  <2>5. /\ c \in Blob /\ c.strs = v /\ c.st = blob.st /\ c.off_strings = blob.off_strings /\ c.rsv = blob.rsv
        /\ c.off_struct = blob.off_struct /\ c.off_rsv = blob.off_rsv /\ c.total = blob.total
        /\ c.version = blob.version /\ c.magic = blob.magic
    BY <2>4 DEF IsRestrs
  <2>6. DataSize(c) <= c.total
    <3>1. ~ (DataSize(blob) - 0 + 1 > blob.total)
      BY <1>5, ErrorCodes DEF fdt_splice
    <3>2. DataSize(c) = blob.off_strings + (Len(blob.strs) + 1)
      BY <2>3, <2>5 DEF DataSize
    <3> QED  BY <1>0, <2>5, <3>1, <3>2 DEF DataSize
  <2>7. InOrder(c, ms)
    BY <2>5 DEF InOrder
  <2>8. RsvHolds(c, ms)
    BY <2>5 DEF FdtFit, RsvHolds
  <2>9. FdtFit(c, size, ms)
    BY <2>5, <2>6, <2>7, <2>8 DEF FdtFit
  <2> QED  BY <1>0, <2>2, <2>5, <2>7, <2>9 DEF r, StringFits
<1> QED  BY <1>1, <1>2, <1>3, <1>4, <1>5

IsRersv(r, blob, v, d) ==
  /\ r \in Blob /\ r.rsv = v /\ r.off_struct = blob.off_struct + d /\ r.off_strings = blob.off_strings + d
  /\ r.st = blob.st /\ r.strs = blob.strs /\ r.off_rsv = blob.off_rsv /\ r.total = blob.total
  /\ r.version = blob.version /\ r.magic = blob.magic

Rersv(blob, v, d) == [blob EXCEPT !.rsv = v, !.off_struct = @ + d, !.off_strings = @ + d]

\* Another reserve map, and the blocks behind it moved.
LEMMA WithReserves ==
  ASSUME NEW blob \in Blob, NEW v \in Seq(Nat \X Nat), NEW d \in Int,
         blob.off_struct + d \in Nat, blob.off_strings + d \in Nat
  PROVE  IsRersv(Rersv(blob, v, d), blob, v, d)
BY DEF Blob, IsRersv, Rersv

\* What the splices of the reserve map leave in order: the map from n on has one
\* entry more or less.
LEMMA RersvFit ==
  ASSUME NEW blob, NEW size \in Nat, NEW ms \in Seq(Entry), FdtFit(blob, size, ms), InOrder(blob, ms),
         NEW ns \in Seq(Entry), NEW d \in Int, d = RsvWords * (Len(ns) - Len(ms)), NEW v \in Seq(Nat \X Nat),
         DataSize(blob) + d <= blob.total,
         Len(ns) + 1 <= Len(v), v[Len(ns) + 1][2] = 0, \A i \in 1 .. Len(ns) : v[i] = ns[i]
  PROVE  FdtFit(Rersv(blob, v, d), size, ns)
<1> DEFINE c == Rersv(blob, v, d)
<1>0. /\ blob \in Blob /\ blob.off_rsv \in Nat /\ blob.off_struct \in Nat /\ blob.off_strings \in Nat
      /\ blob.total \in Nat /\ Len(blob.st) \in Nat /\ Len(blob.strs) \in Nat
      /\ Len(ms) \in Nat /\ Len(ns) \in Nat
  <2>1. Len(ms) \in Nat /\ Len(ns) \in Nat
    OBVIOUS
  <2>2. blob \in Blob
    BY DEF FdtFit
  <2> QED  BY ONLY <2>1, <2>2 DEF Blob
<1>1. /\ blob.off_rsv >= 10 /\ blob.off_rsv + 4 * (Len(ms) + 1) <= blob.off_struct
      /\ blob.off_struct + Len(blob.st) <= blob.off_strings
  BY DEF InOrder, HeaderWords, RsvWords
<1>2. blob.off_struct + d \in Nat /\ blob.off_strings + d \in Nat
      /\ blob.off_rsv + 4 * (Len(ns) + 1) <= blob.off_struct + d
      /\ (blob.off_struct + d) + Len(blob.st) <= blob.off_strings + d
      /\ (blob.off_strings + d) + Len(blob.strs) <= blob.total
  <2> DEFINE M == Len(ms)
             N == Len(ns)
             L == Len(blob.st)
             T == Len(blob.strs)
             x == blob.off_rsv
             y == blob.off_struct
             z == blob.off_strings
             w == blob.total
  <2>1. /\ M \in Nat /\ N \in Nat /\ L \in Nat /\ T \in Nat /\ x \in Nat /\ y \in Nat /\ z \in Nat /\ w \in Nat
        /\ d = 4 * (N - M) /\ x + 4 * (M + 1) <= y /\ y + L <= z /\ z + T + d <= w
    BY <1>0, <1>1 DEF RsvWords, DataSize
  <2> HIDE DEF M, N, L, T, x, y, z, w
  <2>2. y + d \in Nat /\ z + d \in Nat /\ x + 4 * (N + 1) <= y + d /\ (y + d) + L <= z + d /\ (z + d) + T <= w
    BY ONLY <2>1
  <2> QED  BY <2>2 DEF M, N, L, T, x, y, z, w
<1>3. IsRersv(c, blob, v, d)
  BY <1>0, <1>2, WithReserves
<1> HIDE DEF c
<1>4. /\ c \in Blob /\ c.rsv = v /\ c.off_struct = blob.off_struct + d /\ c.off_strings = blob.off_strings + d
      /\ c.st = blob.st /\ c.strs = blob.strs /\ c.off_rsv = blob.off_rsv /\ c.total = blob.total
      /\ c.version = blob.version /\ c.magic = blob.magic
  BY <1>3 DEF IsRersv
<1>5. DataSize(c) <= c.total
  BY <1>2, <1>4 DEF DataSize
<1>6. InOrder(c, ns)
  BY <1>1, <1>2, <1>4 DEF InOrder, HeaderWords, RsvWords
<1>7. RsvHolds(c, ns)
  BY <1>4 DEF RsvHolds
<1>8. c.version >= 17 /\ c.magic = "fdt" /\ c.total <= size
  BY <1>4 DEF FdtFit
<1>9. FdtFit(c, size, ns)
  BY <1>4, <1>5, <1>6, <1>7, <1>8 DEF FdtFit
<1> QED  BY <1>9 DEF c

\* fdt_add_mem_rsv adds the entry behind the others, or does nothing.
LEMMA AddSpliceFit ==
  ASSUME NEW size \in Nat, NEW ms \in Seq(Entry), FdtFit(b, size, ms), InOrder(b, ms), NEW e \in Entry
  PROVE  LET r == SpliceRsv(b, fdt_num_mem_rsv(b), 0, <<e>>)
         IN  \/ r.err < 0 /\ r.b = b
             \/ ~ (r.err < 0) /\ FdtFit(r.b, size, Append(ms, e))
<1> DEFINE n == Len(ms)
           q == SpliceRsv(b, n, 0, <<e>>)
           r == SpliceRsv(b, fdt_num_mem_rsv(b), 0, <<e>>)
           x == fdt_splice(b, b.off_rsv + n * RsvWords, 0 * RsvWords, 1 * RsvWords)
           v == Splice(b.rsv, n, <<e>>, n + 0)
           ns == Append(ms, e)
<1>0. b \in Blob /\ b.rsv \in Seq(Nat \X Nat) /\ n \in Nat /\ Len(b.rsv) \in Nat /\ RsvHolds(b, ms)
      /\ b.off_strings \in Nat /\ Len(b.strs) \in Nat /\ b.total \in Nat
  BY DEF FdtFit, Blob
<1>1. fdt_num_mem_rsv(b) = n
  BY <1>0, NumMemRsv
<1>2. r = q
  BY <1>1
<1>3. CASE r.err < 0 /\ r.b = b
  BY <1>3
<1>4. CASE ~ (r.err < 0 /\ r.b = b)
  <2> HIDE DEF q, n, r
  <2>1. r = q /\ InOrder(b, ms)
    BY <1>2
  <2>2. x \in Int /\ (x < 0 \/ x = 0)
    BY ErrorCodes DEF fdt_splice
  <2>3. Len(<<e>>) = 1
    OBVIOUS
  <2> DEFINE d == (1 - 0) * RsvWords
  <2>4. q = IF x < 0 THEN Ret(x, b) ELSE Ret(0, Rersv(b, v, d))
    BY <2>3 DEF q, SpliceRsv, Rersv, Splice
  <2>5. x = 0
    <3> HIDE DEF x
    <3>1. x < 0 => r.err = x /\ r.b = b
      BY <2>1, <2>4 DEF Ret
    <3> QED  BY <1>4, <2>2, <3>1
  <2>6. r.err = 0 /\ r.b = Rersv(b, v, d)
    <3> HIDE DEF x, v, d
    <3>1. ~ (x < 0)
      BY <2>5
    <3> QED  BY <2>1, <2>4, <3>1 DEF Ret
  <2>7. ns \in Seq(Entry) /\ Len(ns) = n + 1 /\ (\A i \in 1 .. n : ns[i] = ms[i]) /\ ns[n + 1] = e
    BY <1>0 DEF n
  <2>8. IsSplice(v, Nat \X Nat, b.rsv, n, <<e>>, n + 0)
    <3> DEFINE S == Nat \X Nat
    <3>1. b.rsv \in Seq(S) /\ e \in S
      BY <1>0 DEF Entry
    <3> HIDE DEF S
    <3>2. <<e>> \in Seq(S)
      BY <3>1
    <3>3. n \in Nat /\ n + 0 \in Nat /\ n <= n + 0 /\ n + 0 <= Len(b.rsv)
      BY <1>0 DEF RsvHolds, n
    <3>4. IsSplice(v, S, b.rsv, n, <<e>>, n + 0)
      BY <3>1, <3>2, <3>3, Spliced
    <3> QED  BY <3>4 DEF S
  <2> HIDE DEF v
  <2>9. v \in Seq(Nat \X Nat) /\ Len(v) = n + 1 + (Len(b.rsv) - n)
        /\ (\A k \in 1 .. n : v[k] = b.rsv[k]) /\ v[n + 1] = e /\ v[n + 2] = b.rsv[n + 1]
    <3>1. v \in Seq(Nat \X Nat) /\ Len(v) = n + 1 + (Len(b.rsv) - (n + 0))
          /\ (\A k \in 1 .. n : v[k] = b.rsv[k])
          /\ (\A k \in 1 .. Len(b.rsv) - (n + 0) : v[n + 1 + k] = b.rsv[n + 0 + k])
          /\ (\A k \in 1 .. 1 : v[n + k] = <<e>>[k])
      BY <2>3, <2>8 DEF IsSplice
    <3>2. 1 \in 1 .. Len(b.rsv) - (n + 0)
      BY <1>0 DEF RsvHolds, n
    <3>3. v[n + 1 + 1] = b.rsv[n + 0 + 1]
      BY <3>1, <3>2
    <3>4. n + 1 + 1 = n + 2 /\ n + 0 + 1 = n + 1 /\ n + 0 = n
      BY <1>0
    <3>5. v[n + 1] = <<e>>[1]
      BY <3>1
    <3> QED  BY <3>1, <3>3, <3>4, <3>5
  <2> HIDE DEF ns
  <2>10. Len(ns) + 1 <= Len(v) /\ v[Len(ns) + 1][2] = 0
    <3>1. n + 2 <= Len(v)
      <4> DEFINE V == Len(v)
                 R == Len(b.rsv)
      <4>1. V = n + 1 + (R - n) /\ n + 1 <= R /\ R \in Nat
        BY <1>0, <2>9 DEF RsvHolds, n
      <4> HIDE DEF V, R
      <4>2. n + 2 <= V
        BY <1>0, <4>1
      <4> QED  BY <4>2 DEF V
    <3>2. Len(ns) + 1 = n + 2
      BY <1>0, <2>7
    <3>3. v[n + 2][2] = 0
      BY <1>0, <2>9 DEF RsvHolds, n
    <3> QED  BY <3>1, <3>2, <3>3
  <2>11. \A i \in 1 .. Len(ns) : v[i] = ns[i]
    <3>1. \A i \in 1 .. n : v[i] = ns[i]
      BY <1>0, <2>7, <2>9 DEF RsvHolds, n
    <3>2. \A i \in 1 .. n + 1 : i \in 1 .. n \/ i = n + 1
      BY <1>0
    <3> QED  BY <2>7, <2>9, <3>1, <3>2
  <2>12. d \in Int /\ d = RsvWords * (Len(ns) - Len(ms))
    BY <1>0, <2>7 DEF RsvWords, n
  <2>13. DataSize(b) + d <= b.total
    <3>1. ~ (DataSize(b) - 0 * RsvWords + 1 * RsvWords > b.total)
      BY <2>5, ErrorCodes DEF fdt_splice
    <3> QED  BY <1>0, <3>1 DEF DataSize, RsvWords
  <2> HIDE DEF d
  <2>14. FdtFit(Rersv(b, v, d), size, ns)
    BY <2>1, <2>7, <2>9, <2>10, <2>11, <2>12, <2>13, RersvFit
  <2>15. ~ (r.err < 0)
    BY <2>6
  <2> QED  BY <2>6, <2>14, <2>15 DEF ns, r
<1> QED  BY <1>3, <1>4

\* ... behind its header check
LEMMA AddMemRsvFit ==
  ASSUME NEW size \in Nat, NEW ms \in Seq(Entry), FdtFit(b, size, ms), NEW e \in Entry
  PROVE  LET r == fdt_add_mem_rsv(e)
         IN  \/ r.err < 0 /\ FdtFit(r.b, size, ms)
             \/ ~ (r.err < 0) /\ FdtFit(r.b, size, Append(ms, e))
<1> DEFINE q == SpliceRsv(b, fdt_num_mem_rsv(b), 0, <<e>>)
           r == fdt_add_mem_rsv(e)
<1>1. r = Checked(b, q)
  BY DEF fdt_add_mem_rsv
<1>2. InOrder(b, ms) => (q.err < 0 /\ q.b = b) \/ (~ (q.err < 0) /\ FdtFit(q.b, size, Append(ms, e)))
  BY AddSpliceFit
<1> HIDE DEF q, r
<1>3. \/ r.err = q.err /\ r.b = Seventeen(q.b) /\ InOrder(b, ms)
      \/ r.b = b /\ r.err < 0
  BY <1>1, RwChecked
<1>4. FdtFit(q.b, size, Append(ms, e)) => FdtFit(Seventeen(q.b), size, Append(ms, e))
  BY SeventeenFit
<1>5. FdtFit(Seventeen(b), size, ms)
  BY SeventeenFit
<1> QED  BY <1>2, <1>3, <1>4, <1>5 DEF r

\* r is s without its entry n + 1.
IsRemoved(r, S, s, n) ==
  /\ r \in Seq(S) /\ Len(r) = Len(s) - 1
  /\ \A k \in 1 .. n : r[k] = s[k]
  /\ \A k \in n + 1 .. Len(s) - 1 : r[k] = s[k + 1]

\* A sequence without one of its entries.
LEMMA Removed ==
  ASSUME NEW S, NEW s \in Seq(S), NEW n \in Nat, n + 1 <= Len(s)
  PROVE  /\ IsRemoved(Splice(s, n, <<>>, n + 1), S, s, n)
         /\ IsRemoved(SubSeq(s, 1, n) \o SubSeq(s, n + 2, Len(s)), S, s, n)
<1> DEFINE v == Splice(s, n, <<>>, n + 1)
<1>0. Len(s) \in Nat /\ n + 1 \in Nat /\ n <= n + 1 /\ <<>> \in Seq(S) /\ Len(<<>>) = 0
  OBVIOUS
<1>1. IsSplice(v, S, s, n, <<>>, n + 1)
  BY <1>0, Spliced
<1> HIDE DEF v
<1>2. /\ v \in Seq(S) /\ Len(v) = n + 0 + (Len(s) - (n + 1)) /\ (\A k \in 1 .. n : v[k] = s[k])
      /\ \A k \in 1 .. Len(s) - (n + 1) : v[n + 0 + k] = s[n + 1 + k]
  BY <1>0, <1>1 DEF IsSplice
<1>3. Len(v) = Len(s) - 1
  <2> DEFINE L == Len(s)
  <2>1. L \in Nat
    BY <1>0
  <2> HIDE DEF L
  <2>2. n + 0 + (L - (n + 1)) = L - 1
    BY <2>1
  <2> QED  BY <1>2, <2>2 DEF L
<1>4. ASSUME NEW k \in n + 1 .. Len(s) - 1 PROVE v[k] = s[k + 1]
  <2>1. k - n \in 1 .. Len(s) - (n + 1) /\ n + 0 + (k - n) = k /\ n + 1 + (k - n) = k + 1
    BY <1>0
  <2> QED  BY <1>2, <2>1
<1>5. IsRemoved(v, S, s, n)
  BY <1>2, <1>3, <1>4 DEF IsRemoved
<1>6. v = SubSeq(s, 1, n) \o SubSeq(s, n + 2, Len(s))
  <2>1. n + 1 + 1 = n + 2
    OBVIOUS
  <2>2. SubSeq(s, 1, n) \in Seq(S)
    BY <1>0
  <2>3. SubSeq(s, 1, n) \o <<>> = SubSeq(s, 1, n)
    BY <2>2, ConcatEmptySeq
  <2> QED  BY <2>1, <2>3 DEF v, Splice
<1> QED  BY <1>5, <1>6 DEF v

\* fdt_del_mem_rsv takes out the n-th entry, or does nothing.
LEMMA DelSpliceFit ==
  ASSUME NEW size \in Nat, NEW ms \in Seq(Entry), FdtFit(b, size, ms), InOrder(b, ms), NEW n \in Nat
  PROVE  LET r == IF n >= fdt_num_mem_rsv(b) THEN Ret(Err.NOTFOUND, b) ELSE SpliceRsv(b, n, 1, <<>>)
             ns == SubSeq(ms, 1, n) \o SubSeq(ms, n + 2, Len(ms))
         IN  \/ r.err < 0 /\ r.b = b
             \/ ~ (r.err < 0) /\ ns \in Seq(Entry) /\ FdtFit(r.b, size, ns)
<1> DEFINE q == SpliceRsv(b, n, 1, <<>>)
           r == IF n >= fdt_num_mem_rsv(b) THEN Ret(Err.NOTFOUND, b) ELSE SpliceRsv(b, n, 1, <<>>)
           x == fdt_splice(b, b.off_rsv + n * RsvWords, 1 * RsvWords, 0 * RsvWords)
           v == Splice(b.rsv, n, <<>>, n + 1)
           ns == SubSeq(ms, 1, n) \o SubSeq(ms, n + 2, Len(ms))
<1>0. b \in Blob /\ b.rsv \in Seq(Nat \X Nat) /\ Len(ms) \in Nat /\ Len(b.rsv) \in Nat /\ RsvHolds(b, ms)
      /\ b.off_strings \in Nat /\ Len(b.strs) \in Nat /\ b.total \in Nat
  BY DEF FdtFit, Blob
<1>1. fdt_num_mem_rsv(b) = Len(ms)
  BY <1>0, NumMemRsv
<1>2. r = IF n >= Len(ms) THEN Ret(Err.NOTFOUND, b) ELSE q
  BY <1>1
<1>3. CASE r.err < 0 /\ r.b = b
  BY <1>3
<1>4. CASE ~ (r.err < 0 /\ r.b = b)
  <2> HIDE DEF q, r
  <2>1. r = (IF n >= Len(ms) THEN Ret(Err.NOTFOUND, b) ELSE q) /\ InOrder(b, ms)
    BY <1>2
  <2>2. ~ (n >= Len(ms))
    <3>1. n >= Len(ms) => r = Ret(Err.NOTFOUND, b)
      BY <2>1
    <3> QED  BY <1>4, <3>1, ErrorCodes DEF Ret
  <2>3. r = q /\ n + 1 <= Len(ms)
    BY <1>0, <2>1, <2>2
  <2>4. x \in Int /\ (x < 0 \/ x = 0)
    BY ErrorCodes DEF fdt_splice
  <2> DEFINE d == (0 - 1) * RsvWords
  <2>5. q = IF x < 0 THEN Ret(x, b) ELSE Ret(0, Rersv(b, v, d))
    <3>1. Len(<<>>) = 0
      OBVIOUS
    <3> QED  BY <3>1 DEF q, SpliceRsv, Rersv, Splice
  <2>6. x = 0
    <3> HIDE DEF x
    <3>1. x < 0 => r.err = x /\ r.b = b
      BY <2>3, <2>5 DEF Ret
    <3> QED  BY <1>4, <2>4, <3>1
  <2>7. r.err = 0 /\ r.b = Rersv(b, v, d)
    <3> HIDE DEF x, v, d
    <3>1. ~ (x < 0)
      BY <2>6
    <3> QED  BY <2>3, <2>5, <3>1 DEF Ret
  <2>8. IsRemoved(ns, Entry, ms, n)
    BY <2>3, Removed
  <2>9. IsRemoved(v, Nat \X Nat, b.rsv, n)
    <3>1. n + 1 <= Len(b.rsv)
      BY <1>0, <2>3 DEF RsvHolds
    <3> QED  BY <1>0, <3>1, Removed
  <2> HIDE DEF v, ns
  <2>10. ns \in Seq(Entry) /\ Len(ns) = Len(ms) - 1 /\ v \in Seq(Nat \X Nat) /\ Len(v) = Len(b.rsv) - 1
    BY <2>8, <2>9 DEF IsRemoved
  <2>11. Len(ns) + 1 <= Len(v) /\ v[Len(ns) + 1][2] = 0
    <3>1. Len(ms) \in n + 1 .. Len(b.rsv) - 1 /\ Len(ms) <= Len(b.rsv) - 1
      BY <1>0, <2>3 DEF RsvHolds
    <3>2. v[Len(ms)] = b.rsv[Len(ms) + 1]
      BY <2>9, <3>1 DEF IsRemoved
    <3>3. Len(ns) + 1 = Len(ms)
      BY <1>0, <2>10
    <3>4. b.rsv[Len(ms) + 1][2] = 0
      BY <1>0 DEF RsvHolds
    <3> QED  BY <2>10, <3>1, <3>2, <3>3, <3>4
  <2>12. ASSUME NEW i \in 1 .. Len(ns) PROVE v[i] = ns[i]
    <3>0. i \in 1 .. Len(ms) - 1 /\ Len(ms) + 1 <= Len(b.rsv)
      BY <1>0, <2>10 DEF RsvHolds
    <3>1. CASE i <= n
      <4>1. i \in 1 .. n /\ i \in 1 .. Len(ms)
        BY <1>0, <3>0, <3>1
      <4> QED  BY <1>0, <2>8, <2>9, <4>1 DEF IsRemoved, RsvHolds
    <3>2. CASE ~ (i <= n)
      <4>1. i \in n + 1 .. Len(ms) - 1 /\ i \in n + 1 .. Len(b.rsv) - 1 /\ i + 1 \in 1 .. Len(ms)
        BY <1>0, <3>0, <3>2
      <4>2. v[i] = b.rsv[i + 1] /\ ns[i] = ms[i + 1]
        BY <2>8, <2>9, <4>1 DEF IsRemoved
      <4> QED  BY <1>0, <4>1, <4>2 DEF RsvHolds
    <3> QED  BY <3>1, <3>2
  <2>13. d \in Int /\ d = RsvWords * (Len(ns) - Len(ms))
    BY <1>0, <2>10 DEF RsvWords
  <2>14. DataSize(b) + d <= b.total
    <3>1. DataSize(b) <= b.total
      BY DEF FdtFit
    <3> QED  BY <1>0, <3>1 DEF DataSize, RsvWords
  <2> HIDE DEF d
  <2>15. FdtFit(Rersv(b, v, d), size, ns)
    BY <2>1, <2>10, <2>11, <2>12, <2>13, <2>14, RersvFit
  <2>16. ~ (r.err < 0)
    BY <2>7
  <2> QED  BY <2>7, <2>10, <2>15, <2>16 DEF ns, r
<1> QED  BY <1>3, <1>4

\* ... behind its header check
LEMMA DelMemRsvFit ==
  ASSUME NEW size \in Nat, NEW ms \in Seq(Entry), FdtFit(b, size, ms), NEW n \in Nat
  PROVE  LET r == fdt_del_mem_rsv(n)
             ns == SubSeq(ms, 1, n) \o SubSeq(ms, n + 2, Len(ms))
         IN  \/ r.err < 0 /\ FdtFit(r.b, size, ms)
             \/ ~ (r.err < 0) /\ ns \in Seq(Entry) /\ FdtFit(r.b, size, ns)
<1> DEFINE q == IF n >= fdt_num_mem_rsv(b) THEN Ret(Err.NOTFOUND, b) ELSE SpliceRsv(b, n, 1, <<>>)
           r == fdt_del_mem_rsv(n)
           ns == SubSeq(ms, 1, n) \o SubSeq(ms, n + 2, Len(ms))
<1>1. r = Checked(b, q)
  BY DEF fdt_del_mem_rsv
<1>2. InOrder(b, ms) => \/ q.err < 0 /\ q.b = b
                        \/ ~ (q.err < 0) /\ ns \in Seq(Entry) /\ FdtFit(q.b, size, ns)
  BY DelSpliceFit
<1> HIDE DEF q, r, ns
<1>3. \/ r.err = q.err /\ r.b = Seventeen(q.b) /\ InOrder(b, ms)
      \/ r.b = b /\ r.err < 0
  BY <1>1, RwChecked
<1>4. FdtFit(q.b, size, ns) => FdtFit(Seventeen(q.b), size, ns)
  BY SeventeenFit
<1>5. FdtFit(Seventeen(b), size, ms)
  BY SeventeenFit
<1> QED  BY <1>2, <1>3, <1>4, <1>5 DEF r, ns

\* A call of fdt_rw.c keeps the blocks apart if it does so once its header check passed.
LEMMA CheckedFit ==
  ASSUME NEW size \in Nat, NEW ms \in Seq(Entry), FdtFit(b, size, ms), NEW r,
         InOrder(b, ms) => FdtFit(r.b, size, ms)
  PROVE  FdtFit(Checked(b, r).b, size, ms)
<1>1. FdtFit(r.b, size, ms) => FdtFit(Seventeen(r.b), size, ms)
  BY SeventeenFit
<1> QED  BY <1>1, RwChecked

\* The header of a blob in its buffer says where its structure block ends.
LEMMA FitSized ==
  ASSUME NEW blob, NEW size, NEW ms, FdtFit(blob, size, ms)
  PROVE  Sized(blob) /\ blob \in Blob /\ blob.st \in Seq(Nat) /\ Len(blob.st) \in Nat
<1>1. blob \in Blob /\ blob.version >= 17
  BY DEF FdtFit
<1> QED  BY <1>1 DEF Blob, Sized

Refill(blob, s) == [blob EXCEPT !.st = s]
IsRefill(r, blob, s) ==
  /\ r \in Blob /\ r.st = s /\ r.off_strings = blob.off_strings /\ r.strs = blob.strs /\ r.rsv = blob.rsv
  /\ r.off_struct = blob.off_struct /\ r.off_rsv = blob.off_rsv /\ r.total = blob.total
  /\ r.version = blob.version /\ r.magic = blob.magic

\* Other words in the structure block.
LEMMA WithWords ==
  ASSUME NEW blob \in Blob, NEW s \in Seq(Nat)
  PROVE  IsRefill(Refill(blob, s), blob, s)
BY DEF Blob, Refill, IsRefill

\* Words written over words of the structure block.
LEMMA RefillFit ==
  ASSUME NEW blob, NEW size, NEW ms, FdtFit(blob, size, ms), NEW s \in Seq(Nat), Len(s) = Len(blob.st)
  PROVE  FdtFit(Refill(blob, s), size, ms)
<1> DEFINE c == Refill(blob, s)
<1>1. IsRefill(c, blob, s)
  BY FitSized, WithWords
<1> HIDE DEF c
<1>2. /\ c \in Blob /\ c.st = s /\ c.off_strings = blob.off_strings /\ c.strs = blob.strs /\ c.rsv = blob.rsv
      /\ c.off_struct = blob.off_struct /\ c.off_rsv = blob.off_rsv /\ c.total = blob.total
      /\ c.version = blob.version /\ c.magic = blob.magic
  BY <1>1 DEF IsRefill
<1>3. RsvHolds(c, ms)
  BY <1>2 DEF FdtFit, RsvHolds
<1>4. InOrder(blob, ms) => InOrder(c, ms)
  BY <1>2 DEF InOrder
<1>5. DataSize(c) = DataSize(blob)
  BY <1>2 DEF DataSize
<1>6. FdtFit(c, size, ms)
  BY <1>2, <1>3, <1>4, <1>5 DEF FdtFit
<1> QED  BY <1>6 DEF c

\* What fdt_wip.c writes over words of the block.
LEMMA OverFit ==
  ASSUME NEW size, NEW ms, FdtFit(b, size, ms), NEW at \in Nat, NEW new \in Seq(Nat), at + Len(new) <= Len(b.st)
  PROVE  FdtFit(Over(at, new), size, ms)
<1> DEFINE N == Len(new)
           s == Splice(b.st, at, new, at + N)
           L == Len(b.st)
<1>0. b.st \in Seq(Nat) /\ N \in Nat /\ L \in Nat /\ at + N <= L
  BY FitSized
<1>1. IsSplice(s, Nat, b.st, at, new, at + N)
  <2> DEFINE S == Nat
  <2>1. b.st \in Seq(S) /\ new \in Seq(S)
    BY <1>0
  <2>2. at + N \in Nat /\ at <= at + N /\ at + N <= Len(b.st)
    BY <1>0
  <2> HIDE DEF S, N
  <2>3. IsSplice(s, S, b.st, at, new, at + N)
    BY <2>1, <2>2, Spliced
  <2> QED  BY <2>3 DEF S
<1> HIDE DEF s
<1>2. s \in Seq(Nat) /\ Len(s) = at + N + (L - (at + N))
  BY <1>1 DEF IsSplice
<1> HIDE DEF N, L
<1>3. at + N + (L - (at + N)) = L
  BY <1>0
<1>4. FdtFit(Refill(b, s), size, ms)
  BY <1>2, <1>3, RefillFit DEF L
<1> QED  BY <1>4 DEF Over, Refill, s, Splice, N

\* _fdt_nop_region writes as many NOPs as there were words.
LEMMA NopWords ==
  ASSUME NEW n \in Nat
  PROVE  Nops(n) \in Seq(Nat) /\ Len(Nops(n)) = n
BY DEF Nops, FDT_NOP

-----------------------------------------------------------------------------
(* The calls on a node or a property: at whatever offset, each leaves a      *)
(* blob whose blocks are apart and inside the buffer.                       *)

\* fdt_set_name
LEMMA SetNameFit ==
  ASSUME NEW size \in Nat, NEW ms \in Seq(Entry), FdtFit(b, size, ms), NEW node \in Nat, NEW name \in Nat
  PROVE  FdtFit(fdt_set_name(node, name).b, size, ms)
<1> DEFINE r == IF fdt_get_name(b, node) < 0 THEN Ret(fdt_get_name(b, node), b)
                ELSE SpliceStruct(b, node + 1, 1, <<name>>)
<1>1. InOrder(b, ms) => FdtFit(r.b, size, ms)
  <2>1. CASE fdt_get_name(b, node) < 0
    BY <2>1 DEF Ret
  <2>2. CASE ~ (fdt_get_name(b, node) < 0)
    <3>1. ~ (fdt_check_node_offset(b, node) < 0)
      BY <2>2 DEF fdt_get_name, After
    <3>2. node + 2 <= Len(b.st)
      BY <3>1, FitSized, NodeOffset, ErrorCodes
    <3>3. node + 1 \in Nat /\ 1 \in Nat /\ <<name>> \in Seq(Nat) /\ node + 1 + 1 <= Len(b.st)
      BY <3>2, FitSized
    <3>4. InOrder(b, ms) => FdtFit(SpliceStruct(b, node + 1, 1, <<name>>).b, size, ms)
      BY <3>3, SpliceStructFit DEF StructFits
    <3> QED  BY <2>2, <3>4
  <2> QED  BY <2>1, <2>2
<1> HIDE DEF r
<1>2. fdt_set_name(node, name) = Checked(b, r)
  BY DEF fdt_set_name, r
<1> QED  BY <1>1, <1>2, CheckedFit

\* _fdt_resize_property and the value its caller then writes
LEMMA ResizeFit ==
  ASSUME NEW size \in Nat, NEW ms \in Seq(Entry), FdtFit(b, size, ms), InOrder(b, ms),
         NEW p \in Int, p < 0 \/ (PropLen(b, p) \in Nat /\ p + 3 + PropLen(b, p) <= Len(b.st)),
         NEW data \in Seq(Nat)
  PROVE  FdtFit(ResizeAt(p, data).b, size, ms)
<1> DEFINE n == PropLen(b, p)
           q == SpliceStruct(b, p + 3, n, data)
           D == Len(data)
           L == Len(b.st)
<1>1. CASE p < 0
  BY <1>1 DEF ResizeAt, Ret
<1>2. CASE ~ (p < 0)
  <2>1. p \in Nat /\ n \in Nat /\ p + 3 \in Nat /\ (p + 3) + n <= L /\ D \in Nat /\ L \in Nat
    BY <1>2, FitSized
  <2>2. /\ FdtFit(q.b, size, ms) /\ q.err \in Int
        /\ q.err < 0 \/ (q.err = 0 /\ Len(q.b.st) = L - n + D)
    <3> HIDE DEF n, q
    <3>1. StructFits(q, b, size, ms, n, data)
      BY <2>1, SpliceStructFit DEF q
    <3> QED  BY <3>1 DEF StructFits
  <2> HIDE DEF n, q, D, L
  <2>3. ResizeAt(p, data) = WithLen(q, p, D)
    BY <1>2 DEF ResizeAt, n, q, D
  <2>4. CASE q.err < 0
    BY <2>2, <2>3, <2>4 DEF WithLen
  <2>5. CASE ~ (q.err < 0)
    <3> DEFINE s == [q.b.st EXCEPT ![p + 2] = D]
    <3>1. q.b.st \in Seq(Nat) /\ q.b \in Blob
      BY <2>2, FitSized
    <3>2. s \in Seq(Nat) /\ Len(s) = Len(q.b.st)
      <4>1. q.b.st \in [1 .. Len(q.b.st) -> Nat] /\ Len(q.b.st) \in Nat
        BY <3>1
      <4>2. s \in [1 .. Len(q.b.st) -> Nat]
        BY <2>1, <4>1
      <4> DEFINE k == Len(q.b.st)
      <4> HIDE DEF s, k
      <4>3. k \in Nat /\ s \in [1 .. k -> Nat]
        BY <4>1, <4>2 DEF k
      <4>4. s \in Seq(Nat) /\ Len(s) = k
        BY ONLY <4>3
      <4> QED  BY <4>4 DEF k
    <3> HIDE DEF s
    <3>3. FdtFit(Refill(q.b, s), size, ms)
      BY <2>2, <3>2, RefillFit
    <3>4. WithLen(q, p, D) = Ret(0, Refill(q.b, s))
      BY <2>5 DEF WithLen, Refill, s
    <3> QED  BY <2>3, <3>3, <3>4 DEF Ret
  <2> QED  BY <2>4, <2>5
<1> QED  BY <1>1, <1>2

\* _fdt_add_property
LEMMA AddAtFit ==
  ASSUME NEW size \in Nat, NEW ms \in Seq(Entry), FdtFit(b, size, ms), InOrder(b, ms),
         NEW node \in Nat, NEW name \in Nat, NEW data \in Seq(Nat)
  PROVE  FdtFit(AddProperty(node, name, data).b, size, ms)
<1> DEFINE off == fdt_check_node_offset(b, node)
           s == RwString(b, name)
           r == AddProperty(node, name, data)
<1>0. r = AddAt(off, s, data)
  BY DEF AddProperty
<1>1. off \in Int /\ (off < 0 \/ off <= Len(b.st))
  <2>1. Sized(b) /\ Len(b.st) \in Nat
    BY FitSized
  <2>2. off = Err.BADOFFSET \/ (off = node + 2 /\ node + 2 <= Len(b.st))
    BY <2>1, NodeOffset
  <2> HIDE DEF off
  <2> QED  BY <2>1, <2>2, ErrorCodes
<1>2. /\ FdtFit(s.b, size, ms) /\ s.b.st = b.st /\ InOrder(s.b, ms)
      /\ s.err \in Int
  BY RwStringFit DEF StringFits
<1> HIDE DEF off, s, r
<1>3. CASE off < 0
  BY <1>0, <1>3 DEF AddAt, Ret, r
<1>4. CASE ~ (off < 0) /\ s.err < 0
  BY <1>0, <1>2, <1>4 DEF AddAt, r
<1>5. CASE ~ (off < 0) /\ ~ (s.err < 0)
  <2> DEFINE new == <<FDT_PROP, Len(data), s.err>> \o data
  <2>1. new \in Seq(Nat)
    <3>1. FDT_PROP \in Nat /\ Len(data) \in Nat /\ s.err \in Nat
      BY <1>2, <1>5 DEF FDT_PROP
    <3>2. <<FDT_PROP, Len(data), s.err>> \in Seq(Nat)
      BY <3>1
    <3> HIDE DEF FDT_PROP
    <3> QED  BY <3>2
  <2> HIDE DEF new
  <2>2. off \in Nat /\ 0 \in Nat /\ off + 0 <= Len(s.b.st)
    BY <1>1, <1>2, <1>5
  <2>3. FdtFit(SpliceStruct(s.b, off, 0, new).b, size, ms)
    BY <1>2, <2>1, <2>2, SpliceStructFit DEF StructFits
  <2> QED  BY <1>0, <1>5, <2>3 DEF AddAt, new, r
<1> QED  BY <1>3, <1>4, <1>5

\* fdt_setprop
LEMMA SetpropFit ==
  ASSUME NEW size \in Nat, NEW ms \in Seq(Entry), FdtFit(b, size, ms),
         NEW node \in Nat, NEW name \in Nat, NEW data \in Seq(Nat)
  PROVE  FdtFit(fdt_setprop(node, name, data).b, size, ms)
<1> DEFINE x == ResizeProperty(node, name, data)
           y == AddProperty(node, name, data)
<1>1. InOrder(b, ms) => FdtFit(IfAbsent(x, y).b, size, ms)
  <2>1. SUFFICES ASSUME InOrder(b, ms) PROVE FdtFit(IfAbsent(x, y).b, size, ms)
    OBVIOUS
  <2>2. FdtFit(x.b, size, ms)
    <3> DEFINE p == fdt_get_property(b, node, name)
    <3>1. p \in Int /\ (p < 0 \/ (PropLen(b, p) \in Nat /\ p + 3 + PropLen(b, p) <= Len(b.st)))
      BY FitSized, PropertyRange
    <3> HIDE DEF p
    <3>2. FdtFit(ResizeAt(p, data).b, size, ms)
      BY <2>1, <3>1, ResizeFit
    <3> QED  BY <3>2 DEF ResizeProperty, p
  <2>3. FdtFit(y.b, size, ms)
    BY <2>1, AddAtFit
  <2> HIDE DEF x, y
  <2> QED  BY <2>2, <2>3 DEF IfAbsent
<1>2. fdt_setprop(node, name, data) = Checked(b, IfAbsent(x, y))
  BY DEF fdt_setprop
<1> HIDE DEF x, y
<1> QED  BY <1>1, <1>2, CheckedFit

\* The value of a property is words of the block.
LEMMA PropWords ==
  ASSUME NEW size, NEW ms, FdtFit(b, size, ms), NEW p \in Nat, PropLen(b, p) \in Nat,
         p + 3 + PropLen(b, p) <= Len(b.st)
  PROVE  PropData(b, p) \in Seq(Nat)
<1> DEFINE n == PropLen(b, p)
<1>1. b.st \in Seq(Nat) /\ Len(b.st) \in Nat /\ n \in Nat /\ p + 3 + n <= Len(b.st)
  BY FitSized
<1> HIDE DEF n
<1>2. \A i \in p + 4 .. p + 3 + n : i \in 1 .. Len(b.st)
  BY <1>1
<1>3. \A i \in p + 4 .. p + 3 + n : b.st[i] \in Nat
  BY <1>1, <1>2, SMTT(30)
<1>4. p + 4 \in Int /\ p + 3 + n \in Int
  BY <1>1
<1>5. SubSeq(b.st, p + 4, p + 3 + n) \in Seq(Nat)
  BY <1>3, <1>4, SubSeqProperties
<1> QED  BY <1>5 DEF PropData, n

\* fdt_appendprop
LEMMA AppendpropFit ==
  ASSUME NEW size \in Nat, NEW ms \in Seq(Entry), FdtFit(b, size, ms),
         NEW node \in Nat, NEW name \in Nat, NEW data \in Seq(Nat)
  PROVE  FdtFit(fdt_appendprop(node, name, data).b, size, ms)
<1> DEFINE p == fdt_get_property(b, node, name)
           y == AddProperty(node, name, data)
           r == AppendAt(p, data, y)
<1>0. p \in Int /\ (p < 0 \/ (PropLen(b, p) \in Nat /\ p + 3 + PropLen(b, p) <= Len(b.st)))
  BY FitSized, PropertyRange
<1>1. fdt_appendprop(node, name, data) = Checked(b, r)
  BY DEF fdt_appendprop
<1>2. InOrder(b, ms) => FdtFit(r.b, size, ms)
  <2>1. SUFFICES ASSUME InOrder(b, ms) PROVE FdtFit(r.b, size, ms)
    OBVIOUS
  <2>2. FdtFit(y.b, size, ms)
    BY <2>1, AddAtFit
  <2> HIDE DEF p, y
  <2>3. CASE p >= 0
    <3> DEFINE more == PropData(b, p) \o data
    <3>1. p \in Nat /\ PropLen(b, p) \in Nat /\ p + 3 + PropLen(b, p) <= Len(b.st)
      BY <1>0, <2>3
    <3>2. PropData(b, p) \in Seq(Nat)
      BY <3>1, PropWords
    <3>3. more \in Seq(Nat)
      BY <3>2
    <3> HIDE DEF more
    <3>4. FdtFit(ResizeAt(p, more).b, size, ms)
      BY <1>0, <2>1, <3>3, ResizeFit
    <3> QED  BY <2>3, <3>4 DEF AppendAt, more
  <2>4. CASE ~ (p >= 0)
    BY <2>2, <2>4 DEF AppendAt
  <2> QED  BY <2>3, <2>4
<1> HIDE DEF r
<1> QED  BY <1>1, <1>2, CheckedFit

\* fdt_delprop
LEMMA DelpropFit ==
  ASSUME NEW size \in Nat, NEW ms \in Seq(Entry), FdtFit(b, size, ms), NEW node \in Nat, NEW name \in Nat
  PROVE  FdtFit(fdt_delprop(node, name).b, size, ms)
<1> DEFINE p == fdt_get_property(b, node, name)
           r == DelAt(p)
           n == PropLen(b, p)
<1>0. p \in Int /\ (p < 0 \/ (n \in Nat /\ p + 3 + n <= Len(b.st))) /\ Len(b.st) \in Nat
  BY FitSized, PropertyRange
<1>1. fdt_delprop(node, name) = Checked(b, r)
  BY DEF fdt_delprop
<1>2. InOrder(b, ms) => FdtFit(r.b, size, ms)
  <2> HIDE DEF p
  <2>1. SUFFICES ASSUME InOrder(b, ms) PROVE FdtFit(r.b, size, ms)
    OBVIOUS
  <2>2. CASE p < 0
    BY <2>2 DEF DelAt, Ret
  <2>3. CASE ~ (p < 0)
    <3> HIDE DEF n
    <3>1. p \in Nat /\ 3 + n \in Nat /\ p + (3 + n) <= Len(b.st) /\ <<>> \in Seq(Nat)
      BY <1>0, <2>3
    <3>2. FdtFit(SpliceStruct(b, p, 3 + n, <<>>).b, size, ms)
      BY <2>1, <3>1, SpliceStructFit DEF StructFits
    <3> QED  BY <2>3, <3>2 DEF DelAt, n
  <2> QED  BY <2>2, <2>3
<1> HIDE DEF r
<1> QED  BY <1>1, <1>2, CheckedFit

\* fdt_add_subnode_namelen: an offset that is not a node is refused before anything is
\* inserted there.
LEMMA AddSubnodeFit ==
  ASSUME NEW size \in Nat, NEW ms \in Seq(Entry), FdtFit(b, size, ms), NEW parent \in Nat, NEW name \in Nat
  PROVE  FdtFit(fdt_add_subnode(parent, name).b, size, ms)
<1> DEFINE o == fdt_subnode_offset(b, parent, name)
           end == AfterProps(b)[fdt_next_tag(b, parent).next]
           new == <<FDT_BEGIN_NODE, name, FDT_END_NODE>>
           r == IF o >= 0 THEN Ret(Err.EXISTS, b) ELSE IF o # Err.NOTFOUND THEN Ret(o, b)
                ELSE SpliceStruct(b, end, 0, new)
<1>0. Sized(b) /\ Len(b.st) \in Nat
  BY FitSized
<1>1. fdt_add_subnode(parent, name) = Checked(b, r)
  BY DEF fdt_add_subnode
<1>2. o = Err.NOTFOUND => end \in 0 .. Len(b.st)
  <2>1. SUFFICES ASSUME o = Err.NOTFOUND PROVE end \in 0 .. Len(b.st)
    OBVIOUS
  <2> DEFINE x == Reached(parent, 0)
             F == SubnodeFrom(b, name)
  <2>2. x \in Place /\ x.off = parent /\ x.depth = 0
    BY DEF Reached, Place
  <2>3. F[x] = Err.NOTFOUND
    <3>1. fdt_check_header(b) \in {0, Err.BADVERSION}
      BY DEF fdt_check_header, FdtFit
    <3>2. o = After(fdt_check_header(b), F[x])
      BY DEF fdt_subnode_offset
    <3>3. Err.BADVERSION < 0 /\ Err.BADVERSION # Err.NOTFOUND
      BY DEF Err
    <3> DEFINE h == fdt_check_header(b)
               v == F[x]
    <3> HIDE DEF o, F, x, h, v
    <3>4. h \in {0, Err.BADVERSION} /\ o = IF h < 0 THEN h ELSE v
      BY <3>1, <3>2 DEF After, h, v
    <3>5. CASE h = Err.BADVERSION
      BY <2>1, <3>3, <3>4, <3>5
    <3>6. CASE h = 0
      <4>1. ~ (h < 0)
        BY <3>6
      <4> QED  BY <2>1, <3>4, <4>1 DEF v
    <3> QED  BY <3>4, <3>5, <3>6
  <2>4. fdt_check_node_offset(b, parent) = parent + 2 /\ parent + 2 <= Len(b.st) /\ Nxt(b, parent) = parent + 2
    <3>1. SUFFICES ASSUME fdt_check_node_offset(b, parent) = Err.BADOFFSET PROVE FALSE
      BY <1>0, NodeOffset
    <3>2. fdt_check_node_offset(b, parent) < 0
      BY <3>1, ErrorCodes
    <3> DEFINE y == fdt_next_node(b, parent, 0, TRUE)
    <3>3. y = [off |-> Err.BADOFFSET, depth |-> 0]
      BY <1>0, <3>2, NextNodeOf DEF Reached
    <3> HIDE DEF y
    <3>4. y \in Place /\ y.off = Err.BADOFFSET /\ ~ (y.depth < 0) /\ y.off < 0
      <4>1. Err.BADOFFSET \in Int /\ Err.BADOFFSET < 0
        BY ErrorCodes
      <4> QED  BY <3>3, <4>1 DEF Place
    <3>5. ~ SubnodeStops(b, name, x)
      <4> HIDE DEF x
      <4> QED  BY <2>2 DEF SubnodeStops
    <3>6. F[x] = F[y]
      <4>1. F[x] = F[fdt_next_node(b, x.off, x.depth, TRUE)]
        BY <1>0, <2>2, <3>5, SubnodeLoop
      <4> QED  BY <2>2, <4>1 DEF y
    <3>7. F[y] = y.off
      <4>1. SubnodeStops(b, name, y)
        BY <3>4 DEF SubnodeStops
      <4> QED  BY <1>0, <3>4, <4>1, SubnodeLoop
    <3>8. Err.BADOFFSET # Err.NOTFOUND
      BY DEF Err
    <3> HIDE DEF F, x
    <3> QED  BY <2>3, <3>4, <3>6, <3>7, <3>8
  <2>5. parent + 2 \in 0 .. Len(b.st)
    BY <1>0, <2>4
  <2>6. AfterProps(b)[parent + 2] \in 0 .. Len(b.st)
    BY <1>0, <2>5, AfterPropsRange
  <2> QED  BY <2>4, <2>6 DEF Nxt
<1> HIDE DEF o, end
<1>3. InOrder(b, ms) => FdtFit(r.b, size, ms)
  <2>1. SUFFICES ASSUME InOrder(b, ms) PROVE FdtFit(r.b, size, ms)
    OBVIOUS
  <2>2. CASE o >= 0
    BY <2>2 DEF Ret
  <2>3. CASE ~ (o >= 0) /\ o # Err.NOTFOUND
    BY <2>3 DEF Ret
  <2>4. CASE ~ (o >= 0) /\ o = Err.NOTFOUND
    <3>1. end \in Nat /\ 0 \in Nat /\ end + 0 <= Len(b.st)
      BY <1>0, <1>2, <2>4
    <3>2. new \in Seq(Nat)
      BY DEF FDT_BEGIN_NODE, FDT_END_NODE
    <3> HIDE DEF new
    <3>3. FdtFit(SpliceStruct(b, end, 0, new).b, size, ms)
      BY <2>1, <3>1, <3>2, SpliceStructFit DEF StructFits
    <3> QED  BY <2>4, <3>3
  <2> QED  BY <2>2, <2>3, <2>4
<1> HIDE DEF r
<1> QED  BY <1>1, <1>3, CheckedFit

\* fdt_del_node and fdt_nop_node: the end that _fdt_node_end_offset finds is inside the
\* block.
LEMMA DelNodeFit ==
  ASSUME NEW size \in Nat, NEW ms \in Seq(Entry), FdtFit(b, size, ms), NEW node \in Nat
  PROVE  FdtFit(fdt_del_node(node).b, size, ms) /\ FdtFit(fdt_nop_node(node).b, size, ms)
<1> DEFINE end == fdt_node_end_offset(b, node)
           r == IF end < 0 THEN Ret(end, b) ELSE SpliceStruct(b, node, end - node, <<>>)
<1>0. Sized(b) /\ Len(b.st) \in Nat
  BY FitSized
<1>1. fdt_del_node(node) = Checked(b, r)
  BY DEF fdt_del_node
<1>2. end \in Int /\ (end < 0 \/ (node < end /\ end <= Len(b.st)))
  BY <1>0, NodeEndRange
<1>3. fdt_nop_node(node) = IF end < 0 THEN Ret(end, b) ELSE Ret(0, Over(node, Nops(end - node)))
  BY DEF fdt_nop_node
<1> HIDE DEF end
<1>4. CASE end < 0
  <2>1. r.b = b /\ fdt_nop_node(node).b = b
    BY <1>3, <1>4 DEF Ret
  <2> HIDE DEF r
  <2> QED  BY <1>1, <2>1, CheckedFit
<1>5. CASE ~ (end < 0)
  <2>1. end - node \in Nat /\ node + (end - node) <= Len(b.st) /\ <<>> \in Seq(Nat)
    BY <1>0, <1>2, <1>5
  <2>2. InOrder(b, ms) => FdtFit(SpliceStruct(b, node, end - node, <<>>).b, size, ms)
    BY <2>1, SpliceStructFit DEF StructFits
  <2>3. InOrder(b, ms) => FdtFit(r.b, size, ms)
    BY <1>5, <2>2
  <2> HIDE DEF r
  <2>4. FdtFit(fdt_del_node(node).b, size, ms)
    BY <1>1, <2>3, CheckedFit
  <2> DEFINE new == Nops(end - node)
  <2>5. new \in Seq(Nat) /\ Len(new) = end - node
    BY <2>1, NopWords
  <2> HIDE DEF new
  <2>6. FdtFit(Over(node, new), size, ms)
    BY <2>1, <2>5, OverFit
  <2>7. fdt_nop_node(node).b = Over(node, new)
    BY <1>3, <1>5 DEF Ret, new
  <2> QED  BY <2>4, <2>6, <2>7
<1> QED  BY <1>4, <1>5

\* fdt_setprop_inplace and fdt_nop_property
LEMMA InplaceFit ==
  ASSUME NEW size \in Nat, NEW ms \in Seq(Entry), FdtFit(b, size, ms),
         NEW node \in Nat, NEW name \in Nat, NEW data \in Seq(Nat)
  PROVE  FdtFit(fdt_setprop_inplace(node, name, data).b, size, ms) /\ FdtFit(fdt_nop_property(node, name).b, size, ms)
<1> DEFINE p == fdt_get_property(b, node, name)
           n == PropLen(b, p)
<1>0. p \in Int /\ (p < 0 \/ (n \in Nat /\ p + 3 + n <= Len(b.st))) /\ Len(b.st) \in Nat
  BY FitSized, PropertyRange
<1>1. /\ fdt_setprop_inplace(node, name, data)
           = IF p < 0 THEN Ret(p, b) ELSE IF n # Len(data) THEN Ret(Err.NOSPACE, b) ELSE Ret(0, Over(p + 3, data))
      /\ fdt_nop_property(node, name) = IF p < 0 THEN Ret(p, b) ELSE Ret(0, Over(p, Nops(3 + n)))
  BY DEF fdt_setprop_inplace, fdt_nop_property
<1> HIDE DEF p, n
<1>2. CASE p < 0
  BY <1>1, <1>2 DEF Ret
<1>3. CASE ~ (p < 0)
  <2>1. p \in Nat /\ n \in Nat /\ 3 + n \in Nat /\ p + 3 \in Nat /\ p + (3 + n) <= Len(b.st) /\ (p + 3) + n <= Len(b.st)
    BY <1>0, <1>3
  <2>2. FdtFit(fdt_setprop_inplace(node, name, data).b, size, ms)
    <3>1. CASE n # Len(data)
      BY <1>1, <1>3, <3>1 DEF Ret
    <3>2. CASE n = Len(data)
      <4>1. FdtFit(Over(p + 3, data), size, ms)
        BY <2>1, <3>2, OverFit
      <4> QED  BY <1>1, <1>3, <3>2, <4>1 DEF Ret
    <3> QED  BY <3>1, <3>2
  <2> DEFINE new == Nops(3 + n)
  <2>3. new \in Seq(Nat) /\ Len(new) = 3 + n
    BY <2>1, NopWords
  <2> HIDE DEF new
  <2>4. FdtFit(Over(p, new), size, ms)
    BY <2>1, <2>3, OverFit
  <2>5. fdt_nop_property(node, name).b = Over(p, new)
    BY <1>1, <1>3 DEF Ret, new
  <2> QED  BY <2>2, <2>4, <2>5
<1> QED  BY <1>2, <1>3

-----------------------------------------------------------------------------
(* Unfinished blobs, and the calls that change the buffer.                  *)

\* What is known of the numbers of an unfinished blob.
LEMMA SwNumbers ==
  ASSUME NEW blob, NEW size, NEW ms, NEW op, NEW lost, SwFit(blob, size, ms, op, lost)
  PROVE  /\ blob \in Blob /\ blob.total \in Nat /\ blob.off_struct \in Nat /\ blob.off_strings \in Nat
         /\ blob.rsv \in Seq(Nat \X Nat) /\ blob.st \in Seq(Nat) /\ blob.strs \in Seq(Nat)
         /\ Len(blob.rsv) \in Nat /\ Len(blob.st) \in Nat /\ Len(blob.strs) \in Nat
<1>1. blob \in Blob
  BY DEF SwFit
<1> QED  BY ONLY <1>1 DEF Blob

\* fdt_create: the reserve map begins behind the header and is empty.
LEMMA CreateFit ==
  ASSUME NEW size \in Nat, NEW lost, NEW r, r = fdt_create(size)
  PROVE  \/ r.err < 0 /\ r.b = b
         \/ ~ (r.err < 0) /\ SwFit(r.b, size, <<>>, -1, lost)
<1>1. CASE size < HeaderWords
  BY <1>1, ErrorCodes DEF fdt_create, Ret
<1>2. CASE ~ (size < HeaderWords)
  <2> DEFINE c == [NoBlob EXCEPT !.magic = "sw", !.total = size, !.off_rsv = 12,
                                 !.off_struct = 12, !.off_strings = size]
  <2>1. r.err = 0 /\ r.b = c
    BY <1>2 DEF fdt_create, Ret, RsvStart
  <2>2. /\ c.version = 17 /\ c.magic = "sw" /\ c.total = size /\ c.off_rsv = 12 /\ c.off_struct = 12
        /\ c.rsv = <<>> /\ c.st = <<>> /\ c.strs = <<>>
    BY DEF NoBlob
  <2>3. c \in Blob
    <3>1. NoBlob \in Blob
      BY DEF Blob, NoBlob
    <3> QED  BY <3>1 DEF Blob
  <2> HIDE DEF c
  <2>4. c.off_struct = 12 + RsvWords * Len(c.rsv) /\ Len(c.st) = 0 /\ Len(c.strs) = 0
    BY <2>2 DEF RsvWords
  <2>5. c.off_struct + Len(c.st) + Len(c.strs) = 12 /\ c.off_struct + Len(c.strs) = 12 /\ c.total <= size
    BY <2>2, <2>4
  <2>6. SwFit(c, size, <<>>, -1, lost)
    <3>1. size >= 12 => 12 <= c.total
      BY <2>2
    <3>2. ~ (-1 > 0)
      OBVIOUS
    <3> QED  BY <2>2, <2>3, <2>4, <2>5, <3>1, <3>2 DEF SwFit
  <2> QED  BY <2>1, <2>6
<1> QED  BY <1>1, <1>2

\* The EXCEPT of ReserveEntry, of Grab, of SwString and of fdt_resize.
Widened(blob, v, o) == [blob EXCEPT !.rsv = v, !.off_struct = o]
IsWidened(r, blob, v, o) ==
  /\ r \in Blob /\ r.rsv = v /\ r.off_struct = o /\ r.st = blob.st /\ r.strs = blob.strs
  /\ r.off_rsv = blob.off_rsv /\ r.total = blob.total /\ r.version = blob.version /\ r.magic = blob.magic

\* A longer reserve map, and the structure block behind it.
LEMMA WithMap ==
  ASSUME NEW blob \in Blob, NEW v \in Seq(Nat \X Nat), NEW o \in Nat
  PROVE  IsWidened(Widened(blob, v, o), blob, v, o)
BY DEF Blob, Widened, IsWidened

Resized(blob, s, size) == [blob EXCEPT !.st = s, !.off_strings = size, !.total = size]
IsResized(r, blob, s, size) ==
  /\ r \in Blob /\ r.off_strings = size /\ r.total = size /\ r.rsv = blob.rsv /\ r.st = s
  /\ r.strs = blob.strs /\ r.off_rsv = blob.off_rsv /\ r.off_struct = blob.off_struct
  /\ r.version = blob.version /\ r.magic = blob.magic

\* The strings at the end of another buffer.
LEMMA WithSize ==
  ASSUME NEW blob \in Blob, NEW s \in Seq(Nat), NEW size \in Nat
  PROVE  IsResized(Resized(blob, s, size), blob, s, size)
BY DEF Blob, Resized, IsResized

\* A sequence with something appended.
LEMMA Appended ==
  ASSUME NEW S, NEW s \in Seq(S), NEW e \in S
  PROVE  /\ Append(s, e) \in Seq(S) /\ Len(Append(s, e)) = Len(s) + 1 /\ Append(s, e) # <<>>
         /\ Append(s, e)[Len(s) + 1] = e /\ \A i \in 1 .. Len(s) : Append(s, e)[i] = s[i]
<1> DEFINE v == Append(s, e)
<1>1. v \in Seq(S) /\ Len(v) = Len(s) + 1 /\ Len(s) \in Nat
  OBVIOUS
<1>2. v[Len(s) + 1] = e /\ \A i \in 1 .. Len(s) : v[i] = s[i]
  OBVIOUS
<1>3. v = <<>> => Len(v) = 0
  OBVIOUS
<1> HIDE DEF v
<1>4. v # <<>>
  BY <1>1, <1>3
<1> QED  BY <1>1, <1>2, <1>4 DEF v

\* fdt_add_reservemap_entry and fdt_finish_reservemap: an entry more in the map,
\* or an error and nothing done.
LEMMA ReserveFit ==
  ASSUME NEW blob, NEW size \in Nat, NEW ms \in Seq(Entry), NEW op \in Nat \cup {-1}, NEW lost,
         SwFit(blob, size, ms, op, lost), NEW e \in Nat \X Nat, NEW r, r = ReserveEntry(blob, e)
  PROVE  \/ r.err < 0 /\ r.b = blob
         \/ /\ ~ (r.err < 0) /\ r.b.rsv # <<>>
            /\ op = -1 /\ e \in Entry => SwFit(r.b, size, Append(ms, e), -1, lost)
            /\ op = -1 /\ e = <<0, 0>> => SwFit(r.b, size, ms, 0, lost)
            /\ op # -1 => op = 0 /\ SwFit(r.b, size, ms, op, lost)
<1>0. /\ blob \in Blob /\ blob.total \in Nat /\ blob.off_struct \in Nat /\ blob.rsv \in Seq(Nat \X Nat)
      /\ Len(blob.rsv) \in Nat /\ blob.st \in Seq(Nat) /\ Len(blob.st) \in Nat /\ Len(ms) \in Nat
  BY SwNumbers
<1>1. /\ blob.version = 17 /\ blob.magic = "sw" /\ blob.total <= size /\ blob.off_rsv = 12
      /\ blob.off_struct = 12 + RsvWords * Len(blob.rsv)
  BY DEF SwFit
<1> DEFINE v == Append(blob.rsv, e)
           o == blob.off_struct + RsvWords
           c == Widened(blob, v, o)
<1>2. CASE Len(blob.st) # 0
  <2>1. r = Ret(Err.BADSTATE, blob)
    BY <1>2 DEF ReserveEntry
  <2> QED  BY <2>1, ErrorCodes DEF Ret
<1>3. CASE Len(blob.st) = 0 /\ blob.off_struct + RsvWords > blob.total
  <2>1. r = Ret(Err.NOSPACE, blob)
    BY <1>3 DEF ReserveEntry
  <2> QED  BY <2>1, ErrorCodes DEF Ret
<1>4. CASE Len(blob.st) = 0 /\ ~ (blob.off_struct + RsvWords > blob.total)
  <2>1. r = Ret(0, c)
    BY <1>4 DEF ReserveEntry, Widened
  <2>2. v \in Seq(Nat \X Nat) /\ Len(v) = Len(blob.rsv) + 1 /\ v # <<>> /\ v[Len(blob.rsv) + 1] = e
        /\ \A i \in 1 .. Len(blob.rsv) : v[i] = blob.rsv[i]
    <3> DEFINE S == Nat \X Nat
    <3>1. blob.rsv \in Seq(S) /\ e \in S
      BY <1>0
    <3> HIDE DEF S
    <3>2. v \in Seq(S) /\ Len(v) = Len(blob.rsv) + 1 /\ v # <<>> /\ v[Len(blob.rsv) + 1] = e
          /\ \A i \in 1 .. Len(blob.rsv) : v[i] = blob.rsv[i]
      BY <3>1, Appended
    <3> QED  BY <3>2 DEF S
  <2>3. o \in Nat /\ o = 12 + RsvWords * Len(v) /\ o <= blob.total /\ 12 <= size
    <3> DEFINE n == Len(blob.rsv)
               y == blob.off_struct
               z == blob.total
    <3>1. n \in Nat /\ y \in Nat /\ z \in Nat /\ y = 12 + 4 * n /\ ~ (y + 4 > z) /\ z <= size /\ Len(v) = n + 1
      BY <1>0, <1>1, <1>4, <2>2 DEF RsvWords
    <3> HIDE DEF n, y, z, v
    <3>2. y + 4 \in Nat /\ y + 4 = 12 + 4 * (n + 1) /\ y + 4 <= z /\ 12 <= size
      BY <3>1
    <3> QED  BY <3>1, <3>2 DEF RsvWords, y, z
  <2>3a. blob.st = <<>> /\ blob.strs = <<>>
    <3>1. blob.st = <<>>
      BY <1>0, <1>4, EmptySeq
    <3> QED  BY <3>1 DEF SwFit
  <2> HIDE DEF v, o
  <2>4. IsWidened(c, blob, v, o)
    BY <1>0, <2>2, <2>3, WithMap
  <2> HIDE DEF c
  <2>5. /\ c \in Blob /\ c.version = 17 /\ c.magic = "sw" /\ c.total = blob.total /\ c.off_rsv = 12 /\ c.off_struct = o
        /\ c.rsv = v /\ c.st = <<>> /\ c.strs = <<>>
    BY <1>1, <2>3a, <2>4 DEF IsWidened
  <2>6. c.off_struct + Len(c.st) + Len(c.strs) <= c.total /\ c.off_struct + Len(c.strs) <= c.total
    <3>1. Len(<<>>) = 0
      OBVIOUS
    <3> QED  BY <2>3, <2>5, <3>1
  <2>7. ~ (size < 12) /\ ~ (-1 > 0) /\ ~ (0 > 0) /\ 0 # -1
    BY <2>3
  <2>8. ASSUME op = -1, e \in Entry PROVE SwFit(c, size, Append(ms, e), -1, lost)
    <3>1. v = Append(ms, e)
      BY <2>8 DEF SwFit, v
    <3> QED  BY <1>1, <2>3, <2>5, <2>6, <2>7, <3>1 DEF SwFit
  <2>9. ASSUME op = -1, e = <<0, 0>> PROVE SwFit(c, size, ms, 0, lost)
    <3>1. blob.rsv = ms
      BY <2>9 DEF SwFit
    <3>2. <<0, 0>>[2] = 0
      OBVIOUS
    <3>3. Len(ms) + 1 <= Len(v) /\ v[Len(ms) + 1][2] = 0 /\ \A i \in 1 .. Len(ms) : v[i] = ms[i]
      BY <1>0, <2>2, <2>9, <3>1, <3>2
    <3>4. RsvHolds(c, ms)
      BY <2>5, <3>3 DEF RsvHolds
    <3> QED  BY <1>1, <2>3, <2>5, <2>6, <2>7, <3>4 DEF SwFit
  <2>10. ASSUME op # -1 PROVE op = 0 /\ SwFit(c, size, ms, op, lost)
    <3>1. op = 0
      <4>1. ~ (op > 0)
        BY <2>3a DEF SwFit
      <4> QED  BY <2>10, <4>1
    <3>2. "early" \in lost \/ RsvHolds(blob, ms)
      BY <2>10 DEF SwFit
    <3>3. RsvHolds(blob, ms) => RsvHolds(c, ms)
      <4>1. SUFFICES ASSUME RsvHolds(blob, ms) PROVE RsvHolds(c, ms)
        OBVIOUS
      <4>2. Len(ms) + 1 <= Len(blob.rsv) /\ Len(ms) + 1 <= Len(v) /\ Len(ms) + 1 \in 1 .. Len(blob.rsv)
        <5> DEFINE m == Len(ms)
                   n == Len(blob.rsv)
                   l == Len(v)
        <5>1. m \in Nat /\ n \in Nat /\ m + 1 <= n /\ l = n + 1
          BY <1>0, <2>2, <4>1 DEF RsvHolds
        <5> HIDE DEF m, n, l
        <5>2. m + 1 <= n /\ m + 1 <= l /\ m + 1 \in 1 .. n
          BY <5>1
        <5> QED  BY <5>2 DEF m, n, l
      <4>3. \A i \in 1 .. Len(ms) : i \in 1 .. Len(blob.rsv)
        BY <1>0, <4>2
      <4> QED  BY <2>2, <2>5, <4>1, <4>2, <4>3 DEF RsvHolds
    <3> QED  BY <1>1, <2>3, <2>5, <2>6, <2>7, <3>1, <3>2, <3>3 DEF SwFit
  <2>11. r.err = 0 /\ r.b = c
    BY <2>1 DEF Ret
  <2> QED  BY <2>2, <2>5, <2>8, <2>9, <2>10, <2>11
<1> QED  BY <1>2, <1>3, <1>4

\* _fdt_grab_space: the words are behind the block and before the strings, in a
\* buffer that holds the padded header.  more nodes are open then.
LEMMA GrabFit ==
  ASSUME NEW blob, NEW size \in Nat, NEW ms, NEW op, NEW lost, SwFit(blob, size, ms, op, lost),
         NEW words \in Seq(Nat), Len(words) > 0, NEW more \in Nat, NEW then,
         "early" \in then \/ RsvHolds(blob, ms), NEW r, r = Grab(blob, words)
  PROVE  \/ r.err < 0 /\ r.b = blob
         \/ /\ r.err = 0 /\ SwFit(r.b, size, ms, more, then)
            /\ size >= 12 => r.b.off_struct + Len(r.b.st) + Len(r.b.strs) <= r.b.total
<1>0. /\ blob \in Blob /\ blob.total \in Nat /\ blob.off_struct \in Nat /\ blob.st \in Seq(Nat)
      /\ Len(blob.st) \in Nat /\ Len(blob.strs) \in Nat
  BY SwNumbers
<1> DEFINE s == blob.st \o words
           c == Refill(blob, s)
           L == Len(blob.st)
           W == Len(words)
           T == Len(blob.strs)
           left == blob.total - blob.off_struct - T
<1>1. W \in Nat
  OBVIOUS
<1>2. CASE left >= 0 /\ L + W > left
  <2>1. r = Ret(Err.NOSPACE, blob)
    BY <1>2 DEF Grab
  <2> QED  BY <2>1, ErrorCodes DEF Ret
<1>3. CASE ~ (left >= 0 /\ L + W > left)
  <2>1. r = Ret(0, c)
    BY <1>3 DEF Grab, Refill
  <2>2. s \in Seq(Nat) /\ Len(s) = L + W
    BY <1>0
  <2>2a. s # <<>>
    <3>1. s = <<>> => Len(s) = 0
      OBVIOUS
    <3>2. L + W > 0
      BY <1>0, <1>1
    <3> HIDE DEF s, L, W
    <3> QED  BY <2>2, <3>1, <3>2
  <2> HIDE DEF s
  <2>3. IsRefill(c, blob, s)
    BY <1>0, <2>2, WithWords
  <2> HIDE DEF c
  <2>4. size >= 12 => c.off_struct + Len(c.st) + Len(c.strs) <= c.total /\ c.off_struct + Len(c.strs) <= c.total
    <3>0. SUFFICES ASSUME size >= 12
          PROVE  c.off_struct + Len(c.st) + Len(c.strs) <= c.total /\ c.off_struct + Len(c.strs) <= c.total
      OBVIOUS
    <3>1. c.off_struct = blob.off_struct /\ Len(c.st) = L + W /\ Len(c.strs) = T /\ c.total = blob.total
      BY <2>2, <2>3 DEF IsRefill
    <3>2. L \in Nat /\ T \in Nat /\ blob.total \in Nat /\ blob.off_struct \in Nat /\ blob.off_struct + T <= blob.total
      BY <1>0, <3>0 DEF SwFit
    <3> HIDE DEF L, W, T
    <3> QED  BY <1>1, <1>3, <3>1, <3>2
  <2>5. SwFit(c, size, ms, more, then)
    <3>1. c \in Blob /\ c.version = blob.version /\ c.magic = blob.magic /\ c.total = blob.total
          /\ c.off_rsv = blob.off_rsv /\ c.off_struct = blob.off_struct /\ c.rsv = blob.rsv /\ c.strs = blob.strs
          /\ c.st # <<>>
      BY <2>2a, <2>3 DEF IsRefill
    <3>2. more # -1
      OBVIOUS
    <3>3. "early" \in then \/ RsvHolds(c, ms)
      <4>1. RsvHolds(blob, ms) => RsvHolds(c, ms)
        BY <3>1 DEF RsvHolds
      <4> QED  BY <4>1
    <3>4. /\ blob.version = 17 /\ blob.magic = "sw" /\ blob.total <= size
          /\ blob.off_rsv = 12 /\ blob.off_struct = 12 + RsvWords * Len(blob.rsv)
          /\ size < 12 => blob.rsv = <<>> /\ blob.strs = <<>>
      BY DEF SwFit
    <3> QED  BY <2>4, <3>1, <3>2, <3>3, <3>4 DEF SwFit
  <2>6. r.err = 0 /\ r.b = c
    BY <2>1 DEF Ret
  <2> QED  BY <2>4, <2>5, <2>6
<1> QED  BY <1>2, <1>3

\* _fdt_find_add_string of fdt_sw.c
LEMMA SwStringFit ==
  ASSUME NEW blob, NEW size \in Nat, NEW ms, NEW op \in Nat, op > 0, NEW lost, SwFit(blob, size, ms, op, lost),
         NEW name \in Nat, NEW r, r = SwString(blob, name)
  PROVE  r.err \in Int /\ SwFit(r.b, size, ms, op, lost)
<1>0. /\ blob \in Blob /\ blob.total \in Nat /\ blob.off_struct \in Nat /\ blob.strs \in Seq(Nat)
      /\ Len(blob.st) \in Nat /\ Len(blob.strs) \in Nat
  BY SwNumbers
<1> DEFINE f == fdt_find_string(blob, name)
           v == <<name>> \o blob.strs
           c == [blob EXCEPT !.strs = v]
           T == Len(blob.strs)
           room == blob.total - T - 1 < blob.off_struct + Len(blob.st)
<1>1. f \in Nat
  BY <1>0, FindStringRange
<1>2. CASE f # 0
  <2>1. r = Ret(f - 1 - T, blob)
    BY <1>2 DEF SwString
  <2> HIDE DEF f
  <2>2. f - 1 - T \in Int
    BY <1>0, <1>1
  <2> QED  BY <2>1, <2>2 DEF Ret
<1>3. CASE f = 0 /\ room
  <2>1. r = Ret(0, blob)
    BY <1>3 DEF SwString
  <2> QED  BY <2>1 DEF Ret
<1>4. CASE f = 0 /\ ~ room
  <2>1. r = Ret(- T - 1, c)
    BY <1>4 DEF SwString
  <2>2. v \in Seq(Nat) /\ Len(v) = 1 + T
    BY <1>0
  <2> HIDE DEF v
  <2>3. IsRestrs(c, blob, v)
    BY <1>0, <2>2, WithStrings
  <2> HIDE DEF c
  <2>4. c.off_struct + Len(c.st) + Len(c.strs) <= c.total
    <3> DEFINE L == Len(blob.st)
    <3>1. c.off_struct = blob.off_struct /\ Len(c.st) = L /\ Len(c.strs) = 1 + T /\ c.total = blob.total
      BY <2>2, <2>3 DEF IsRestrs
    <3>2. L \in Nat /\ T \in Nat /\ blob.total \in Nat /\ blob.off_struct \in Nat
      BY <1>0
    <3>3. ~ (blob.total - T - 1 < blob.off_struct + L)
      BY <1>4
    <3> HIDE DEF L, T
    <3> QED  BY <3>1, <3>2, <3>3
  <2>5. SwFit(c, size, ms, op, lost)
    <3>1. c \in Blob /\ c.version = blob.version /\ c.magic = blob.magic /\ c.total = blob.total
          /\ c.off_rsv = blob.off_rsv /\ c.off_struct = blob.off_struct /\ c.rsv = blob.rsv /\ c.st = blob.st
      BY <2>3 DEF IsRestrs
    <3>2. op # -1 /\ blob.st # <<>>
      BY DEF SwFit
    <3>3. RsvHolds(blob, ms) => RsvHolds(c, ms)
      BY <3>1 DEF RsvHolds
    <3>4. ~ (size < 12)
      <4>1. blob.total <= size /\ blob.off_struct = 12 + 4 * Len(blob.rsv) /\ Len(blob.rsv) \in Nat
        BY SwNumbers DEF SwFit, RsvWords
      <4> DEFINE L == Len(blob.st)
                 n == Len(blob.rsv)
                 y == blob.off_struct
                 z == blob.total
      <4>2. L \in Nat /\ T \in Nat /\ n \in Nat /\ z \in Nat /\ y = 12 + 4 * n /\ z <= size /\ ~ (z - T - 1 < y + L)
        BY <1>0, <1>4, <4>1
      <4> HIDE DEF L, T, n, y, z
      <4> QED  BY <4>2
    <3>5. c.off_struct + Len(c.strs) <= c.total
      <4> DEFINE x == Len(c.strs)
                 l == Len(c.st)
      <4>1. x \in Nat /\ l \in Nat /\ c.off_struct \in Nat /\ c.total \in Nat
        BY <1>0, <2>2, <2>3, <3>1 DEF IsRestrs
      <4>2. c.off_struct + l + x <= c.total
        BY <2>4
      <4> HIDE DEF x, l
      <4>3. c.off_struct + x <= c.total
        BY <4>1, <4>2
      <4> QED  BY <4>3 DEF x
    <3>6. /\ blob.version = 17 /\ blob.magic = "sw" /\ blob.total <= size
          /\ blob.off_rsv = 12 /\ blob.off_struct = 12 + RsvWords * Len(blob.rsv)
          /\ "early" \in lost \/ RsvHolds(blob, ms)
      BY <3>2 DEF SwFit
    <3> QED  BY <2>4, <3>1, <3>2, <3>3, <3>4, <3>5, <3>6 DEF SwFit
  <2>6. - T - 1 \in Int
    BY <1>0
  <2>7. r.err = - T - 1 /\ r.b = c
    BY <2>1 DEF Ret
  <2> QED  BY <2>5, <2>6, <2>7
<1> QED  BY <1>2, <1>3, <1>4

\* fdt_property: the name may stay in the table when there is no room for the rest.
LEMMA PropertyFit ==
  ASSUME NEW blob, NEW size \in Nat, NEW ms, NEW op \in Nat, op > 0, NEW lost, SwFit(blob, size, ms, op, lost),
         NEW name \in Nat, NEW data \in Seq(Nat)
  PROVE  SwFit(fdt_property(blob, name, data).b, size, ms, op, lost)
<1> DEFINE s == SwString(blob, name)
           words == <<FDT_PROP, Len(data), s.err % WordSpace>> \o data
           r == Grab(s.b, words)
<1>1. s.err \in Int /\ SwFit(s.b, size, ms, op, lost)
  BY SwStringFit
<1>2. fdt_property(blob, name, data) = IF s.err = 0 THEN Ret(Err.NOSPACE, blob) ELSE r
  BY DEF fdt_property
<1> HIDE DEF s
<1>3. s.err % WordSpace \in Nat
  BY <1>1, NamesAssumption
<1>4. words \in Seq(Nat) /\ Len(words) > 0
  <2> DEFINE h == <<FDT_PROP, Len(data), s.err % WordSpace>>
  <2>1. h \in Seq(Nat) /\ Len(h) = 3
    BY <1>3 DEF FDT_PROP
  <2> HIDE DEF h
  <2>2. h \o data \in Seq(Nat) /\ Len(h \o data) = Len(h) + Len(data)
    BY <2>1, Joined
  <2> DEFINE L == Len(data)
             x == h \o data
  <2>3. L \in Nat /\ Len(x) = 3 + L
    BY <2>1, <2>2
  <2> HIDE DEF L, x
  <2>4. Len(x) > 0
    BY <2>3
  <2> QED  BY <2>2, <2>4 DEF h, x
<1> HIDE DEF words
<1>5. "early" \in lost \/ RsvHolds(s.b, ms)
  <2>1. op # -1
    OBVIOUS
  <2> QED  BY <1>1, <2>1 DEF SwFit
<1>6. (r.err < 0 /\ r.b = s.b) \/ SwFit(r.b, size, ms, op, lost)
  BY <1>1, <1>4, <1>5, GrabFit
<1>7. SwFit(r.b, size, ms, op, lost)
  BY <1>1, <1>6
<1> HIDE DEF r
<1> QED  BY <1>2, <1>7 DEF Ret

\* The strings over the structure block, or behind it.
LEMMA OverlaidWords ==
  ASSUME NEW blob \in Blob, NEW size \in Nat
  PROVE  Overlaid(blob, size) \in Seq(Nat) /\ Len(Overlaid(blob, size)) = Len(blob.st)
<1> DEFINE s == blob.st
           u == blob.strs
           place(i) == blob.off_struct + i - (size - Len(u))
           t == [i \in DOMAIN s |-> IF place(i) \in 1 .. Len(u) THEN u[place(i)] ELSE s[i]]
<1>0. s \in Seq(Nat) /\ u \in Seq(Nat)
  BY DEF Blob
<1>1. Overlaid(blob, size) = t
  BY DEF Overlaid
<1> HIDE DEF s, u
<1>2. DOMAIN s = 1 .. Len(s) /\ Len(s) \in Nat /\ (\A i \in 1 .. Len(s) : s[i] \in Nat)
      /\ \A i \in 1 .. Len(u) : u[i] \in Nat
  BY <1>0
<1> HIDE DEF place
<1>3. t \in [1 .. Len(s) -> Nat]
  BY <1>2
<1> HIDE DEF t
<1>4. t \in Seq(Nat) /\ Len(t) = Len(s)
  BY <1>2, <1>3
<1> QED  BY <1>1, <1>4 DEF s

\* fdt_resize in place: the blocks overlap if the structure block was not given room.
LEMMA ResizedFit ==
  ASSUME NEW blob, NEW old, NEW ms, NEW op, NEW lost, SwFit(blob, old, ms, op, lost), NEW size \in Nat,
         blob.off_struct + Len(blob.strs) <= size, NEW then, lost \subseteq then,
         blob.off_struct + Len(blob.st) + Len(blob.strs) <= size \/ "shrunk" \in then
  PROVE  SwFit(Resized(blob, Overlaid(blob, size), size), size, ms, op, then)
<1> DEFINE s == Overlaid(blob, size)
           c == Resized(blob, s, size)
<1>0. s \in Seq(Nat) /\ Len(s) = Len(blob.st) /\ blob \in Blob /\ blob.st \in Seq(Nat) /\ Len(blob.strs) \in Nat
      /\ blob.off_struct \in Nat /\ Len(blob.rsv) \in Nat
  BY SwNumbers, OverlaidWords
<1>0a. s = <<>> <=> blob.st = <<>>
  <2> HIDE DEF s
  <2>1. s = <<>> <=> Len(s) = 0
    BY <1>0, EmptySeq
  <2>2. blob.st = <<>> <=> Len(blob.st) = 0
    BY <1>0, EmptySeq
  <2> QED  BY <1>0, <2>1, <2>2
<1> HIDE DEF s
<1>1. IsResized(c, blob, s, size)
  BY <1>0, WithSize
<1> HIDE DEF c
<1>2. /\ c \in Blob /\ c.total = size /\ c.rsv = blob.rsv /\ Len(c.st) = Len(blob.st) /\ c.strs = blob.strs
      /\ c.off_rsv = blob.off_rsv /\ c.off_struct = blob.off_struct /\ (c.st = <<>> <=> blob.st = <<>>)
      /\ c.version = blob.version /\ c.magic = blob.magic
  BY <1>0, <1>0a, <1>1 DEF IsResized
<1>3. /\ blob.off_rsv = 12 /\ blob.off_struct = 12 + RsvWords * Len(blob.rsv)
      /\ blob.version = 17 /\ blob.magic = "sw"
      /\ blob.st = <<>> => blob.strs = <<>>
      /\ op = -1 => blob.rsv = ms /\ blob.st = <<>>
      /\ op > 0 => blob.st # <<>>
      /\ op # -1 => "early" \in lost \/ RsvHolds(blob, ms)
  BY DEF SwFit
<1>4. ~ (size < 12)
  <2> DEFINE n == Len(blob.rsv)
             y == blob.off_struct
             T == Len(blob.strs)
  <2>1. n \in Nat /\ T \in Nat /\ y = 12 + 4 * n /\ y + T <= size
    BY <1>0, <1>3 DEF RsvWords
  <2> HIDE DEF n, y, T
  <2> QED  BY <2>1
<1>5. RsvHolds(blob, ms) => RsvHolds(c, ms)
  BY <1>2 DEF RsvHolds
<1>6. c.total <= size /\ c.off_struct + Len(c.strs) <= c.total
      /\ ("shrunk" \in then \/ c.off_struct + Len(c.st) + Len(c.strs) <= c.total)
  BY <1>2
<1>7. op # -1 => "early" \in then \/ RsvHolds(c, ms)
  BY <1>3, <1>5
<1>8. SwFit(c, size, ms, op, then)
  BY <1>2, <1>3, <1>4, <1>6, <1>7 DEF SwFit
<1> QED  BY <1>8 DEF c, s

\* The last EXCEPT of fdt_finish.
Sealed(blob, total) == [blob EXCEPT !.magic = "fdt", !.total = total]
IsSealed(r, blob, total) ==
  /\ r \in Blob /\ r.magic = "fdt" /\ r.total = total /\ r.st = blob.st /\ r.off_strings = blob.off_strings
  /\ r.rsv = blob.rsv /\ r.strs = blob.strs /\ r.off_rsv = blob.off_rsv /\ r.off_struct = blob.off_struct
  /\ r.version = blob.version

\* A finished header.
LEMMA WithSeal ==
  ASSUME NEW blob \in Blob, NEW total \in Nat
  PROVE  IsSealed(Sealed(blob, total), blob, total)
BY DEF Blob, Sealed, IsSealed

\* The offsets of the names change, and nothing moves in the structure block.
LEMMA Renamed ==
  ASSUME NEW s \in Seq(Nat), NEW names, NEW n \in Nat
  PROVE  LET t == [i \in DOMAIN s |-> IF i \in names THEN (s[i] + n) % WordSpace ELSE s[i]]
         IN  t \in Seq(Nat) /\ Len(t) = Len(s)
<1> DEFINE t == [i \in DOMAIN s |-> IF i \in names THEN (s[i] + n) % WordSpace ELSE s[i]]
<1>0. DOMAIN s = 1 .. Len(s) /\ Len(s) \in Nat
  OBVIOUS
<1>1. \A x \in Nat : (x + n) % WordSpace \in Nat
  BY NamesAssumption
<1>2. ASSUME NEW i \in 1 .. Len(s) PROVE (IF i \in names THEN (s[i] + n) % WordSpace ELSE s[i]) \in Nat
  <2>1. s[i] \in Nat
    BY <1>0
  <2> QED  BY <1>1, <2>1
<1>3. t \in [1 .. Len(s) -> Nat]
  BY <1>0, <1>2
<1> HIDE DEF t
<1>4. t \in Seq(Nat) /\ Len(t) = Len(s)
  BY <1>0, <1>3
<1> QED  BY <1>4 DEF t

\* fdt_finish: the strings come down behind the structure block.  A structure block that
\* does not end with FDT_END would leave the blob unfinished.
LEMMA FinishFit ==
  ASSUME NEW blob, NEW size \in Nat, NEW ms \in Seq(Entry), NEW lost, SwFit(blob, size, ms, 0, lost),
         NEW r, r = fdt_finish(blob)
  PROVE  \/ r.err < 0 /\ SwFit(r.b, size, ms, 0, lost)
         \/ ~ (r.err < 0) /\ StrayFit(r.b, size) /\ (lost = {} => FdtFit(r.b, size, ms))
<1> DEFINE g == Grab(blob, <<FDT_END>>)
           names == {off + 3 : off \in PropsFrom(g.b)[0]}
           end == TokensEnd(g.b)[0]
           n == Len(g.b.strs)
           top == g.b.off_struct + Len(g.b.st)
           total == top + n
           s == [i \in DOMAIN g.b.st |-> IF i \in names THEN (g.b.st[i] + n) % WordSpace ELSE g.b.st[i]]
           d == Restruct(g.b, s, top)
           c == Sealed(d, total)
<1>1. r = IF g.err < 0 THEN g ELSE IF end < 0 THEN Ret(end, d) ELSE Ret(0, c)
  <2>1. [g.b EXCEPT !.off_strings = top, !.st = s] = [g.b EXCEPT !.st = s, !.off_strings = top]
    OBVIOUS
  <2> QED  BY <2>1 DEF fdt_finish, Sealed, Restruct
<1>2. <<FDT_END>> \in Seq(Nat) /\ Len(<<FDT_END>>) > 0
  BY DEF FDT_END
<1>3. \/ g.err < 0 /\ g.b = blob
      \/ /\ ~ (g.err < 0) /\ SwFit(g.b, size, ms, 0, lost)
         /\ size >= 12 => g.b.off_struct + Len(g.b.st) + Len(g.b.strs) <= g.b.total
  <2>1. 0 # -1 /\ 0 \in Nat
    OBVIOUS
  <2>2. "early" \in lost \/ RsvHolds(blob, ms)
    BY <2>1 DEF SwFit
  <2> DEFINE words == <<FDT_END>>
  <2>3. g = Grab(blob, words) /\ words \in Seq(Nat) /\ Len(words) > 0
    BY <1>2
  <2> HIDE DEF words, g
  <2>4. \/ g.err < 0 /\ g.b = blob
        \/ /\ g.err = 0 /\ SwFit(g.b, size, ms, 0, lost)
           /\ size >= 12 => g.b.off_struct + Len(g.b.st) + Len(g.b.strs) <= g.b.total
    BY <2>1, <2>2, <2>3, GrabFit
  <2>5. g.err = 0 => ~ (g.err < 0)
    OBVIOUS
  <2> QED  BY <2>4, <2>5
<1> HIDE DEF g, end
<1>4. CASE g.err < 0
  BY <1>1, <1>3, <1>4
<1>5. CASE ~ (g.err < 0)
  <2>1. SwFit(g.b, size, ms, 0, lost)
    BY <1>3, <1>5
  <2>2. /\ g.b \in Blob /\ g.b.total \in Nat /\ g.b.off_struct \in Nat /\ g.b.st \in Seq(Nat)
        /\ Len(g.b.st) \in Nat /\ n \in Nat /\ Len(g.b.rsv) \in Nat
    BY <2>1, SwNumbers
  <2>3. /\ g.b.version = 17 /\ g.b.total <= size /\ g.b.off_rsv = 12
        /\ g.b.off_struct = 12 + RsvWords * Len(g.b.rsv) /\ g.b.magic = "sw"
        /\ size < 12 => g.b.rsv = <<>> /\ g.b.strs = <<>>
        /\ "early" \in lost \/ RsvHolds(g.b, ms)
    <3>1. 0 # -1
      OBVIOUS
    <3> QED  BY <2>1, <3>1 DEF SwFit
  <2>4. top \in Nat /\ total \in Nat /\ (size >= 12 => total <= g.b.total)
    <3>1. size >= 12 => g.b.off_struct + Len(g.b.st) + n <= g.b.total
      BY <1>3, <1>5
    <3> DEFINE L == Len(g.b.st)
               y == g.b.off_struct
               z == g.b.total
    <3>2. L \in Nat /\ y \in Nat /\ z \in Nat /\ n \in Nat /\ (size >= 12 => y + L + n <= z)
      BY <2>2, <3>1
    <3> HIDE DEF n, L, y, z
    <3>3. y + L \in Nat /\ (y + L) + n \in Nat /\ (size >= 12 => (y + L) + n <= z)
      BY <3>2
    <3> QED  BY <3>3 DEF L, y, z
  <2>5. s \in Seq(Nat) /\ Len(s) = Len(g.b.st)
    <3> DEFINE w == g.b.st
    <3>1. w \in Seq(Nat) /\ n \in Nat
      BY <2>2
    <3> HIDE DEF w, n, names
    <3>2. LET t == [i \in DOMAIN w |-> IF i \in names THEN (w[i] + n) % WordSpace ELSE w[i]]
          IN  t \in Seq(Nat) /\ Len(t) = Len(w)
      BY <3>1, Renamed
    <3> QED  BY <3>2 DEF w
  <2>6. s = <<>> <=> g.b.st = <<>>
    <3> HIDE DEF s
    <3>1. s = <<>> <=> Len(s) = 0
      BY <2>5, EmptySeq
    <3>2. g.b.st = <<>> <=> Len(g.b.st) = 0
      BY <2>2, EmptySeq
    <3> QED  BY <2>5, <3>1, <3>2
  <2> HIDE DEF s, n
  <2>7. IsRestruct(d, g.b, s, top)
    <3> HIDE DEF top
    <3> QED  BY <2>2, <2>4, <2>5, WithStruct
  <2>7a. IsSealed(c, d, total)
    <3>1. d \in Blob
      BY <2>7 DEF IsRestruct
    <3> HIDE DEF d, total
    <3> QED  BY <2>4, <3>1, WithSeal
  <2> HIDE DEF c, d
  <2>7b. CASE end < 0
    <3>1. SwFit(d, size, ms, 0, lost)
      <4>1. d \in Blob /\ d.version = g.b.version /\ d.magic = g.b.magic /\ d.total = g.b.total
            /\ d.off_rsv = g.b.off_rsv /\ d.off_struct = g.b.off_struct /\ d.rsv = g.b.rsv /\ d.strs = g.b.strs
            /\ Len(d.st) = Len(g.b.st) /\ (d.st = <<>> <=> g.b.st = <<>>)
        BY <2>5, <2>6, <2>7 DEF IsRestruct
      <4>2. 0 # -1 /\ ~ (0 > 0)
        OBVIOUS
      <4>3. RsvHolds(g.b, ms) => RsvHolds(d, ms)
        BY <4>1 DEF RsvHolds
      <4>4. /\ size >= 12 => g.b.off_struct + Len(g.b.strs) <= g.b.total
            /\ size >= 12 => "shrunk" \in lost \/ g.b.off_struct + Len(g.b.st) + Len(g.b.strs) <= g.b.total
            /\ g.b.st = <<>> => g.b.strs = <<>>
        BY <2>1 DEF SwFit
      <4> QED  BY <2>3, <4>1, <4>2, <4>3, <4>4 DEF SwFit
    <3>2. r.err = end /\ r.b = d
      BY <1>1, <1>5, <2>7b DEF Ret
    <3> QED  BY <2>7b, <3>1, <3>2
  <2>8. /\ c \in Blob /\ c.magic = "fdt" /\ c.off_strings = top /\ c.total = total /\ c.st = s
        /\ c.rsv = g.b.rsv /\ c.strs = g.b.strs /\ c.off_rsv = 12 /\ c.off_struct = g.b.off_struct /\ c.version = 17
    BY <2>3, <2>7, <2>7a DEF IsSealed, IsRestruct
  <2>9. DataSize(c) = total /\ (size >= 12 => c.total <= size) /\ c.off_struct + Len(c.st) <= c.off_strings
        /\ DataSize(c) <= c.total
    <3>1. DataSize(c) = total
      BY <2>8 DEF DataSize, n
    <3>2. size >= 12 => total <= size
      <4> HIDE DEF total
      <4> QED  BY <2>2, <2>3, <2>4
    <3>3. c.off_struct + Len(c.st) = top
      BY <2>5, <2>8
    <3> HIDE DEF top, total
    <3>4. top <= top /\ total <= total
      BY <2>4
    <3> QED  BY <2>8, <3>1, <3>2, <3>3, <3>4
  <2>10. StrayFit(c, size)
    BY <2>8, <2>9 DEF StrayFit
  <2>11. ASSUME lost = {} PROVE FdtFit(c, size, ms)
    <3>1. RsvHolds(g.b, ms)
      BY <2>3, <2>11
    <3>2. Len(ms) + 1 <= Len(g.b.rsv) /\ Len(ms) \in Nat
      BY <3>1 DEF RsvHolds
    <3>3. ~ (size < 12)
      <4>1. Len(<<>>) = 0
        OBVIOUS
      <4> QED  BY <2>3, <3>2, <4>1
    <3>4. RsvHolds(c, ms)
      BY <2>8, <3>1 DEF RsvHolds
    <3>5. c.off_rsv >= HeaderWords /\ c.off_rsv + RsvWords * (Len(ms) + 1) <= c.off_struct
      <4> DEFINE M == Len(ms)
                 R == Len(g.b.rsv)
      <4>1. M \in Nat /\ R \in Nat /\ M + 1 <= R
        BY <2>2, <3>2
      <4>2. c.off_rsv = 12 /\ c.off_struct = 12 + 4 * R
        BY <2>3, <2>8 DEF RsvWords
      <4> HIDE DEF M, R
      <4>3. c.off_rsv >= 10 /\ c.off_rsv + 4 * (M + 1) <= c.off_struct
        BY <4>1, <4>2
      <4> QED  BY <4>3 DEF M, HeaderWords, RsvWords
    <3>6. InOrder(c, ms)
      BY <2>9, <3>5 DEF InOrder
    <3>7. c.version >= 17 /\ size >= 12
      BY <2>8, <3>3
    <3> QED  BY <2>8, <2>9, <3>4, <3>6, <3>7 DEF FdtFit
  <2>12. CASE ~ (end < 0)
    <3>1. r.err = 0 /\ r.b = c
      BY <1>1, <1>5, <2>12 DEF Ret
    <3> QED  BY <2>10, <2>11, <3>1
  <2> QED  BY <2>7b, <2>12
<1> QED  BY <1>4, <1>5

\* The EXCEPTs of fdt_open_into and fdt_pack.
Reopened(blob, size) == [blob EXCEPT !.version = 17, !.total = size]
IsReopened(r, blob, size) ==
  /\ r \in Blob /\ r.magic = blob.magic /\ r.version = 17 /\ r.total = size /\ r.st = blob.st
  /\ r.rsv = blob.rsv /\ r.strs = blob.strs /\ r.off_rsv = blob.off_rsv /\ r.off_struct = blob.off_struct
  /\ r.off_strings = blob.off_strings

\* A buffer of another size, and version 17.
LEMMA WithVersion ==
  ASSUME NEW blob \in Blob, NEW size \in Nat
  PROVE  IsReopened(Reopened(blob, size), blob, size)
BY DEF Blob, Reopened, IsReopened

IsPacked(r, blob, ms) ==
  /\ r \in Blob /\ r.magic = blob.magic /\ r.version = blob.version /\ r.st = blob.st /\ r.strs = blob.strs
  /\ r.off_rsv = HeaderWords /\ r.off_struct = HeaderWords + (Len(ms) + 1) * RsvWords
  /\ r.off_strings = r.off_struct + Len(blob.st) /\ r.rsv = SubSeq(blob.rsv, 1, Len(ms) + 1)

\* _fdt_packblocks keeps the entries of the reserve map and the one that ends it.
LEMMA WithPacked ==
  ASSUME NEW blob, NEW size, NEW ms \in Seq(Entry), FdtFit(blob, size, ms)
  PROVE  IsPacked(Packed(blob), blob, ms) /\ RsvHolds(Packed(blob), ms)
<1> DEFINE c == Packed(blob)
           n == Len(ms)
           top == HeaderWords + (n + 1) * RsvWords
           v == SubSeq(blob.rsv, 1, n + 1)
<1>0. blob \in Blob /\ n \in Nat /\ RsvHolds(blob, ms)
  BY DEF FdtFit
<1>1. blob.rsv \in Seq(Nat \X Nat) /\ Len(blob.st) \in Nat /\ Len(blob.rsv) \in Nat
  BY ONLY <1>0 DEF Blob
<1>2. fdt_num_mem_rsv(blob) = n
  BY <1>0, NumMemRsv
<1>3. c = [blob EXCEPT !.off_rsv = HeaderWords, !.off_struct = top, !.off_strings = top + Len(blob.st), !.rsv = v]
  BY <1>2 DEF Packed, MemRsvSize
<1>4. top \in Nat /\ top + Len(blob.st) \in Nat /\ HeaderWords \in Nat
  <2> HIDE DEF n
  <2>1. 10 + (n + 1) * 4 \in Nat
    BY <1>0
  <2>2. top \in Nat
    BY <2>1 DEF HeaderWords, RsvWords
  <2> HIDE DEF top
  <2> QED  BY <1>1, <2>2 DEF HeaderWords
<1>5. v \in Seq(Nat \X Nat) /\ Len(v) = n + 1 /\ \A i \in 1 .. n + 1 : v[i] = blob.rsv[i]
  <2> DEFINE S == Nat \X Nat
  <2>1. blob.rsv \in Seq(S) /\ n + 1 <= Len(blob.rsv) /\ n + 1 \in Nat
    BY <1>0, <1>1 DEF RsvHolds
  <2> HIDE DEF S, n
  <2>2. v \in Seq(S) /\ Len(v) = n + 1 /\ \A i \in 1 .. n + 1 : v[i] = blob.rsv[i]
    BY <1>0, <1>1, <2>1
  <2> QED  BY <2>2 DEF S
<1> HIDE DEF c, top, v
<1>6. /\ c \in Blob /\ c.magic = blob.magic /\ c.version = blob.version /\ c.st = blob.st /\ c.strs = blob.strs
      /\ c.off_rsv = HeaderWords /\ c.off_struct = top /\ c.off_strings = top + Len(blob.st) /\ c.rsv = v
  BY <1>0, <1>3, <1>4, <1>5 DEF Blob
<1>7. IsPacked(c, blob, ms)
  BY <1>6 DEF IsPacked, top, v
<1>8. RsvHolds(c, ms)
  <2>1. n + 1 <= Len(v) /\ v[n + 1][2] = 0
    <3>1. n + 1 \in 1 .. n + 1
      BY <1>0
    <3> QED  BY <1>0, <1>5, <3>1 DEF RsvHolds
  <2>2. \A i \in 1 .. n : v[i] = ms[i]
    <3>1. \A i \in 1 .. n : i \in 1 .. n + 1
      BY <1>0
    <3> QED  BY <1>0, <1>5, <3>1 DEF RsvHolds
  <2> QED  BY <1>6, <2>1, <2>2 DEF RsvHolds
<1> QED  BY <1>7, <1>8 DEF c

\* A packed blob, with the rest of its buffer behind it.
LEMMA PackedFit ==
  ASSUME NEW blob, NEW old, NEW ms \in Seq(Entry), FdtFit(blob, old, ms), NEW size \in Nat,
         NEW c \in Blob, NEW p, p = Packed(blob),
         c.magic = p.magic /\ c.version >= 17 /\ c.st = p.st /\ c.strs = p.strs /\ c.rsv = p.rsv,
         c.off_rsv = p.off_rsv /\ c.off_struct = p.off_struct /\ c.off_strings = p.off_strings,
         DataSize(p) <= c.total /\ c.total <= size
  PROVE  FdtFit(c, size, ms)
<1>1. IsPacked(p, blob, ms) /\ RsvHolds(p, ms)
  BY WithPacked
<1>2. blob.magic = "fdt" /\ Len(ms) \in Nat /\ Len(p.st) \in Nat
  <2>1. p \in Blob
    BY <1>1 DEF IsPacked
  <2>2. Len(p.st) \in Nat
    BY ONLY <2>1 DEF Blob
  <2> QED  BY <2>2 DEF FdtFit
<1>3. RsvHolds(c, ms)
  BY <1>1 DEF RsvHolds
<1>4. DataSize(c) = DataSize(p)
  BY DEF DataSize
<1>5. InOrder(c, ms)
  <2>1. /\ c.off_rsv = 10 /\ c.off_struct = 10 + (Len(ms) + 1) * 4
        /\ c.off_strings = c.off_struct + Len(c.st) /\ Len(c.st) \in Nat
    BY <1>1, <1>2 DEF IsPacked, HeaderWords, RsvWords
  <2> DEFINE M == Len(ms)
             L == Len(c.st)
             x == c.off_rsv
             y == c.off_struct
             z == c.off_strings
  <2>2. M \in Nat /\ L \in Nat /\ x = 10 /\ y = 10 + (M + 1) * 4 /\ z = y + L
    BY <1>2, <2>1
  <2> HIDE DEF M, L, x, y, z
  <2>3. y \in Nat /\ y = 10 + 4 * (M + 1)
    BY <2>2
  <2>4. x >= 10 /\ x + 4 * (M + 1) <= y /\ y + L <= z
    BY <2>2, <2>3
  <2> QED  BY <2>4 DEF InOrder, HeaderWords, RsvWords, M, L, x, y, z
<1>6. c.magic = "fdt"
  BY <1>1, <1>2 DEF IsPacked
<1> QED  BY <1>3, <1>4, <1>5, <1>6 DEF FdtFit

\* fdt_open_into
LEMMA OpenIntoFit ==
  ASSUME NEW blob, NEW old, NEW ms \in Seq(Entry), FdtFit(blob, old, ms), NEW size \in Nat, NEW overlap,
         NEW r, r = fdt_open_into(blob, size, overlap)
  PROVE  \/ r.err < 0 /\ r.b = blob
         \/ ~ (r.err < 0) /\ FdtFit(r.b, size, ms)
<1> DEFINE h == fdt_check_header(blob)
           p == Packed(blob)
           mis == fdt_blocks_misordered(blob, MemRsvSize(blob))
           c == Reopened(blob, size)
           d == [p EXCEPT !.version = 17, !.comp = 16, !.total = size]
<1>0. blob \in Blob /\ blob.magic = "fdt" /\ blob.version >= 17
  BY DEF FdtFit
<1>1. h = 0 \/ h = Err.BADVERSION
  BY <1>0 DEF fdt_check_header
<1>2. Err.BADVERSION < 0 /\ Err.BADVERSION # 0 /\ Err.NOSPACE < 0
  BY DEF Err
<1>3. /\ h # 0 => r = Ret(h, blob)
      /\ h = 0 /\ ~ mis => r = IF blob.total > size THEN Ret(Err.NOSPACE, blob) ELSE Ret(0, c)
      /\ h = 0 /\ mis => r = IF size < DataSize(p) \/ (overlap /\ blob.total + DataSize(p) > size)
                             THEN Ret(Err.NOSPACE, blob) ELSE Ret(0, d)
  <2> DEFINE e == StructEnd(blob)
             q == DataSize(p)
  <2>1. e >= 0 /\ ~ (e < 0)
    <3>1. e = Len(blob.st) /\ Len(blob.st) \in Nat
      BY <1>0 DEF StructEnd, Blob
    <3> QED  BY <3>1
  <2>2. r = CASE h # 0 -> Ret(h, blob)
              [] h = 0 /\ e < 0 -> Ret(e, blob)
              [] h = 0 /\ e >= 0 /\ ~ mis -> (IF blob.total > size THEN Ret(Err.NOSPACE, blob) ELSE Ret(0, c))
              [] OTHER -> (IF size < q \/ (overlap /\ blob.total + q > size) THEN Ret(Err.NOSPACE, blob) ELSE Ret(0, d))
    BY DEF fdt_open_into, Reopened
  <2> HIDE DEF h, e, mis, c, d, q
  <2>3. h # 0 => r = Ret(h, blob)
    BY <2>1, <2>2
  <2>4. h = 0 /\ ~ mis => r = IF blob.total > size THEN Ret(Err.NOSPACE, blob) ELSE Ret(0, c)
    BY <2>1, <2>2
  <2>5. h = 0 /\ mis => r = IF size < q \/ (overlap /\ blob.total + q > size) THEN Ret(Err.NOSPACE, blob) ELSE Ret(0, d)
    BY <2>1, <2>2
  <2> QED  BY <2>3, <2>4, <2>5 DEF q
<1> HIDE DEF h, mis
<1>4. CASE r = Ret(h, blob) /\ h = Err.BADVERSION
  BY <1>2, <1>4 DEF Ret
<1>5. CASE r = Ret(Err.NOSPACE, blob)
  BY <1>2, <1>5 DEF Ret
<1>6. CASE r = Ret(0, c) /\ ~ (blob.total > size)
  <2>1. IsReopened(c, blob, size)
    BY <1>0, WithVersion
  <2> HIDE DEF c
  <2>2. DataSize(c) <= c.total
    <3>1. DataSize(c) = DataSize(blob) /\ c.total = size
      BY <2>1 DEF DataSize, IsReopened
    <3>2. DataSize(blob) <= blob.total /\ DataSize(blob) \in Nat /\ blob.total \in Nat
      BY <1>0 DEF FdtFit, DataSize, Blob
    <3> QED  BY <1>6, <3>1, <3>2
  <2>3. FdtFit(c, size, ms)
    <3>1. RsvHolds(c, ms)
      BY <2>1 DEF FdtFit, RsvHolds, IsReopened
    <3>2. c.off_strings >= c.off_struct => InOrder(c, ms)
      BY <2>1 DEF FdtFit, InOrder, IsReopened
    <3>3. c \in Blob /\ c.version >= 17 /\ c.magic = "fdt" /\ c.total <= size
      BY <1>0, <2>1 DEF IsReopened
    <3> QED  BY <2>2, <3>1, <3>2, <3>3 DEF FdtFit
  <2>4. r.err = 0 /\ r.b = c
    BY <1>6 DEF Ret
  <2> QED  BY <2>3, <2>4
<1>7. CASE r = Ret(0, d) /\ ~ (size < DataSize(p))
  <2>1. IsPacked(p, blob, ms)
    BY WithPacked
  <2>2. p = Packed(blob) /\ p \in Blob
    BY <2>1 DEF IsPacked
  <2> HIDE DEF p
  <2>3. /\ d \in Blob /\ d.magic = p.magic /\ d.version = 17 /\ d.st = p.st /\ d.strs = p.strs /\ d.rsv = p.rsv
        /\ d.off_rsv = p.off_rsv /\ d.off_struct = p.off_struct /\ d.off_strings = p.off_strings /\ d.total = size
    BY <2>2 DEF Blob
  <2> HIDE DEF d
  <2>4. DataSize(p) <= d.total /\ d.total <= size /\ d.version >= 17
    <3>1. DataSize(p) \in Nat
      BY <2>2 DEF DataSize, Blob
    <3> QED  BY <1>7, <2>3, <3>1
  <2>5. FdtFit(d, size, ms)
    BY <2>2, <2>3, <2>4, PackedFit
  <2>6. r.err = 0 /\ r.b = d
    BY <1>7 DEF Ret
  <2> QED  BY <2>5, <2>6
<1> HIDE DEF c, d
<1> QED  BY <1>1, <1>2, <1>3, <1>4, <1>5, <1>6, <1>7

\* fdt_pack
LEMMA PackFit ==
  ASSUME NEW size \in Nat, NEW ms \in Seq(Entry), FdtFit(b, size, ms)
  PROVE  FdtFit(fdt_pack.b, size, ms)
<1> DEFINE p == Packed(b)
           t == DataSize(p)
           c == [p EXCEPT !.total = t]
           r == Ret(0, c)
<1>1. fdt_pack = Checked(b, r)
  BY DEF fdt_pack
<1>2. IsPacked(p, b, ms)
  BY WithPacked
<1>3. InOrder(b, ms) => FdtFit(r.b, size, ms)
  <2>1. SUFFICES ASSUME InOrder(b, ms) PROVE FdtFit(r.b, size, ms)
    OBVIOUS
  <2>2. p \in Blob /\ p = Packed(b)
    BY <1>2 DEF IsPacked
  <2>3. t \in Nat /\ t <= b.total /\ b.total <= size /\ b.total \in Nat
    <3>1. /\ b \in Blob /\ b.off_strings + Len(b.strs) <= b.total /\ b.total <= size
          /\ b.off_rsv >= 10 /\ b.off_rsv + 4 * (Len(ms) + 1) <= b.off_struct
          /\ b.off_struct + Len(b.st) <= b.off_strings
      BY <2>1 DEF FdtFit, DataSize, InOrder, HeaderWords, RsvWords
    <3> DEFINE M == Len(ms)
               L == Len(b.st)
               T == Len(b.strs)
               w == b.total
               x == b.off_rsv
               y == b.off_struct
               z == b.off_strings
    <3>2. M \in Nat /\ L \in Nat /\ T \in Nat /\ w \in Nat /\ x \in Nat /\ y \in Nat /\ z \in Nat
      <4>1. b \in Blob
        BY <3>1
      <4>2. L \in Nat /\ T \in Nat /\ w \in Nat /\ x \in Nat /\ y \in Nat /\ z \in Nat
        BY ONLY <4>1 DEF Blob
      <4> QED  BY <4>2
    <3>3. t = ((10 + (M + 1) * 4) + L) + T
      BY <1>2 DEF IsPacked, DataSize, HeaderWords, RsvWords
    <3>4. z + T <= w /\ x >= 10 /\ x + 4 * (M + 1) <= y /\ y + L <= z /\ w <= size
      BY <3>1
    <3> HIDE DEF M, L, T, t, w, x, y, z
    <3>5. (M + 1) * 4 = 4 * (M + 1) /\ 4 * (M + 1) \in Nat
      BY <3>2
    <3>6. t \in Nat /\ t <= w
      BY <3>2, <3>3, <3>4, <3>5
    <3> QED  BY <3>2, <3>4, <3>6 DEF w
  <2> HIDE DEF p, t
  <2>4. /\ c \in Blob /\ c.magic = p.magic /\ c.version = p.version /\ c.st = p.st /\ c.strs = p.strs /\ c.rsv = p.rsv
        /\ c.off_rsv = p.off_rsv /\ c.off_struct = p.off_struct /\ c.off_strings = p.off_strings /\ c.total = t
    BY <2>2, <2>3 DEF Blob
  <2> HIDE DEF c
  <2>5. c.version >= 17
    BY <1>2, <2>4 DEF IsPacked, FdtFit
  <2>6. DataSize(p) <= c.total /\ c.total <= size
    <3>1. DataSize(p) = t
      BY DEF t
    <3> QED  BY <2>3, <2>4, <3>1
  <2>7. FdtFit(c, size, ms)
    BY <2>2, <2>4, <2>5, <2>6, PackedFit
  <2> QED  BY <2>7 DEF Ret
<1> HIDE DEF r
<1> QED  BY <1>1, <1>3, CheckedFit

\* fdt_create_empty_tree: its calls one after the other, each on the blob the last one left.
LEMMA EmptyTreeFit ==
  ASSUME NEW size \in Nat, NEW r, r = EmptyTree(size)
  PROVE  \/ r.b = b
         \/ SwFit(r.b, size, <<>>, -1, {})
         \/ SwFit(r.b, size, <<>>, 0, {})
         \/ FdtFit(r.b, size, <<>>)
<1> DEFINE Reserve(blob) == ReserveEntry(blob, <<0, 0>>)
           Begin(blob) == Grab(blob, <<FDT_BEGIN_NODE, 0>>)
           End(blob) == Grab(blob, <<FDT_END_NODE>>)
           Open(blob) == fdt_open_into(blob, size, TRUE)
           r1 == fdt_create(size)
           r2 == IF r1.err < 0 THEN r1 ELSE Reserve(r1.b)
           r3 == IF r2.err < 0 THEN r2 ELSE Begin(r2.b)
           r4 == IF r3.err < 0 THEN r3 ELSE End(r3.b)
           r5 == IF r4.err < 0 THEN r4 ELSE fdt_finish(r4.b)
           r6 == IF r5.err < 0 THEN r5 ELSE Open(r5.b)
           Partial(blob) == blob = b \/ SwFit(blob, size, <<>>, -1, {}) \/ SwFit(blob, size, <<>>, 0, {})
<1>0. r = r6
  BY DEF EmptyTree, Then
<1>1. /\ <<0, 0>> \in Nat \X Nat /\ <<>> \in Seq(Entry) /\ -1 \in Nat \cup {-1} /\ 0 \in Nat \cup {-1} /\ 0 # -1
      /\ <<FDT_BEGIN_NODE, 0>> \in Seq(Nat) /\ <<FDT_END_NODE>> \in Seq(Nat)
      /\ Len(<<FDT_BEGIN_NODE, 0>>) > 0 /\ Len(<<FDT_END_NODE>>) > 0
  BY DEF FDT_BEGIN_NODE, FDT_END_NODE
<1>2. Partial(r1.b) /\ (r1.err < 0 \/ SwFit(r1.b, size, <<>>, -1, {}))
  BY CreateFit
<1> HIDE DEF r1
<1>3. Partial(r2.b) /\ (r2.err < 0 \/ SwFit(r2.b, size, <<>>, 0, {}))
  <2>1. CASE r1.err < 0
    BY <1>2, <2>1
  <2>2. CASE ~ (r1.err < 0)
    <3> DEFINE e == <<0, 0>>
               x == ReserveEntry(r1.b, e)
               ms == <<>>
               lost == {}
    <3>1. e \in Nat \X Nat /\ ms \in Seq(Entry) /\ -1 \in Nat \cup {-1} /\ SwFit(r1.b, size, ms, -1, lost) /\ r2 = x
      BY <1>1, <1>2, <2>2
    <3>2. e = <<0, 0>>
      OBVIOUS
    <3> HIDE DEF e, x, ms, lost, r2
    <3>3. \/ x.err < 0 /\ x.b = r1.b
          \/ SwFit(x.b, size, ms, 0, lost)
      BY <3>1, <3>2, ReserveFit DEF x
    <3> QED  BY <1>2, <2>2, <3>1, <3>3 DEF ms, lost
  <2> QED  BY <2>1, <2>2
<1> HIDE DEF r2
<1>3a. ASSUME NEW x, NEW y, NEW words, Partial(x.b), x.err < 0 \/ SwFit(x.b, size, <<>>, 0, {}),
             words \in Seq(Nat), Len(words) > 0, y = (IF x.err < 0 THEN x ELSE Grab(x.b, words))
      PROVE  Partial(y.b) /\ (y.err < 0 \/ SwFit(y.b, size, <<>>, 0, {}))
  <2>1. CASE x.err < 0
    BY <1>3a, <2>1
  <2>2. CASE ~ (x.err < 0)
    <3> DEFINE ms == <<>>
               lost == {}
    <3>1. SwFit(x.b, size, ms, 0, lost) /\ y = Grab(x.b, words) /\ words \in Seq(Nat) /\ Len(words) > 0
      BY <1>3a, <2>2
    <3>2. 0 # -1 /\ 0 \in Nat /\ "early" \notin lost
      OBVIOUS
    <3> HIDE DEF ms, lost
    <3>3. "early" \in lost \/ RsvHolds(x.b, ms)
      BY <3>1, <3>2 DEF SwFit
    <3>4. \/ y.err < 0 /\ y.b = x.b
          \/ SwFit(y.b, size, ms, 0, lost)
      BY <3>1, <3>2, <3>3, GrabFit
    <3> QED  BY <3>1, <3>4 DEF ms, lost
  <2> QED  BY <2>1, <2>2
<1>4. Partial(r3.b) /\ (r3.err < 0 \/ SwFit(r3.b, size, <<>>, 0, {}))
  <2> DEFINE words == <<FDT_BEGIN_NODE, 0>>
  <2>1. words \in Seq(Nat) /\ Len(words) > 0 /\ r3 = (IF r2.err < 0 THEN r2 ELSE Grab(r2.b, words))
    BY <1>1
  <2> HIDE DEF words, r3, Partial
  <2> QED  BY <1>3, <1>3a, <2>1
<1> HIDE DEF r3
<1>5. Partial(r4.b) /\ (r4.err < 0 \/ SwFit(r4.b, size, <<>>, 0, {}))
  <2> DEFINE words == <<FDT_END_NODE>>
  <2>1. words \in Seq(Nat) /\ Len(words) > 0 /\ r4 = (IF r3.err < 0 THEN r3 ELSE Grab(r3.b, words))
    BY <1>1
  <2> HIDE DEF words, r4, Partial
  <2> QED  BY <1>3a, <1>4, <2>1
<1> HIDE DEF r4
<1>6. \/ r5.err < 0 /\ Partial(r5.b)
      \/ ~ (r5.err < 0) /\ FdtFit(r5.b, size, <<>>)
  BY <1>1, <1>5, FinishFit
<1> HIDE DEF r5
<1>7. Partial(r6.b) \/ FdtFit(r6.b, size, <<>>)
  BY <1>1, <1>6, OpenIntoFit
<1> HIDE DEF r6
<1> QED  BY <1>0, <1>7

-----------------------------------------------------------------------------
(* Every step keeps the invariant: one lemma for each call it may be.       *)

\* The blobs from elsewhere say where their structure block ends.  Before version 17 the
\* header does not, and libfdt then follows whatever the words behind the block say.
NewBlobs == \A g \in Given : g.b.version >= 17

\* Nothing, or a blob from elsewhere.
LEMMA FdtInitOk ==
  ASSUME NewBlobs, InitFdt
  PROVE  FdtIInv
<1>0. <<>> \in Seq(Entry) /\ Len(<<>>) = 0
  OBVIOUS
<1>0a. astray = {}
  BY DEF InitFdt
<1>1. CASE b = NoBlob /\ cap = 0 /\ tree = <<>> /\ maps = <<>> /\ open = -1
  BY <1>0, <1>0a, <1>1 DEF FdtIInv
<1>2. CASE \E g \in Given : b = g.b /\ cap = g.b.total /\ tree = g.tree /\ maps = <<>> /\ open = 0
  <2>1. PICK g \in Given : b = g.b /\ cap = g.b.total /\ maps = <<>> /\ open = 0
    BY <1>2
  <2>2. /\ b \in Blob /\ b.magic = "fdt" /\ b.off_strings + Len(b.strs) <= b.total
        /\ b.rsv # <<>> /\ b.rsv[1][2] = 0 /\ b.version >= 17
        /\ b.off_strings >= b.off_struct =>
             /\ b.off_rsv >= HeaderWords /\ b.off_rsv + RsvWords <= b.off_struct
             /\ b.off_struct + Len(b.st) <= b.off_strings
    BY <2>1, GivenAssumption DEF NewBlobs
  <2>3. cap = b.total /\ b.total \in Nat /\ b.total <= cap /\ Len(b.rsv) \in Nat /\ b.rsv \in Seq(Nat \X Nat)
    <3>1. b \in Blob
      BY <2>2
    <3>2. b.total \in Nat /\ Len(b.rsv) \in Nat /\ b.rsv \in Seq(Nat \X Nat)
      BY ONLY <3>1 DEF Blob
    <3>3. cap = b.total
      BY <2>1
    <3> QED  BY <3>2, <3>3
  <2>4. 1 <= Len(b.rsv)
    <3> DEFINE S == Nat \X Nat
    <3>1. b.rsv \in Seq(S)
      BY <2>3
    <3> HIDE DEF S
    <3>2. Len(b.rsv) = 0 => b.rsv = <<>>
      BY <3>1, EmptySeq
    <3> QED  BY <2>2, <2>3, <3>2
  <2>5. RsvHolds(b, maps)
    BY <1>0, <2>1, <2>2, <2>4 DEF RsvHolds
  <2>6. RsvWords * (Len(maps) + 1) = RsvWords
    BY <1>0, <2>1 DEF RsvWords
  <2>7. b.off_strings >= b.off_struct => InOrder(b, maps)
    BY <2>2, <2>6 DEF InOrder
  <2>8. FdtFit(b, cap, maps)
    BY <2>2, <2>3, <2>5, <2>7 DEF FdtFit, DataSize
  <2> QED  BY <1>0, <1>0a, <2>1, <2>3, <2>8 DEF FdtIInv
<1> QED  BY <1>1, <1>2 DEF InitFdt

\* Which of these states a blob is in follows from its magic.
LEMMA FdtPhase ==
  ASSUME FdtIInv
  PROVE  /\ cap \in Nat /\ maps \in Seq(Entry) /\ open \in Nat \cup {-1}
         /\ b.magic = "bad" => b = NoBlob /\ maps = <<>> /\ open = -1 /\ astray = {}
         /\ b.magic = "sw" => SwFit(b, cap, maps, open, astray)
         /\ b.magic = "fdt" /\ astray = {} => FdtFit(b, cap, maps)
         /\ b.magic = "fdt" /\ astray # {} => StrayFit(b, cap)
<1>1. NoBlob.magic = "bad"
  BY DEF NoBlob
<1> QED  BY <1>1 DEF FdtIInv, SwFit, FdtFit, StrayFit

\* The words a client passes.
LEMMA ClientWords ==
  /\ \A size \in Buffers : size \in Nat
  /\ \A n \in Names : n \in Nat
  /\ \A p \in Props : p \in Nat
  /\ \A v \in Values : v \in Seq(Nat)
  /\ \A e \in Reserves : e \in Entry /\ e \in Nat \X Nat
<1>1. Names \subseteq Nat
  BY ClientAssumption, NamesAssumption
<1>2. \A e \in Reserves : e \in Entry /\ e \in Nat \X Nat
  <2>1. \A e \in Entry : e \in Nat \X Nat
    BY DEF Entry
  <2> QED  BY <2>1, ClientAssumption DEF Entry
<1> QED  BY <1>1, <1>2, ClientAssumption

\* fdt_create
LEMMA CreateStep ==
  ASSUME FdtIInv, NEW size \in Buffers, Create(size)
  PROVE  FdtIInv'
<1> DEFINE r == fdt_create(size)
<1>1. b.magic = "bad" /\ cap' = size /\ b' = r.b /\ maps' = maps /\ open' = open /\ astray' = astray
  BY DEF Create, Call
<1>2. b = NoBlob /\ maps = <<>> /\ open = -1 /\ maps \in Seq(Entry) /\ size \in Nat /\ astray = {}
  BY <1>1, FdtPhase, ClientWords
<1>3. (r.err < 0 /\ r.b = b) \/ (~ (r.err < 0) /\ SwFit(r.b, size, <<>>, -1, astray))
  BY <1>2, CreateFit
<1> HIDE DEF r
<1>4. b' = NoBlob \/ SwFit(b', cap', maps', open', astray')
  BY <1>1, <1>2, <1>3
<1> QED  BY <1>1, <1>2, <1>4 DEF FdtIInv

\* fdt_resize
LEMMA ResizeStep ==
  ASSUME FdtIInv, NEW size \in Buffers, Resize(size)
  PROVE  FdtIInv'
<1> DEFINE c == Resized(b, Overlaid(b, size), size)
<1>1. b.magic = "sw" /\ maps' = maps /\ open' = open
  BY DEF Resize
<1>2. SwFit(b, cap, maps, open, astray) /\ cap \in Nat /\ maps \in Seq(Entry) /\ open \in Nat \cup {-1} /\ size \in Nat
  BY <1>1, FdtPhase, ClientWords
<1>3. \/ b' = b /\ cap' = cap /\ astray' = astray
      \/ /\ ~ (b.off_struct + Len(b.strs) > size)
         /\ b' = c /\ cap' = size
         /\ astray' = IF Needs(b) > size THEN astray \cup {"shrunk"} ELSE astray
  <2>1. CASE b.off_struct + Len(b.strs) > size
    <3>1. fdt_resize(b, size) = Ret(Err.NOSPACE, b)
      BY <2>1 DEF fdt_resize
    <3>2. fdt_resize(b, size).err < 0 /\ ~ (fdt_resize(b, size).err = 0) /\ fdt_resize(b, size).b = b
      BY <3>1, ErrorCodes DEF Ret
    <3> QED  BY <3>2 DEF Resize, Call
  <2>2. CASE ~ (b.off_struct + Len(b.strs) > size)
    <3>1. fdt_resize(b, size) = Ret(0, c)
      BY <2>2 DEF fdt_resize, Resized
    <3> HIDE DEF c
    <3>2. ~ (fdt_resize(b, size).err < 0) /\ fdt_resize(b, size).b = c
      BY <3>1 DEF Ret
    <3> QED  BY <2>2, <3>2 DEF Resize, Call
  <2> QED  BY <2>1, <2>2
<1> HIDE DEF c
<1>4. CASE b' = b /\ cap' = cap /\ astray' = astray
  BY <1>1, <1>2, <1>4 DEF FdtIInv
<1>5. CASE /\ ~ (b.off_struct + Len(b.strs) > size) /\ b' = c /\ cap' = size
           /\ astray' = IF Needs(b) > size THEN astray \cup {"shrunk"} ELSE astray
  <2>1. b.off_struct + Len(b.strs) <= size /\ (b.off_struct + Len(b.st) + Len(b.strs) <= size \/ "shrunk" \in astray')
    <3>1. b.off_struct + Len(b.st) + Len(b.strs) \in Nat /\ b.off_struct + Len(b.strs) \in Nat
      <4> DEFINE y == b.off_struct
                 L == Len(b.st)
                 T == Len(b.strs)
      <4>1. y \in Nat /\ L \in Nat /\ T \in Nat
        BY <1>2, SwNumbers
      <4> HIDE DEF y, L, T
      <4>2. y + L + T \in Nat /\ y + T \in Nat
        BY <4>1
      <4> QED  BY <4>2 DEF y, L, T
    <3>2. ~ (Needs(b) > size) => b.off_struct + Len(b.st) + Len(b.strs) <= size
      BY <1>2, <3>1 DEF Needs
    <3>3. Needs(b) > size => "shrunk" \in astray'
      BY <1>5
    <3> QED  BY <1>2, <1>5, <3>1, <3>2, <3>3
  <2>2. astray \subseteq astray'
    BY <1>5
  <2>3. SwFit(c, size, maps, open, astray')
    BY <1>2, <2>1, <2>2, ResizedFit DEF c
  <2> QED  BY <1>1, <1>2, <1>5, <2>3 DEF FdtIInv
<1> QED  BY <1>3, <1>4, <1>5

\* fdt_add_reservemap_entry
LEMMA AddReserveStep ==
  ASSUME FdtIInv, NEW e \in Reserves, AddReserve(e)
  PROVE  FdtIInv'
<1> DEFINE r == ReserveEntry(b, e)
           ms == Append(maps, e)
<1>1. /\ b.magic = "sw" /\ b' = r.b /\ maps' = (IF r.err < 0 \/ open # -1 THEN maps ELSE ms)
      /\ cap' = cap /\ open' = open /\ astray' = astray
  BY DEF AddReserve, Call
<1>2. SwFit(b, cap, maps, open, astray) /\ cap \in Nat /\ maps \in Seq(Entry) /\ open \in Nat \cup {-1}
      /\ e \in Entry /\ e \in Nat \X Nat
  BY <1>1, FdtPhase, ClientWords
<1>3. \/ r.err < 0 /\ r.b = b
      \/ /\ ~ (r.err < 0)
         /\ open = -1 => SwFit(r.b, cap, ms, -1, astray)
         /\ open # -1 => SwFit(r.b, cap, maps, open, astray)
  BY <1>2, ReserveFit
<1>4. ms \in Seq(Entry)
  BY <1>2
<1> HIDE DEF r, ms
<1> QED  BY <1>1, <1>2, <1>3, <1>4 DEF FdtIInv

\* fdt_finish_reservemap
LEMMA FinishReserveStep ==
  ASSUME FdtIInv, FinishReserve
  PROVE  FdtIInv'
<1> DEFINE r == ReserveEntry(b, <<0, 0>>)
<1>1. /\ b.magic = "sw" /\ b' = r.b /\ open' = (IF r.err < 0 THEN open ELSE 0)
      /\ cap' = cap /\ maps' = maps /\ astray' = astray
  BY DEF FinishReserve, Call
<1>2. SwFit(b, cap, maps, open, astray) /\ cap \in Nat /\ maps \in Seq(Entry) /\ open \in Nat \cup {-1}
      /\ <<0, 0>> \in Nat \X Nat
  BY <1>1, FdtPhase
<1>3. (r.err < 0 /\ r.b = b) \/ (~ (r.err < 0) /\ SwFit(r.b, cap, maps, 0, astray))
  BY <1>2, ReserveFit
<1> HIDE DEF r
<1> QED  BY <1>1, <1>2, <1>3 DEF FdtIInv

\* fdt_begin_node and fdt_end_node
LEMMA GrabStep ==
  ASSUME FdtIInv, b.magic = "sw", NEW words \in Seq(Nat), Len(words) > 0, NEW more \in Nat, NEW then,
         astray \subseteq then, open = -1 => "early" \in then,
         NEW r, r = Grab(b, words), b' = r.b, open' = (IF r.err < 0 THEN open ELSE more),
         astray' = (IF r.err = 0 THEN then ELSE astray), cap' = cap, maps' = maps
  PROVE  FdtIInv'
<1>1. SwFit(b, cap, maps, open, astray) /\ cap \in Nat /\ maps \in Seq(Entry) /\ open \in Nat \cup {-1}
  BY FdtPhase
<1>1a. "early" \in then \/ RsvHolds(b, maps)
  BY <1>1 DEF SwFit
<1>2. (r.err < 0 /\ r.b = b) \/ (r.err = 0 /\ SwFit(r.b, cap, maps, more, then))
  BY <1>1, <1>1a, GrabFit
<1>3. CASE r.err < 0 /\ r.b = b
  <2>1. ~ (r.err = 0)
    BY <1>3
  <2> QED  BY <1>1, <1>3, <2>1 DEF FdtIInv
<1>4. CASE r.err = 0 /\ SwFit(r.b, cap, maps, more, then)
  <2>1. ~ (r.err < 0)
    BY <1>4
  <2> QED  BY <1>1, <1>4, <2>1 DEF FdtIInv
<1> QED  BY <1>2, <1>3, <1>4

\* fdt_begin_node
LEMMA BeginNodeStep ==
  ASSUME FdtIInv, NEW n \in Names \cup {0}, BeginNode(n)
  PROVE  FdtIInv'
<1> DEFINE words == <<FDT_BEGIN_NODE, n>>
           r == Grab(b, words)
           depth == IF open > 0 THEN open ELSE 0
           more == depth + 1
           then == IF open = -1 THEN astray \cup {"early"} ELSE astray
<1>1. b.magic = "sw" /\ b' = r.b /\ open' = (IF r.err < 0 THEN open ELSE more) /\ cap' = cap /\ maps' = maps
      /\ astray' = (IF r.err = 0 /\ open = -1 THEN astray \cup {"early"} ELSE astray)
  BY DEF BeginNode, Call
<1>2. open \in Nat \cup {-1}
  BY FdtPhase
<1>3. more \in Nat
  BY <1>2
<1>4. words \in Seq(Nat) /\ Len(words) > 0
  BY ClientWords DEF FDT_BEGIN_NODE
<1>5. astray \subseteq then /\ (open = -1 => "early" \in then) /\ astray' = (IF r.err = 0 THEN then ELSE astray)
  BY <1>1
<1> HIDE DEF words, r, more, then
<1> QED  BY <1>1, <1>3, <1>4, <1>5, GrabStep DEF r

\* fdt_end_node
LEMMA EndNodeStep ==
  ASSUME FdtIInv, EndNode
  PROVE  FdtIInv'
<1> DEFINE words == <<FDT_END_NODE>>
           r == Grab(b, words)
           more == open - 1
<1>1. b.magic = "sw" /\ open > 0 /\ b' = r.b /\ open' = (IF r.err < 0 THEN open ELSE more) /\ cap' = cap
      /\ maps' = maps /\ astray' = astray
  BY DEF EndNode, Call
<1>2. open \in Nat /\ more \in Nat /\ open # -1
  BY <1>1, FdtPhase
<1>3. words \in Seq(Nat) /\ Len(words) > 0
  BY DEF FDT_END_NODE
<1>4. astray \subseteq astray /\ astray' = (IF r.err = 0 THEN astray ELSE astray)
  BY <1>1
<1> HIDE DEF words, r, more
<1> QED  BY <1>1, <1>2, <1>3, <1>4, GrabStep DEF r

\* fdt_property
LEMMA PropertyStep ==
  ASSUME FdtIInv, NEW p \in Props, NEW v \in Values, Property(p, v)
  PROVE  FdtIInv'
<1>1. b.magic = "sw" /\ open > 0 /\ b' = fdt_property(b, p, v).b /\ cap' = cap /\ maps' = maps /\ open' = open
      /\ astray' = astray
  BY DEF Property, Call
<1>2. SwFit(b, cap, maps, open, astray) /\ cap \in Nat /\ maps \in Seq(Entry) /\ open \in Nat /\ p \in Nat
      /\ v \in Seq(Nat)
  BY <1>1, FdtPhase, ClientWords
<1>3. SwFit(fdt_property(b, p, v).b, cap, maps, open, astray)
  BY <1>1, <1>2, PropertyFit
<1> QED  BY <1>1, <1>2, <1>3 DEF FdtIInv

\* fdt_finish
LEMMA FinishStep ==
  ASSUME FdtIInv, Finish
  PROVE  FdtIInv'
<1> DEFINE r == fdt_finish(b)
<1>1. b.magic = "sw" /\ open = 0 /\ b' = r.b /\ cap' = cap /\ maps' = maps /\ open' = open /\ astray' = astray
  BY DEF Finish, Call
<1>2. SwFit(b, cap, maps, 0, astray) /\ cap \in Nat /\ maps \in Seq(Entry)
  BY <1>1, FdtPhase
<1>3. \/ r.err < 0 /\ SwFit(r.b, cap, maps, 0, astray)
      \/ ~ (r.err < 0) /\ StrayFit(r.b, cap) /\ (astray = {} => FdtFit(r.b, cap, maps))
  BY <1>2, FinishFit
<1> HIDE DEF r
<1> QED  BY <1>1, <1>2, <1>3 DEF FdtIInv

\* fdt_create_empty_tree
LEMMA CreateEmptyTreeStep ==
  ASSUME FdtIInv, NEW size \in Buffers, CreateEmptyTree(size)
  PROVE  FdtIInv'
<1> DEFINE r == EmptyTree(size)
<1>1. /\ b.magic = "bad" /\ b' = r.b /\ cap' = (IF r.b.magic = "bad" THEN cap ELSE size)
      /\ open' = (IF r.b.rsv = <<>> THEN open ELSE IF Len(r.b.st) = 2 THEN 1 ELSE 0)
      /\ maps' = maps /\ astray' = astray
  BY DEF CreateEmptyTree
<1>2. b = NoBlob /\ maps = <<>> /\ open = -1 /\ maps \in Seq(Entry) /\ cap \in Nat /\ size \in Nat /\ astray = {}
  BY <1>1, FdtPhase, ClientWords
<1>3. \/ r.b = b
      \/ SwFit(r.b, size, <<>>, -1, {})
      \/ SwFit(r.b, size, <<>>, 0, {})
      \/ FdtFit(r.b, size, <<>>)
  BY <1>2, EmptyTreeFit
<1> HIDE DEF r
<1>4. CASE r.b = b
  <2>1. r.b.magic = "bad" /\ r.b.rsv = <<>>
    BY <1>2, <1>4 DEF NoBlob
  <2> QED  BY <1>1, <1>2, <1>4, <2>1 DEF FdtIInv
<1>5. CASE SwFit(r.b, size, <<>>, -1, {})
  <2>1. r.b.magic # "bad" /\ r.b.rsv = <<>>
    BY <1>5 DEF SwFit
  <2> QED  BY <1>1, <1>2, <1>5, <2>1 DEF FdtIInv
<1>6. CASE SwFit(r.b, size, <<>>, 0, {})
  <2>1. r.b.magic # "bad" /\ RsvHolds(r.b, <<>>)
    <3>1. 0 # -1
      OBVIOUS
    <3> QED  BY <1>6, <3>1 DEF SwFit
  <2>2. r.b.rsv # <<>>
    <3>1. Len(<<>>) = 0 /\ ~ (Len(<<>>) + 1 <= Len(<<>>))
      OBVIOUS
    <3> QED  BY <2>1, <3>1 DEF RsvHolds
  <2>3. open' \in {0, 1} /\ (open' = 1 => r.b.st # <<>>)
    <3>1. Len(<<>>) # 2
      OBVIOUS
    <3> QED  BY <1>1, <2>2, <3>1
  <2>4. SwFit(r.b, size, <<>>, open', {})
    <3>1. open' # -1 /\ (open' > 0 => r.b.st # <<>>)
      BY <2>3
    <3> QED  BY <1>6, <2>1, <3>1 DEF SwFit
  <2> QED  BY <1>1, <1>2, <2>1, <2>3, <2>4 DEF FdtIInv
<1>7. CASE FdtFit(r.b, size, <<>>)
  <2>1. r.b.magic # "bad"
    BY <1>7 DEF FdtFit
  <2>2. open' \in Nat \cup {-1}
    BY <1>1, <1>2
  <2> QED  BY <1>1, <1>2, <1>7, <2>1, <2>2 DEF FdtIInv
<1> QED  BY <1>3, <1>4, <1>5, <1>6, <1>7

\* fdt_open_into
LEMMA OpenIntoStep ==
  ASSUME FdtIInv, NEW size \in Buffers, NEW overlap \in BOOLEAN, OpenInto(size, overlap)
  PROVE  FdtIInv'
<1> DEFINE r == fdt_open_into(b, size, overlap)
<1>1. b.magic = "fdt" /\ astray = {} /\ astray' = {} /\ b' = r.b /\ cap' = (IF r.err < 0 THEN cap ELSE size) /\ maps' = maps /\ open' = open
  BY DEF OpenInto, Call, Finished
<1>2. FdtFit(b, cap, maps) /\ cap \in Nat /\ maps \in Seq(Entry) /\ open \in Nat \cup {-1} /\ size \in Nat
  BY <1>1, FdtPhase, ClientWords
<1>3. (r.err < 0 /\ r.b = b) \/ (~ (r.err < 0) /\ FdtFit(r.b, size, maps))
  BY <1>2, OpenIntoFit
<1> HIDE DEF r
<1> QED  BY <1>1, <1>2, <1>3 DEF FdtIInv

\* fdt_move, which copies what it is given
LEMMA MoveStep ==
  ASSUME FdtIInv, NEW size \in Buffers, Move(size)
  PROVE  FdtIInv'
<1>1. b.magic = "fdt" /\ b' = b /\ cap' = (IF b.total > size THEN cap ELSE size) /\ maps' = maps /\ open' = open
      /\ astray' = astray
  BY DEF Move, Call, Ret
<1>2. cap \in Nat /\ maps \in Seq(Entry) /\ open \in Nat \cup {-1} /\ size \in Nat /\ b \in Blob
      /\ (astray = {} => FdtFit(b, cap, maps)) /\ (astray # {} => StrayFit(b, cap))
  <2>1. FdtFit(b, cap, maps) \/ StrayFit(b, cap)
    BY <1>1, FdtPhase
  <2> QED  BY <1>1, <2>1, FdtPhase, ClientWords DEF FdtFit, StrayFit
<1>3. b.total \in Nat
  BY <1>2 DEF Blob
<1>4. cap' = cap \/ b.total <= cap'
  BY <1>1, <1>2, <1>3
<1>5. cap' \in Nat
  BY <1>1, <1>2
<1>6. FdtFit(b, cap, maps) => FdtFit(b, cap', maps)
  BY <1>4 DEF FdtFit
<1>7. StrayFit(b, cap) => StrayFit(b, cap')
  BY <1>4 DEF StrayFit
<1> QED  BY <1>1, <1>2, <1>5, <1>6, <1>7 DEF FdtIInv

\* fdt_add_mem_rsv
LEMMA AddMemRsvStep ==
  ASSUME FdtIInv, NEW e \in Reserves, AddMemRsv(e)
  PROVE  FdtIInv'
<1> DEFINE r == fdt_add_mem_rsv(e)
           ms == Append(maps, e)
<1>1. b.magic = "fdt" /\ astray = {} /\ astray' = {} /\ b' = r.b /\ maps' = (IF r.err < 0 THEN maps ELSE ms) /\ cap' = cap /\ open' = open
  BY DEF AddMemRsv, Call, Finished
<1>2. FdtFit(b, cap, maps) /\ cap \in Nat /\ maps \in Seq(Entry) /\ open \in Nat \cup {-1} /\ e \in Entry
  BY <1>1, FdtPhase, ClientWords
<1>3. (r.err < 0 /\ FdtFit(r.b, cap, maps)) \/ (~ (r.err < 0) /\ FdtFit(r.b, cap, ms))
  BY <1>2, AddMemRsvFit
<1>4. ms \in Seq(Entry)
  BY <1>2
<1> HIDE DEF r, ms
<1> QED  BY <1>1, <1>2, <1>3, <1>4 DEF FdtIInv

\* fdt_del_mem_rsv
LEMMA DelMemRsvStep ==
  ASSUME FdtIInv, NEW n \in 0 .. 1, DelMemRsv(n)
  PROVE  FdtIInv'
<1> DEFINE r == fdt_del_mem_rsv(n)
           ms == SubSeq(maps, 1, n) \o SubSeq(maps, n + 2, Len(maps))
<1>1. b.magic = "fdt" /\ astray = {} /\ astray' = {} /\ b' = r.b /\ maps' = (IF r.err < 0 THEN maps ELSE ms) /\ cap' = cap /\ open' = open
  BY DEF DelMemRsv, Call, Finished
<1>2. FdtFit(b, cap, maps) /\ cap \in Nat /\ maps \in Seq(Entry) /\ open \in Nat \cup {-1} /\ n \in Nat
  BY <1>1, FdtPhase
<1>3. (r.err < 0 /\ FdtFit(r.b, cap, maps)) \/ (~ (r.err < 0) /\ ms \in Seq(Entry) /\ FdtFit(r.b, cap, ms))
  BY <1>2, DelMemRsvFit
<1> HIDE DEF r, ms
<1> QED  BY <1>1, <1>2, <1>3 DEF FdtIInv

\* fdt_pack
LEMMA PackStep ==
  ASSUME FdtIInv, Pack
  PROVE  FdtIInv'
<1>1. b.magic = "fdt" /\ astray = {} /\ astray' = {} /\ b' = fdt_pack.b /\ cap' = cap /\ maps' = maps /\ open' = open
  BY DEF Pack, Call, Finished
<1>2. FdtFit(b, cap, maps) /\ cap \in Nat /\ maps \in Seq(Entry) /\ open \in Nat \cup {-1}
  BY <1>1, FdtPhase
<1>3. FdtFit(fdt_pack.b, cap, maps)
  BY <1>2, PackFit
<1> QED  BY <1>1, <1>2, <1>3 DEF FdtIInv

\* Whatever is edited, at whatever offset.
LEMMA EditStep ==
  ASSUME FdtIInv, Edit
  PROVE  FdtIInv'
<1>1. b.magic = "fdt" /\ astray = {} /\ astray' = {} /\ cap' = cap /\ maps' = maps /\ open' = open
  BY DEF Edit, Finished
<1>2. FdtFit(b, cap, maps) /\ cap \in Nat /\ maps \in Seq(Entry) /\ open \in Nat \cup {-1}
  BY <1>1, FdtPhase
<1>3. PICK k \in 1 .. Len(tree) : EditNode(k) \/ Inplace(k)
  BY DEF Edit
<1>4. FdtFit(b', cap, maps)
  <2>1. CASE EditNode(k)
    <3>1. PICK off \in Nat :
            \/ \E n \in Names : b' = fdt_set_name(off, n).b \/ b' = fdt_add_subnode(off, n).b
            \/ b' = fdt_del_node(off).b
            \/ \E p \in Props, v \in Values : b' = fdt_setprop(off, p, v).b \/ b' = fdt_appendprop(off, p, v).b
            \/ \E p \in Props : b' = fdt_delprop(off, p).b
      BY <2>1 DEF EditNode, Call
    <3>2. CASE \E n \in Names : b' = fdt_set_name(off, n).b \/ b' = fdt_add_subnode(off, n).b
      <4>1. PICK n \in Names : b' = fdt_set_name(off, n).b \/ b' = fdt_add_subnode(off, n).b
        BY <3>2
      <4>2. n \in Nat
        BY ClientWords
      <4> QED  BY <1>2, <4>1, <4>2, SetNameFit, AddSubnodeFit
    <3>3. CASE b' = fdt_del_node(off).b
      BY <1>2, <3>3, DelNodeFit
    <3>4. CASE \E p \in Props, v \in Values : b' = fdt_setprop(off, p, v).b \/ b' = fdt_appendprop(off, p, v).b
      <4>1. PICK p \in Props, v \in Values : b' = fdt_setprop(off, p, v).b \/ b' = fdt_appendprop(off, p, v).b
        BY <3>4
      <4>2. p \in Nat /\ v \in Seq(Nat)
        BY ClientWords
      <4> QED  BY <1>2, <4>1, <4>2, SetpropFit, AppendpropFit
    <3>5. CASE \E p \in Props : b' = fdt_delprop(off, p).b
      <4>1. PICK p \in Props : b' = fdt_delprop(off, p).b
        BY <3>5
      <4>2. p \in Nat
        BY ClientWords
      <4> QED  BY <1>2, <4>1, <4>2, DelpropFit
    <3> QED  BY <3>1, <3>2, <3>3, <3>4, <3>5
  <2>2. CASE Inplace(k)
    <3>1. PICK off \in Nat :
            \/ \E p \in Props, v \in Values : b' = fdt_setprop_inplace(off, p, v).b
            \/ \E p \in Props : b' = fdt_nop_property(off, p).b
            \/ b' = fdt_nop_node(off).b
      BY <2>2 DEF Inplace, Call
    <3>2. CASE \E p \in Props, v \in Values : b' = fdt_setprop_inplace(off, p, v).b
      <4>1. PICK p \in Props, v \in Values : b' = fdt_setprop_inplace(off, p, v).b
        BY <3>2
      <4>2. p \in Nat /\ v \in Seq(Nat)
        BY ClientWords
      <4> QED  BY <1>2, <4>1, <4>2, InplaceFit
    <3>3. CASE \E p \in Props : b' = fdt_nop_property(off, p).b
      <4>1. PICK p \in Props : b' = fdt_nop_property(off, p).b
        BY <3>3
      <4>2. p \in Nat /\ <<>> \in Seq(Nat)
        BY ClientWords
      <4> QED  BY <1>2, <4>1, <4>2, InplaceFit
    <3>4. CASE b' = fdt_nop_node(off).b
      BY <1>2, <3>4, DelNodeFit
    <3> QED  BY <3>1, <3>2, <3>3, <3>4
  <2> QED  BY <1>3, <2>1, <2>2
<1> QED  BY <1>1, <1>2, <1>4 DEF FdtIInv

\* Every call, successful or not.
LEMMA FdtNextOk ==
  ASSUME FdtIInv, [NextFdt]_fdtVars
  PROVE  FdtIInv'
<1>1. CASE UNCHANGED fdtVars
  BY <1>1 DEF fdtVars, FdtIInv
<1>2. CASE NextFdt
  <2>1. CASE \E size \in Buffers : Create(size) \/ Resize(size) \/ CreateEmptyTree(size) \/ Move(size)
    BY <2>1, CreateStep, ResizeStep, CreateEmptyTreeStep, MoveStep
  <2>2. CASE \E size \in Buffers, overlap \in BOOLEAN : OpenInto(size, overlap)
    BY <2>2, OpenIntoStep
  <2>3. CASE \E e \in Reserves : AddReserve(e) \/ AddMemRsv(e)
    BY <2>3, AddReserveStep, AddMemRsvStep
  <2>4. CASE FinishReserve \/ EndNode \/ Finish \/ Pack \/ Edit
    BY <2>4, FinishReserveStep, EndNodeStep, FinishStep, PackStep, EditStep
  <2>5. CASE \E n \in Names \cup {0} : BeginNode(n)
    BY <2>5, BeginNodeStep
  <2>6. CASE \E p \in Props, v \in Values : Property(p, v)
    BY <2>6, PropertyStep
  <2>7. CASE \E n \in 0 .. 1 : DelMemRsv(n)
    BY <2>7, DelMemRsvStep
  <2> QED  BY <1>2, <2>1, <2>2, <2>3, <2>4, <2>5, <2>6, <2>7 DEF NextFdt
<1> QED  BY <1>1, <1>2

\* What the invariant says of a state.
LEMMA FdtSafe ==
  ASSUME FdtIInv
  PROVE  BlocksFit /\ CutIsSafe
<1>1. BlocksFit
  <2>1. ASSUME b.magic = "sw", cap >= 12
        PROVE  /\ b.total <= cap /\ b.off_struct + Len(b.strs) <= b.total
               /\ "shrunk" \in astray \/ Needs(b) <= b.total
    <3>1. SwFit(b, cap, maps, open, astray)
      BY <2>1, FdtPhase
    <3> QED  BY <2>1, <3>1 DEF SwFit, Needs
  <2>2. ASSUME Finished
        PROVE  /\ b.total <= cap /\ DataSize(b) <= b.total /\ ReservesKept
               /\ b.off_strings >= b.off_struct => InOrder(b, maps)
    <3>1. FdtFit(b, cap, maps) /\ maps \in Seq(Entry)
      BY <2>2, FdtPhase DEF Finished
    <3>2. b \in Blob /\ RsvHolds(b, maps)
      BY <3>1 DEF FdtFit
    <3>3. fdt_num_mem_rsv(b) = Len(maps)
      BY <3>1, <3>2, NumMemRsv
    <3>4. ASSUME NEW i \in 1 .. Len(maps) PROVE fdt_get_mem_rsv(b, i - 1) = maps[i]
      <4>1. (i - 1) + 1 = i
        BY <3>1
      <4> QED  BY <3>2, <4>1 DEF fdt_get_mem_rsv, RsvHolds
    <3>5. ReservesKept
      BY <3>3, <3>4 DEF ReservesKept
    <3> QED  BY <3>1, <3>5 DEF FdtFit
  <2>3. ASSUME b.magic = "fdt", ~ Finished
        PROVE  /\ cap >= 12 => b.total <= cap
               /\ DataSize(b) <= b.total /\ b.off_struct + Len(b.st) <= b.off_strings
    <3>1. StrayFit(b, cap)
      BY <2>3, FdtPhase DEF Finished
    <3> QED  BY <3>1 DEF StrayFit
  <2>4. b.magic \in {"bad", "sw", "fdt"}
    <3>1. CASE b = NoBlob
      BY <3>1 DEF NoBlob
    <3>2. CASE b # NoBlob
      BY <3>2 DEF FdtIInv, SwFit, FdtFit, StrayFit
    <3> QED  BY <3>1, <3>2
  <2>5. Finished => b.magic = "fdt"
    BY DEF Finished
  <2>6. "sw" # "fdt" /\ "bad" # "sw" /\ "bad" # "fdt"
    OBVIOUS
  <2>7. RsvStart = 12
    BY DEF RsvStart
  <2>8. b.magic # "bad" /\ cap >= RsvStart => b.total <= cap
    BY <2>1, <2>2, <2>3, <2>4, <2>7
  <2>9. b.magic = "sw" /\ cap >= RsvStart =>
          b.off_struct + Len(b.strs) <= b.total /\ ("shrunk" \in astray \/ Needs(b) <= b.total)
    BY <2>1, <2>7
  <2>10. b.magic = "fdt" => DataSize(b) <= b.total
    BY <2>2, <2>3
  <2>11. b.magic = "fdt" /\ b.off_strings >= b.off_struct => b.off_struct + Len(b.st) <= b.off_strings
    BY <2>2, <2>3 DEF InOrder
  <2>12. Finished /\ b.off_strings >= b.off_struct =>
           b.off_rsv >= HeaderWords /\ b.off_rsv + RsvWords * (Len(maps) + 1) <= b.off_struct
    BY <2>2 DEF InOrder
  <2>13. Finished => ReservesKept
    BY <2>2
  <2> QED  BY <2>8, <2>9, <2>10, <2>11, <2>12, <2>13 DEF BlocksFit
<1>2. CutIsSafe
  <2>1. SUFFICES ASSUME Finished, b.version >= 17, NEW n \in 0 .. Len(b.st) - 1
        PROVE  LET cut == [b EXCEPT !.st = SubSeq(@, 1, n)]
               IN  /\ \A off \in 0 .. n - 1 :
                        fdt_get_property_by_offset(cut, off) >= 0 => off + 3 + PropLen(cut, off) <= n
                   /\ \A name \in Name :
                        LET o == fdt_subnode_offset(cut, 0, name)
                        IN  o = fdt_subnode_offset(b, 0, name)
                            \/ o \in {Err.TRUNCATED, Err.BADSTRUCTURE, Err.BADOFFSET}
    BY DEF CutIsSafe
  <2>2. FdtFit(b, cap, maps)
    BY <2>1, FdtPhase DEF Finished
  <2>3. b \in Blob /\ Sized(b) /\ b.magic = "fdt" /\ Len(b.st) \in Nat
    BY <2>2, FitSized DEF FdtFit
  <2>4. n \in 0 .. Len(b.st)
    BY <2>3
  <2> QED  BY <2>3, <2>4, CutSafe
<1> QED  BY <1>1, <1>2

\* The invariant: at every moment the blob is nothing, or an unfinished blob whose blocks
\* are apart (unless a resize left no room for its structure block, or the buffer none for
\* the padded header) and whose reserve map is what was added to it, or a finished one
\* inside its buffer.
THEOREM FdtInductive == NewBlobs => (SpecFdt => []FdtIInv)
<1>1. NewBlobs /\ InitFdt => FdtIInv
  BY FdtInitOk
<1>2. FdtIInv /\ [NextFdt]_fdtVars => FdtIInv'
  BY FdtNextOk
<1> QED  BY <1>1, <1>2, PTL DEF SpecFdt

\* However many calls of fdt_sw.c, fdt_rw.c and fdt_wip.c are made, in whichever order and
\* with whichever of them failing, the blocks of a blob do not overlap and do not leave the
\* buffer, and the reserve map has exactly the entries that were added and not deleted.  The
\* only exceptions are the two the library does not refuse: a fdt_resize to less than the
\* structure block needs, after which nothing is written before another one makes room, and
\* nodes in a buffer of less than the 48 bytes of the padded header.
THEOREM FdtBlocksFit == NewBlobs => (SpecFdt => []BlocksFit)
<1>1. FdtIInv => BlocksFit
  BY FdtSafe
<1> QED  BY <1>1, FdtInductive, PTL

\* And of every blob they leave, a structure block cut short anywhere shows no property and
\* no child that the whole block does not have.
THEOREM FdtCutIsSafe == NewBlobs => (SpecFdt => []CutIsSafe)
<1>1. FdtIInv => CutIsSafe
  BY FdtSafe
<1> QED  BY <1>1, FdtInductive, PTL
=============================================================================
