------------------------------- MODULE Timers -------------------------------
(***************************************************************************)
(* The two hardware timers of the AR100S firmware                          *)
(* (ar100s/driver/timer/timer-extended/timer-extended.c and                *)
(* timer-extended-delay.c): timer 0 measures time_mdelay, timer 1 is       *)
(* requested, started, stopped and released by a client, and both change   *)
(* their clock when the 24 MHz crystal goes off and comes back.            *)
(*                                                                         *)
(* Every register write is a step; time passes and the timer's interrupt   *)
(* is taken between any two of them.  Time is counted in periods of the    *)
(* fast clock.  A timer takes a new interval when it is told to reload and *)
(* when it expires, which is why timer_start has its reload step.          *)
(***************************************************************************)
EXTENDS Naturals, FiniteSets

CONSTANTS
  Slow,        \* counts of the slow clock in a millisecond (32)
  Ratio,       \* fast counts in a slow one (24000 / 32)
  MaxCount,    \* largest interval of the 32-bit register
  Periods,     \* periods a client asks for, in milliseconds
  Delays,      \* delays asked for, in milliseconds
  MaxOps,      \* bound: calls of a behaviour
  MaxFaults    \* bound: polls of the hardware that time out

ASSUME TimersAssumption ==
  /\ {Slow, Ratio, MaxCount} \subseteq Nat \ {0} /\ Ratio > 1
  /\ MaxOps \in Nat /\ MaxFaults \in Nat
  /\ Periods \subseteq Nat /\ Delays \subseteq Nat

Fast  == Slow * Ratio
Timer == {0, 1}

VARIABLES
  place,       \* place in the process context
  arg,         \* the argument of the call: milliseconds, mode
  used,        \* timers whose status is TIMER_USED
  handler,     \* timers with a handler (phandler)
  isr,         \* timers whose interrupt goes to timer_isr
  irq, ie,     \* interrupt enable bits of the timer unit and of the CLIC
  en, mode,    \* control register
  ivl, cnt,    \* interval and current value
  pending,     \* status register
  src,         \* clock source: "ref" (24 MHz) or "losc"
  ms_ticks,
  phase,       \* fast counts since the last slow one
  dead,        \* timers without a clock
  lock,        \* timer_lock
  since,       \* time since timer 1 last expired or was started
  switched,    \* its clock has changed since
  waited,      \* time since time_mdelay enabled the timer
  counted,     \* time since time_mdelay read the counter
  want,        \* period of timer 1 while it runs, 0 when stopped
  stray,       \* the handler was called for a timer that is not in use
  ops, faults

timerVars == <<place, arg, used, handler, isr, irq, ie, en, mode, ivl, cnt, pending, src, ms_ticks,
          phase, dead, lock, since, switched, waited, counted, want, stray, ops, faults>>

table == <<used, handler, isr>>
intr  == <<irq, ie>>
unit  == <<en, mode, ivl, cnt, pending>>
clk   == <<src, ms_ticks>>
time  == <<phase, dead>>
hist  == <<since, switched, waited, counted, want, stray>>
count == <<ops, faults>>

InitTimers ==
  /\ place = "boot" /\ arg = [ms |-> 0, mode |-> "single", t |-> 0]
  /\ used = {} /\ handler = {} /\ isr = {} /\ irq = {} /\ ie = {}
  /\ en = {} /\ mode = [t \in Timer |-> "period"]
  /\ ivl = [t \in Timer |-> 0] /\ cnt = [t \in Timer |-> 0] /\ pending = {}
  /\ src = [t \in Timer |-> "other"] /\ ms_ticks = [t \in Timer |-> 0]
  /\ phase = 0 /\ dead \in {{}, {0}} /\ lock = TRUE
  /\ since = 0 /\ switched = FALSE /\ waited = 0 /\ counted = 0 /\ want = 0 /\ stray = FALSE
  /\ ops = 0 /\ faults = 0

-----------------------------------------------------------------------------
(* The hardware. *)

Cap == (MaxCount + Slow) * Ratio

Up(n) == IF n < Cap THEN n + 1 ELSE n

Counts(t) ==
  /\ t \in en \ dead /\ cnt[t] > 0
  /\ src[t] = "ref" \/ (src[t] = "losc" /\ phase = Ratio - 1)

Expires(t) == Counts(t) /\ cnt[t] = 1

\* One period of the fast clock.
Time ==
  /\ place # "boot"
  /\ phase' = (phase + 1) % Ratio
  /\ cnt' = [t \in Timer |->
               IF Expires(t) THEN (IF mode[t] = "period" THEN ivl[t] ELSE 0)
               ELSE IF Counts(t) THEN cnt[t] - 1 ELSE cnt[t]]
  /\ pending' = pending \cup {t \in Timer : Expires(t)}
  /\ since' = IF Expires(1) \/ want = 0 THEN 0 ELSE Up(since)
  /\ switched' = (switched /\ (Expires(1) => place \in {"off i1", "on s1"}))
  /\ waited' = (IF 0 \in en THEN Up(waited) ELSE 0)
  /\ counted' = (IF place = "d wait" THEN Up(counted) ELSE 0)
  /\ UNCHANGED <<place, arg, table, intr, en, mode, ivl, clk, dead, lock, want, stray, count>>

\* timer_isr: acknowledge, then call the handler.
Isr(t) ==
  /\ t \in pending \cap irq \cap ie \cap isr /\ ~lock
  /\ pending' = pending \ {t}
  /\ stray' = (stray \/ t \notin handler \cap used)
  /\ UNCHANGED <<place, arg, table, intr, en, mode, ivl, cnt, clk, time, lock, since, switched,
                 waited, counted, want, count>>

-----------------------------------------------------------------------------
(* The driver.  Go(a, b) is one statement of the process context. *)

Go(from, to) == place = from /\ place' = to

\* A call into the driver.
Call(to) == Go("idle", to) /\ ops < MaxOps /\ ops' = ops + 1 /\ UNCHANGED faults

\* A poll of a self-clearing bit: it clears, or the driver gives up.
Poll(from, to, giveup) ==
  \/ Go(from, to) /\ UNCHANGED count
  \/ Go(from, giveup) /\ faults < MaxFaults /\ faults' = faults + 1 /\ UNCHANGED ops

\* timer_init: 24 MHz, timer 0 for delays, one shot.
TimerInit ==
  /\ Go("boot", "idle") /\ lock' = FALSE /\ used' = {0}
  /\ en' = {} /\ mode' = [mode EXCEPT ![0] = "single"]
  /\ src' = [t \in Timer |-> "ref"] /\ ms_ticks' = [t \in Timer |-> Fast]
  /\ UNCHANGED <<arg, handler, isr, intr, ivl, cnt, pending, time, hist, count>>

\* timer_request: a free timer is taken with interrupts off ...
Request ==
  /\ Call("install") /\ Timer \ used # {}
  /\ LET t == CHOOSE x \in Timer \ used : \A y \in Timer \ used : x <= y
     IN  used' = used \cup {t} /\ handler' = handler \cup {t} /\ arg' = [arg EXCEPT !.t = t]
  /\ UNCHANGED <<isr, intr, unit, clk, time, lock, hist>>

RequestNone == Call("idle") /\ used = Timer
               /\ UNCHANGED <<arg, table, intr, unit, clk, time, lock, hist>>

\* ... and its isr installed.
Install ==
  /\ Go("install", "idle") /\ isr' = isr \cup {arg.t}
  /\ UNCHANGED <<arg, used, handler, intr, unit, clk, time, lock, hist, count>>

\* timer_start: refused for a free timer, no period, or too long a period ...
StartRefused ==
  /\ Call("idle")
  /\ \/ 1 \notin used
     \/ \E ms \in Periods : ms = 0 \/ ms_ticks[1] * ms > MaxCount
  /\ UNCHANGED <<arg, table, intr, unit, clk, time, lock, hist>>

\* ... the interval ...
Start ==
  /\ Call("reload") /\ 1 \in used /\ want = 0
  /\ \E ms \in Periods : /\ ms > 0 /\ ms_ticks[1] * ms <= MaxCount
                         /\ arg' = [ms |-> ms, mode |-> "period", t |-> 1]
                         /\ ivl' = [ivl EXCEPT ![1] = ms_ticks[1] * ms]
  /\ UNCHANGED <<table, intr, en, mode, cnt, pending, clk, time, lock, hist>>

\* mutant: the current value is not reloaded.
ReloadNone ==
  /\ Poll("reload", "mode", "idle")
  /\ cnt' = IF place' = "mode" /\ cnt[1] = 0 THEN [cnt EXCEPT ![1] = ivl[1]] ELSE cnt
  /\ UNCHANGED <<arg, table, intr, en, mode, ivl, pending, clk, time, lock, hist>>

\* ... its reload ...
Reload ==
  /\ Poll("reload", "mode", "idle")
  /\ cnt' = IF place' = "mode" THEN [cnt EXCEPT ![1] = ivl[1]] ELSE cnt
  /\ UNCHANGED <<arg, table, intr, en, mode, ivl, pending, clk, time, lock, hist>>

\* ... the mode ...
SetMode ==
  /\ Go("mode", "ack") /\ mode' = [mode EXCEPT ![1] = arg.mode]
  /\ UNCHANGED <<arg, table, intr, en, ivl, cnt, pending, clk, time, lock, hist, count>>

\* ... an old pending bit acknowledged ...
StartAck ==
  /\ Poll("ack", "irq", "idle")
  /\ pending' = IF place' = "irq" THEN pending \ {1} ELSE pending
  /\ UNCHANGED <<arg, table, intr, en, mode, ivl, cnt, clk, time, lock, hist>>

\* ... the interrupt enabled in the timer and in the CLIC ...
StartIrq ==
  /\ Go("irq", "clic") /\ irq' = irq \cup {1}
  /\ UNCHANGED <<arg, table, ie, unit, clk, time, lock, hist, count>>

StartClic ==
  /\ Go("clic", "enable") /\ ie' = ie \cup {1}
  /\ UNCHANGED <<arg, table, irq, unit, clk, time, lock, hist, count>>

\* ... and the timer enabled.
StartEnable ==
  /\ Go("enable", "idle") /\ en' = en \cup {1}
  /\ want' = arg.ms /\ since' = 0 /\ switched' = FALSE
  /\ UNCHANGED <<arg, table, intr, mode, ivl, cnt, pending, clk, time, lock, waited, counted,
                 stray, count>>

\* timer_stop and timer_release: refused for a free timer; the timer off ...
StopRefused ==
  /\ Call("idle") /\ 1 \notin used
  /\ UNCHANGED <<arg, table, intr, unit, clk, time, lock, hist>>

Stop(to) ==
  /\ Call(to) /\ 1 \in used
  /\ en' = en \ {1} /\ want' = 0
  /\ UNCHANGED <<arg, table, intr, mode, ivl, cnt, pending, clk, time, lock, since, switched,
                 waited, counted, stray>>

\* ... its interrupt off ...
StopIrq(from, to) ==
  /\ Go(from, to) /\ irq' = irq \ {1}
  /\ UNCHANGED <<arg, table, ie, unit, clk, time, lock, hist, count>>

StopClic(from, to) ==
  /\ Go(from, to) /\ ie' = ie \ {1}
  /\ UNCHANGED <<arg, table, irq, unit, clk, time, lock, hist, count>>

\* ... the pending bit acknowledged ...
StopAck(from, to) ==
  /\ Poll(from, to, "idle")
  /\ pending' = IF faults' = faults THEN pending \ {1} ELSE pending
  /\ UNCHANGED <<arg, table, intr, en, mode, ivl, cnt, clk, time, lock, hist>>

\* ... the isr removed and the timer free.
Uninstall ==
  /\ Go("uninstall", "free") /\ isr' = isr \ {1}
  /\ UNCHANGED <<arg, used, handler, intr, unit, clk, time, lock, hist, count>>

Free ==
  /\ Go("free", "idle") /\ used' = used \ {1} /\ handler' = handler \ {1}
  /\ UNCHANGED <<arg, isr, intr, unit, clk, time, lock, hist, count>>

Release == Stop("rel irq")

StopAll ==
  \/ Stop("stop irq") \/ StopIrq("stop irq", "stop clic") \/ StopClic("stop clic", "stop ack")
  \/ StopAck("stop ack", "idle")
  \/ Release \/ StopIrq("rel irq", "rel clic") \/ StopClic("rel clic", "rel ack")
  \/ StopAck("rel ack", "uninstall") \/ Uninstall \/ Free

-----------------------------------------------------------------------------
(* time_mdelay. *)

\* No delay at all for none, or for one too long.
DelayNone ==
  /\ Call("idle") /\ \E ms \in Delays : ms = 0 \/ ms_ticks[0] * ms > MaxCount
  /\ UNCHANGED <<arg, table, intr, unit, clk, time, lock, hist>>

\* The interval ...
Delay ==
  /\ Call("d reload")
  /\ \E ms \in Delays : /\ ms > 0 /\ ms_ticks[0] * ms <= MaxCount
                        /\ arg' = [arg EXCEPT !.ms = ms]
                        /\ ivl' = [ivl EXCEPT ![0] = ms_ticks[0] * ms]
  /\ UNCHANGED <<table, intr, en, mode, cnt, pending, clk, time, lock, hist>>

\* ... its reload ...
DelayReload ==
  /\ Poll("d reload", "d ack", "idle")
  /\ cnt' = IF place' = "d ack" THEN [cnt EXCEPT ![0] = ivl[0]] ELSE cnt
  /\ UNCHANGED <<arg, table, intr, en, mode, ivl, pending, clk, time, lock, hist>>

\* ... an old pending bit cleared ...
DelayAck ==
  /\ Go("d ack", "d enable") /\ pending' = pending \ {0}
  /\ UNCHANGED <<arg, table, intr, en, mode, ivl, cnt, clk, time, lock, hist, count>>

\* ... the timer started ...
DelayEnable ==
  /\ Go("d enable", "d deadline") /\ en' = en \cup {0} /\ waited' = 0
  /\ UNCHANGED <<arg, table, intr, mode, ivl, cnt, pending, clk, time, lock, since, switched,
                 counted, want, stray, count>>

\* ... a deadline taken from the always-on counter ...
DelayDeadline ==
  /\ Go("d deadline", "d wait") /\ counted' = 0
  /\ UNCHANGED <<arg, table, intr, unit, clk, time, lock, since, switched, waited, want, stray,
                 count>>

\* mutant: no deadline.
DelayWaitForever ==
  /\ Go("d wait", "d stop") /\ 0 \in pending
  /\ UNCHANGED <<arg, table, intr, unit, clk, time, lock, hist, count>>

\* ... and the wait, for the timer or for the deadline a millisecond later.
DelayWait ==
  /\ Go("d wait", "d stop")
  /\ 0 \in pending \/ counted >= (arg.ms + 1) * Fast
  /\ UNCHANGED <<arg, table, intr, unit, clk, time, lock, hist, count>>

DelayStop ==
  /\ Go("d stop", "d clear") /\ en' = en \ {0}
  /\ UNCHANGED <<arg, table, intr, mode, ivl, cnt, pending, clk, time, lock, hist, count>>

DelayClear ==
  /\ Go("d clear", "idle") /\ pending' = pending \ {0}
  /\ UNCHANGED <<arg, table, intr, en, mode, ivl, cnt, clk, time, lock, hist, count>>

DelayAll ==
  \/ DelayNone \/ Delay \/ DelayReload \/ DelayAck \/ DelayEnable \/ DelayDeadline
  \/ DelayWait \/ DelayStop \/ DelayClear

-----------------------------------------------------------------------------
(* timer_hosc_onoff_cb, timer 0 and then timer 1. *)

\* The crystal will go off: the slow clock first ...
OffSource(from, to, t) ==
  /\ Go(from, to) /\ src' = [src EXCEPT ![t] = "losc"]
  /\ switched' = (switched \/ t = 1)
  /\ UNCHANGED <<arg, table, intr, unit, ms_ticks, time, lock, since, waited, counted, want,
                 stray>>

\* ... then the scale and the interval.
OffInterval(from, to, t) ==
  /\ Go(from, to)
  /\ ms_ticks' = [ms_ticks EXCEPT ![t] = Slow]
  /\ ivl' = [ivl EXCEPT ![t] = ivl[t] \div Ratio]
  /\ UNCHANGED <<arg, table, intr, en, mode, cnt, pending, src, time, lock, hist, count>>

\* It is back: the interval, in 32 bits, first ...
OnInterval(from, to, t) ==
  /\ Go(from, to)
  /\ ivl' = [ivl EXCEPT ![t] = (ivl[t] * Ratio) % (MaxCount + 1)]
  /\ switched' = (switched \/ t = 1)
  /\ UNCHANGED <<arg, table, intr, en, mode, cnt, pending, clk, time, lock, since, waited, counted,
                 want, stray>>

\* mutant: the scale of a millisecond is left at the slow clock's.
OnSourceOnly(from, to, t) ==
  /\ Go(from, to) /\ src' = [src EXCEPT ![t] = "ref"]
  /\ switched' = (switched \/ t = 1)
  /\ UNCHANGED <<arg, table, intr, unit, ms_ticks, time, lock, since, waited, counted, want,
                 stray, count>>

\* ... then the fast clock and the scale.
OnSource(from, to, t) ==
  /\ Go(from, to) /\ src' = [src EXCEPT ![t] = "ref"]
  /\ ms_ticks' = [ms_ticks EXCEPT ![t] = Fast]
  /\ switched' = (switched \/ t = 1)
  /\ UNCHANGED <<arg, table, intr, unit, time, lock, since, waited, counted, want, stray, count>>

HoscOff == Call("off i0") /\ src[0] = "ref" /\ OffSource("idle", "off i0", 0)
HoscOn  == Call("on s0") /\ src[0] = "losc" /\ OnInterval("idle", "on s0", 0)

Hosc ==
  \/ HoscOff \/ OffInterval("off i0", "off s1", 0)
  \/ OffSource("off s1", "off i1", 1) /\ UNCHANGED count
  \/ OffInterval("off i1", "idle", 1)
  \/ HoscOn \/ OnSource("on s0", "on i1", 0)
  \/ OnInterval("on i1", "on s1", 1) /\ UNCHANGED count
  \/ OnSource("on s1", "idle", 1)

-----------------------------------------------------------------------------
Process ==
  \/ TimerInit \/ Install \/ Reload \/ SetMode \/ StartAck \/ StartIrq \/ StartClic
  \/ StartEnable \/ DelayAll \/ StopAll \/ Hosc
  \/ Request \/ RequestNone \/ Start \/ StartRefused \/ StopRefused

NextTimers == Process \/ Time \/ \E t \in Timer : Isr(t)

\* The firmware runs, time passes, interrupts are taken.
SpecTimers ==
  /\ InitTimers /\ [][NextTimers]_timerVars
  /\ WF_timerVars(place # "idle" /\ Process) /\ WF_timerVars(Time)
  /\ \A t \in Timer : WF_timerVars(Isr(t))

-----------------------------------------------------------------------------
\* Between calls a running timer's interval is its period on the clock it
\* has, through any number of changes of the clock, as long as the period
\* fits the register on the fast clock.
PeriodKept ==
  place = "idle" =>
    /\ \A t \in Timer : src[t] = (IF ms_ticks[t] = Fast THEN "ref" ELSE "losc")
    /\ want > 0 /\ want * Fast <= MaxCount => ivl[1] = want * ms_ticks[1]

\* With no change of the clock since the last one, a tick comes exactly a
\* period after it; on the slow clock the first may come less than one count
\* early.
Punctual ==
  [][(1 \in pending' \ pending) /\ ~switched /\ want > 0 /\ want * Fast <= MaxCount =>
       /\ since + 1 <= want * Fast
       /\ since + 1 + Ratio > want * Fast]_timerVars

\* The handler is called only for a timer that is in use, not after
\* timer_release has returned, though the interrupt may have been pending; and
\* a timer that timer_stop has stopped has nothing pending that the next start
\* would deliver, and raises no interrupt.
Silent ==
  /\ ~stray
  /\ (place = "idle" /\ faults = 0 /\ 1 \in used /\ want = 0) => 1 \notin pending \cup irq \cup ie

\* time_mdelay lasts as long as it was asked to, less than one count of the
\* slow clock apart, and ends, also when its timer has no clock.
Delayed ==
  /\ [](place = "d stop" => waited + Ratio > arg.ms * Fast)
  /\ (place = "d reload") ~> (place = "idle")

\* So at rest a timer in use keeps its period, and one that is not does nothing.
TimersSound == PeriodKept /\ Silent
=============================================================================
