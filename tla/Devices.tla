------------------------------ MODULE Devices ------------------------------
(***************************************************************************)
(* The small drivers and tables the firmware's startup uses, as operators  *)
(* on their registers: little-endian windows (cpucfg.c), pins (pin.c), the *)
(* watchdog (watchdog.c), notifier lists (notifier.c) and the text buffer  *)
(* of the debugger (debugger.c).                                           *)
(***************************************************************************)
EXTENDS Integers, Sequences, FiniteSetsExt

CONSTANTS
  LeSpaces,      \* CPUCFG_LE_SPACE_NUMBER
  NotifierMax,   \* NOTIFIER_MAX
  BufferSize     \* DEBUG_BUFFER_SIZE

ASSUME DevicesAssumption == {LeSpaces, NotifierMax, BufferSize} \subseteq Nat \ {0}

-----------------------------------------------------------------------------
(* Little-endian windows: [used, ctrl, win], the slots in use being 0 ..     *)
(* used - 1; a window is <<start, end>>.                                     *)

NoWindow == <<0, 0>>
LeReset == [used |-> 0, ctrl |-> {}, win |-> [i \in 0 .. LeSpaces - 1 |-> NoWindow]]

\* the count is zeroed, the registers are left
cpucfg_init(le) == [le EXCEPT !.used = 0]
cpucfg_exit(le) == [le EXCEPT !.used = 0]

LeFull(le) == le.used >= LeSpaces

cpucfg_set_little_endian_address(le, start, end) ==
  IF LeFull(le) THEN le
  ELSE [used |-> le.used + 1, ctrl |-> le.ctrl \cup {le.used},
        win |-> [le.win EXCEPT ![le.used] = <<start, end>>]]

\* the last window with these bounds (addresses compare in 512-byte blocks, a
\* zero end matches any); the last slot moves into its place
cpucfg_remove_little_endian_address(le, start, end) ==
  LET found == {i \in 0 .. le.used - 1 :
                  /\ le.win[i][1] \div 512 = start \div 512
                  /\ end = 0 \/ le.win[i][2] \div 512 = end \div 512}
      i == Max(found)
      last == le.used - 1
  IN  IF found = {} THEN le
      ELSE [used |-> last,
            ctrl |-> (le.ctrl \ {i, last}) \cup (IF i = last THEN {} ELSE {i}),
            win |-> [le.win EXCEPT ![i] = le.win[last], ![last] = NoWindow]]

-----------------------------------------------------------------------------
(* Pins of bank L: function, pull and drive, each a field of its own         *)

Pins == {"PL0", "PL1", "PL2", "PL3"}
PinsReset == [sel |-> [p \in Pins |-> 15], pull |-> [p \in Pins |-> 0], drive |-> [p \in Pins |-> 1]]

pin_set_multi_sel(r, p, v) == [r EXCEPT !.sel[p] = v]
pin_set_pull(r, p, v) == [r EXCEPT !.pull[p] = v]
pin_set_drive(r, p, v) == [r EXCEPT !.drive[p] = v]

-----------------------------------------------------------------------------
(* Watchdog 0: clock source, what it resets, interval, running               *)

WatchdogReset == [clk |-> "dcxo", rst |-> "none", intv |-> 0, on |-> FALSE]

\* every write carries the key and keeps the bits it does not name
watchdog_init(w) == [w EXCEPT !.clk = "rtc32k", !.rst = "sys", !.intv = 4]
watchdog_enable(w) == [w EXCEPT !.on = TRUE]
watchdog_disable(w) == [w EXCEPT !.on = FALSE]

-----------------------------------------------------------------------------
(* Notifiers: [used, list], list[h] the call-backs of head h, newest first   *)

Heads == {"daemon", "hosc"}
notifier_init(n) == [n EXCEPT !.used = 0]
notifier_alloc(n) == n.used < NotifierMax

notifier_insert(n, h, cb) ==
  IF ~notifier_alloc(n) THEN n
  ELSE [used |-> n.used + 1, list |-> [n.list EXCEPT ![h] = <<cb>> \o @]]

\* of a list of two or more the first entry is never looked at
notifier_delete(n, h, cb) ==
  LET l == n.list[h]
      at == {i \in DOMAIN l : l[i] = cb /\ (Len(l) = 1 \/ i > 1)}
      k == Min(at)
  IN  IF at = {} THEN n
      ELSE [used |-> n.used - 1,
            list |-> [n.list EXCEPT ![h] = SubSeq(l, 1, k - 1) \o SubSeq(l, k + 1, Len(l))]]

-----------------------------------------------------------------------------
(* debugger_printf: a format is a sequence of tokens [kind, len, align]; a   *)
(* number of 32 bits takes at most eleven characters, a width one digit      *)

Token == {t \in [kind : {"number", "string", "char", "other"}, len : Nat, align : 0 .. 9] :
            t.kind = "number" => t.len <= 11}

\* print_align: a number is filled up to its width
print_align(len, align) == IF len < align THEN align - len ELSE 0

\* characters a token leaves in the buffer when pos are there already
Emit(tok, pos) ==
  CASE tok.kind = "number" -> tok.len + print_align(tok.len, tok.align)
    [] tok.kind = "string" -> Min({tok.len, BufferSize - 1 - pos})
    [] tok.kind = "char" -> 1
    [] tok.kind = "other" -> 2

\* room is kept for a number and the terminator
Stops(pos) == pos >= BufferSize - 16

\* where the terminator is written
debugger_printf(format) ==
  LET Pos[i \in 0 .. Len(format)] ==
        IF i = 0 THEN 0
        ELSE IF Stops(Pos[i - 1]) THEN Pos[i - 1]
        ELSE Pos[i - 1] + Emit(format[i], Pos[i - 1])
  IN  Pos[Len(format)]

\* the kinds of message shown: 0xf0 >> (level + 1) over bits 3 (ERR) .. 0 (INF);
\* the processor shifts by the low five bits
Shown(level) == {b \in 0 .. 3 : LET s == (level + 1) % 32 IN 4 - s <= b /\ b <= 7 - s}
=============================================================================
