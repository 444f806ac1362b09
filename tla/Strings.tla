------------------------------ MODULE Strings -------------------------------
(***************************************************************************)
(* The firmware's own C library (ar100s/library/string.c, library.c).      *)
(* Memory is a function of addresses; a character is a number, 0 ends a    *)
(* string, and the digits 0 .. F are 48 .. 57 and 65 .. 70.  Each operator *)
(* makes the loop's stores in the loop's order, so that regions that       *)
(* overlap come out as they do in the code.                                *)
(***************************************************************************)
EXTENDS Integers, Sequences

LOCAL INSTANCE SequencesExt

CONSTANT IntWord      \* number of values of an int (2^32 in the code)

ASSUME IntAssumption == IntWord \in Nat \ {0} /\ IntWord % 2 = 0

Indices(n) == [i \in 1 .. n |-> i - 1]        \* 0 .. n - 1 in order

\* n stores of single bytes, upwards
Bytes(m, dest, src, n) ==
  FoldLeft(LAMBDA acc, i : [acc EXCEPT ![dest + i] = acc[src + i]], m, Indices(n))

\* n stores of LONGs: four bytes are read before one is written
Longs(m, dest, src, n) ==
  FoldLeft(LAMBDA acc, i : [a \in DOMAIN acc |-> IF a - dest \in 4 * i .. 4 * i + 3
                                                 THEN acc[a - dest + src] ELSE acc[a]],
           m, Indices(n))

memcpy(m, dest, src, n) ==
  IF dest % 4 # 0 \/ src % 4 # 0
  THEN Bytes(m, dest, src, n)
  ELSE LET k == n % 4 IN Bytes(Longs(m, dest, src, n \div 4), dest + n - k, src + n - k, k)

memmove(m, dest, src, n) ==
  IF dest <= src \/ dest >= src + n
  THEN Bytes(m, dest, src, n)
  ELSE FoldLeft(LAMBDA acc, i : [acc EXCEPT ![dest + i] = acc[src + i]], m, Reverse(Indices(n)))

memset(m, s, c, n) == [a \in DOMAIN m |-> IF a \in s .. s + n - 1 THEN c ELSE m[a]]

\* The first place from p on where Stop holds.
Until(m, p, Stop(_)) == CHOOSE a \in DOMAIN m : a >= p /\ Stop(a) /\ \A b \in p .. a - 1 : ~Stop(b)

\* The count is decremented only after equal bytes: with n = 0 it wraps, and the
\* comparison goes on to the first difference.
memcmp(m, p, q, n) ==
  LET Stop(a) == m[a] # m[q + (a - p)] \/ a = p + n - 1
      at      == Until(m, p, Stop)
  IN  m[at] - m[q + (at - p)]

\* -1: not found
memchr(m, s, c, n) ==
  IF \E a \in s .. s + n - 1 : m[a] = c THEN Until(m, s, LAMBDA a : m[a] = c) ELSE -1

strlen(m, s)     == Until(m, s, LAMBDA a : m[a] = 0) - s
strnlen(m, s, n) == Until(m, s, LAMBDA a : a - s >= n \/ m[a] = 0) - s

strcpy(m, dest, src) == Bytes(m, dest, src, strlen(m, src) + 1)

\* src stays on its terminator, which pads the rest
strncpy(m, dest, src, count) ==
  FoldLeft(LAMBDA acc, i :
             [mem |-> [acc.mem EXCEPT ![dest + i] = acc.mem[acc.src]],
              src |-> IF acc.mem[acc.src] # 0 THEN acc.src + 1 ELSE acc.src],
           [mem |-> m, src |-> src], Indices(count)).mem

\* count characters at most, and a terminator behind them
strncat(m, dest, src, count) ==
  LET end == dest + strlen(m, dest)
      n   == strnlen(m, src, count)
  IN  IF count = 0 THEN m ELSE [Bytes(m, end, src, n) EXCEPT ![end + n] = 0]

Sign(a, b) == IF a = b THEN 0 ELSE IF a < b THEN -1 ELSE 1

\* up to the first difference or the common end
strcmp(m, cs, ct) ==
  LET at == Until(m, cs, LAMBDA a : m[a] # m[ct + (a - cs)] \/ m[a] = 0)
  IN  Sign(m[at], m[ct + (at - cs)])

strncmp(m, cs, ct, count) ==
  LET at == Until(m, cs, LAMBDA a : a - cs >= count \/ m[a] # m[ct + (a - cs)] \/ m[a] = 0)
  IN  IF at - cs >= count THEN 0 ELSE Sign(m[at], m[ct + (at - cs)])

\* the terminator itself is never found
strchr(m, s, c) ==
  LET at == Until(m, s, LAMBDA a : m[a] = c \/ m[a] = 0) IN IF m[at] = 0 THEN -1 ELSE at

-----------------------------------------------------------------------------
(* Numbers.  A string here is the sequence of its characters.               *)

digit_string(d) == IF d < 10 THEN 48 + d ELSE 55 + d

\* an int of IntWord values, from any integer
Int32(v) == ((v + IntWord \div 2) % IntWord) - IntWord \div 2

\* the digits come out last first, and are turned round
Digits(value, radix) ==
  LET Stack[v \in 0 .. value] ==
        IF v = 0 THEN <<>> ELSE <<digit_string(v % radix)>> \o Stack[v \div radix]
  IN  Reverse(Stack[value])

utoa(value, radix) == IF value = 0 THEN <<48>> ELSE Digits(value, radix)

\* the most negative int is its own negative: no digit is written
itoa(value, radix) ==
  LET v == IF value < 0 THEN Int32(-value) ELSE value
  IN  IF value = 0 THEN <<48>>
      ELSE (IF value < 0 THEN <<45>> ELSE <<>>) \o (IF v > 0 THEN Digits(v, radix) ELSE <<>>)

\* the value of a character in radix r, or -1
Value(c, r) ==
  CASE c \in 48 .. 57            -> c - 48
    [] c \in 65 .. 70 /\ r = 16  -> c - 55
    [] c \in 97 .. 102 /\ r = 16 -> c - 87
    [] OTHER                     -> -1

\* up to the first character that is no digit, in unsigned arithmetic
ToInt(str, r) ==
  LET bad == {i \in DOMAIN str : Value(str[i], r) = -1}
      n   == IF bad = {} THEN Len(str) ELSE (CHOOSE i \in bad : \A j \in bad : i <= j) - 1
  IN  FoldLeft(LAMBDA acc, c : (acc * r + Value(c, r)) % IntWord, 0, SubSeq(str, 1, n))

dstr2int(str) == ToInt(str, 10)
hstr2int(str) == ToInt(IF Len(str) > 1 /\ str[1] = 48 /\ str[2] = 120 THEN SubSeq(str, 3, Len(str)) ELSE str, 16)

\* In a format, -1 is %d and -2 any other conversion, which is dropped.
sprintf(fmt, args) ==
  FoldLeft(LAMBDA acc, t :
             CASE t = -1 -> [out |-> acc.out \o itoa(Head(acc.args), 10), args |-> Tail(acc.args)]
               [] t = -2 -> acc
               [] OTHER  -> [acc EXCEPT !.out = Append(@, t)],
           [out |-> <<>>, args |-> args], fmt).out

=============================================================================
