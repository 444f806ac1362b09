------------------------------- MODULE MCFdt --------------------------------
(* FdtEdit for TLC: three node names, one of them with a unit address, two  *)
(* properties, and buffers that hold a few nodes or a few properties, or    *)
(* not even the padded header.  Two trees with the strings before the       *)
(* structure block come from elsewhere: one of version 16, one of version   *)
(* 18 with aliases, cells, statuses and string lists.  With it, the         *)
(* firmware's C library over every small region.                            *)
EXTENDS FdtEdit, Strings

MCName == {0, 101, 102, 103, Aliases}
MCNoUnit == [n \in MCName |-> IF n = 102 THEN 101 ELSE n]
MCAliasPath == [w \in {501} |-> <<102>>]
MCValues == {<<>>, <<601>>, <<602, 601>>}
MCReserves == {<<7, 8>>}

OldBlob ==
  [magic |-> "fdt", version |-> 16, comp |-> 16, total |-> 22, off_rsv |-> 10, off_struct |-> 15,
   off_strings |-> 14, rsv |-> <<<<0, 0>>>>, strs |-> <<Phandle>>,
   st |-> <<1, 0, 3, 0, 0, 2, 9>>]
OldTree == <<[depth |-> 0, name |-> 0, props |-> <<Prop(Phandle, <<>>)>>]>>

BoardTree ==
  <<[depth |-> 0, name |-> 0, props |-> <<Prop(AddressCells, <<1>>), Prop(SizeCells, <<5>>)>>],
    [depth |-> 1, name |-> Aliases, props |-> <<Prop(210, <<501>>)>>],
    [depth |-> 1, name |-> 102, props |-> <<Prop(Compatible, <<601, 602, Unterminated>>), Prop(Status, <<Disabled>>)>>],
    [depth |-> 2, name |-> 103, props |-> <<Prop(Compatible, <<Unterminated, 601, 602>>), Prop(Status, <<602>>)>>]>>
Strs == <<AddressCells, SizeCells, 210, Compatible, Status>>
BoardBlob ==
  [magic |-> "fdt", version |-> 18, comp |-> 17, total |-> 19 + 45, off_rsv |-> 10, off_struct |-> 19,
   off_strings |-> 14, rsv |-> <<<<0, 0>>>>, strs |-> Strs,
   st |-> <<1, 0, 3, 1, 0, 1, 3, 1, 1, 5,  1, Aliases, 3, 1, 2, 501, 2,
            1, 102, 3, 3, 3, 601, 602, Unterminated, 3, 1, 4, Disabled,
            1, 103, 3, 3, 3, Unterminated, 601, 602, 3, 1, 4, 602, 2,  2, 2, 9>>]
MCGiven == {[b |-> OldBlob, tree |-> OldTree], [b |-> BoardBlob, tree |-> BoardTree]}

-----------------------------------------------------------------------------
Mem == [a \in 0 .. 13 |-> a]

Moved(dest, src, n) == [a \in DOMAIN Mem |-> IF a - dest \in 0 .. n - 1 THEN Mem[a - dest + src] ELSE Mem[a]]

\* memmove moves a region onto any other, the overlapping ones of the splices of
\* libfdt included, and memcpy every one that does not overlap, whatever the
\* alignment and the rest behind the last long.
ASSUME MovesWhole ==
  \A n \in 0 .. 6, d, s \in 0 .. 7 :
     /\ memmove(Mem, d, s, n) = Moved(d, s, n)
     /\ d + n <= s \/ s + n <= d => memcpy(Mem, d, s, n) = Moved(d, s, n)

\* Strings of up to three characters at address 0 and another at 4, and what
\* a region of eight holds.
Texts == {t \in [0 .. 3 -> {0, 1, 2}] : t[3] = 0}
Two(t, u) == [a \in 0 .. 15 |-> IF a \in 0 .. 3 THEN t[a] ELSE IF a \in 4 .. 7 THEN u[a - 4]
                                ELSE IF a = 15 THEN 0 ELSE 9]
Prefix(m, p, n) == [i \in 1 .. n |-> m[p + i - 1]]
Text(m, p) == Prefix(m, p, strlen(m, p))

\* Comparisons order strings as sequences, a bounded copy or append leaves a
\* string of at most the bound, changes nothing behind it, and every search
\* finds the first match or nothing.  A memcmp of no bytes at all is not equal:
\* it tells the first difference, wherever that is.
ASSUME StringsAgree ==
  \A t, u \in Texts, n \in 0 .. 4 :
     LET m == Two(t, u)
         Cut(w) == Prefix(w, 0, IF strlen(w, 0) < n THEN strlen(w, 0) ELSE n)
         cpy == strncpy(m, 8, 0, n)
         cat == strncat(strcpy(m, 8, 4), 8, 0, n)
     IN  /\ (strcmp(m, 0, 4) = 0) = (Text(m, 0) = Text(m, 4))
         /\ strcmp(m, 0, 4) = -strcmp(m, 4, 0)
         /\ (strncmp(m, 0, 4, n) = 0)
              = (Prefix(m, 0, strnlen(m, 0, n)) = Prefix(m, 4, strnlen(m, 4, n)))
         /\ Prefix(cpy, 8, n) = [i \in 1 .. n |-> IF i <= strlen(m, 0) THEN m[i - 1] ELSE 0]
         /\ \A a \in 8 + n .. 14 : cpy[a] = 9
         /\ Text(cat, 8) = Text(m, 4) \o Cut(m)
         /\ \A a \in 9 + Len(Text(cat, 8)) .. 14 : cat[a] \in {0, 9}
         /\ \A c \in 1 .. 2 : /\ strchr(m, 0, c) = memchr(m, 0, c, strlen(m, 0))
                              /\ memchr(m, 0, c, n) = -1 <=> \A i \in 0 .. n - 1 : m[i] # c
         /\ n > 0 => (memcmp(m, 0, 4, n) = 0) = (Prefix(m, 0, n) = Prefix(m, 4, n))
         /\ memcmp(m, 0, 8, 0) # 0
         /\ memset(m, 0, 0, n) = [a \in DOMAIN m |-> IF a < n THEN 0 ELSE m[a]]

\* A number that is written is read back, in both radices, the smallest int
\* apart, which is written as a sign alone.
ASSUME NumbersReadBack ==
  \A v \in 0 .. IntWord - 1 :
     LET i == Int32(v)
     IN  /\ dstr2int(utoa(v, 10)) = v /\ hstr2int(utoa(v, 16)) = v
         /\ hstr2int(<<48, 120>> \o utoa(v, 16)) = v
         /\ i < 0 => itoa(i, 10) = <<45>> \o (IF i = -(IntWord \div 2) THEN <<>> ELSE utoa(-i, 10))

\* dram_dts_parse asks for 96 properties by 96 names of two digits each.
ParaName(i) == sprintf(IF i < 10 THEN <<48, -1>> ELSE <<-1>>, <<i>>)

ASSUME ParaNames ==
  /\ \A i \in 0 .. 95 : Len(ParaName(i)) = 2 /\ dstr2int(ParaName(i)) = i
  /\ Cardinality({ParaName(i) : i \in 0 .. 95}) = 96
=============================================================================
