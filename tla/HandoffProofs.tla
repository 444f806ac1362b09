----------------------------- MODULE HandoffProofs -----------------------------
(***************************************************************************)
(* Proofs about the start of the management processor: Handoff, which      *)
(* releases it, and Firmware, which it then runs.                          *)
(*                                                                         *)
(* Handoff, for an SRAM and cache lines of any size and every size of      *)
(* SCP_BL2: whatever the cache evicts and in whichever order the stores of *)
(* the stub complete, each processor starts with all that was meant for    *)
(* it.  Firmware, for any messages, formats, samples and rates, and tick   *)
(* and address spaces of any size: what startup promised holds, the UART   *)
(* sends at its rate, checksums and log lines stay in bounds, and the      *)
(* daemon list keeps its period.                                           *)
(***************************************************************************)
EXTENDS Handoff, Firmware, FunctionTheorems, FiniteSetTheorems, WellFoundedInduction, TLAPS

(* The stub, in the order it runs: the E902 held; its SRAM written; the     *)
(* start-up inputs stored; the E902 released; the CPU's own restart.        *)
Holding  == {"hold", "hold dsb"}
Writing  == {"clear", "copy", "clean", "clean dsb"}
Inputs   == {"dtb", "btrace", "etrace", "bgr", "bgr dsb"}
Vector   == {"vector", "vector dsb", "release"}
Released == {"release dsb", "clock", "clock dsb", "readback", "readback dsb", "arch"}
Restart  == {"arch dsb", "alt", "rvbar", "rvbar dsb", "restarted"}

Val == {"boot0", "zero", "image", "tail", "old", "data"}

TypeOK ==
  /\ pc \in Holding \cup Writing \cup Inputs \cup Vector \cup Released \cup Restart
  /\ i \in Nat /\ size \in Sizes /\ dtb \in {"0", "hw_config"}
  /\ cached \in [Word -> Val \cup {None}] /\ sram \in [Word -> Val]
  /\ cleaning \subseteq Lines
  /\ DOMAIN reg = Reg /\ DOMAIN pend = Reg /\ reg["reset"] \in {"on", "off"}
  /\ e902 \in {"off", "old"} \cup NewFirmware

\* The registers with a store that may not have completed.
Pending ==
  CASE pc = "hold dsb"     -> {"reset"}
    [] pc = "btrace"       -> {"dtb"}
    [] pc = "etrace"       -> {"dtb", "btrace"}
    [] pc = "bgr"          -> {"dtb", "btrace", "etrace"}
    [] pc = "bgr dsb"      -> {"dtb", "btrace", "etrace", "bgr"}
    [] pc = "vector dsb"   -> {"vector"}
    [] pc = "release dsb"  -> {"reset"}
    [] pc = "clock dsb"    -> {"clock"}
    [] pc = "readback dsb" -> {"btrace"}
    [] pc = "arch dsb"     -> {"arch"}
    [] pc = "rvbar"        -> {"alt"}
    [] pc = "rvbar dsb"    -> {"alt", "rvbar"}
    [] OTHER               -> {}

PendInv == \A r \in Reg \ Pending : pend[r] = None

\* A store that was issued: it is on its way or it has arrived.
Issued(r, v) == pend[r] = v \/ (pend[r] = None /\ reg[r] = v)

IssuedInv ==
  /\ pc \in {"hold dsb"} \cup Writing \cup Inputs \cup Vector => Issued("reset", "off")
  /\ pc \in (Inputs \ {"dtb"}) \cup Vector \cup Released \cup Restart =>
       (e902 \in {"off", "fetch", "crt0", "bss"} => Issued("dtb", dtb))
  /\ pc \in (Vector \ {"vector"}) \cup Released \cup Restart => Issued("vector", "scp")
  /\ pc \in Released \cup Restart => Issued("reset", "on")
  /\ pc \in Restart => Issued("arch", "aarch64")
  /\ pc \in {"rvbar", "rvbar dsb", "restarted"} => Issued("alt", "bl31")
  /\ pc \in {"rvbar dsb", "restarted"} => Issued("rvbar", "bl31")

\* The E902 is stopped as soon as its reset arrives, and runs again only once
\* it was released.
E902Inv ==
  /\ pc \in Holding => /\ e902 \in {"off", "old"}
                       /\ (e902 = "off") = (reg["reset"] = "off")
  /\ pc \in Writing \cup Inputs \cup Vector => e902 = "off"
  /\ pc \in Released \cup Restart => /\ e902 # "old"
                                     /\ e902 # "off" => reg["reset"] = "on"
  /\ e902 \in {"base", "run"} => got = dtb
  /\ e902 \in NewFirmware \ {"fetch"} => reg["etrace"] = "e902"

\* A word of the SRAM as the application CPU sees it, through its cache.
Mem(w) == IF cached[w] # None THEN cached[w] ELSE sram[w]

MemInv ==
  /\ pc \in Holding => i = 0
  /\ pc = "clear" => i \in Word /\ \A w \in Word : w < i => Mem(w) = "zero"
  /\ pc = "copy" => i <= size[1] /\ \A w \in Word : Mem(w) = IF w < i THEN "image" ELSE "zero"
  /\ pc \in {"clean", "clean dsb"} \cup Inputs \cup Vector \cup Released \cup Restart =>
       (e902 \in {"off", "fetch"} => \A w \in Word : Mem(w) = Expected(w))

\* A line whose clean was issued is dirty only while the clean is on its way,
\* and behind the barrier no line is dirty.
CleanedLine(l) == l \in cleaning \/ \A w \in Word : LineOf(w) = l => cached[w] = None

CleanInv ==
  /\ pc = "clean" => i \in Lines /\ \A l \in Lines : l < i => CleanedLine(l)
  /\ pc = "clean dsb" => \A l \in Lines : CleanedLine(l)
  /\ pc \in Inputs \cup Vector \cup Released \cup Restart =>
       cleaning = {} /\ \A w \in Word : cached[w] = None

(***************************************************************************)
(* The inductive invariant.                                                *)
(***************************************************************************)
IInv == TypeOK /\ PendInv /\ IssuedInv /\ E902Inv /\ MemInv /\ CleanInv

USE DEF Holding, Writing, Inputs, Vector, Released, Restart

-----------------------------------------------------------------------------
(* The geometry of the SRAM. *)

\* Every word is in one of the lines the clean loop visits, and line 0 is one.
LEMMA LineOfWord == /\ \A w \in Word : LineOf(w) \in Lines
                    /\ 0 \in Lines /\ 0 \in Word /\ Lines \subseteq Nat /\ Word \subseteq Nat
<1>0. Words \in Nat \ {0} /\ PerLine \in Nat \ {0} /\ Words % PerLine = 0
  BY HandoffAssumption
<1> DEFINE n == Words \div PerLine
<1>1. n \in Nat /\ Words = PerLine * n
  BY <1>0
<1>2. ASSUME NEW w \in Word PROVE LineOf(w) \in Lines
  <2> DEFINE q == w \div PerLine
             r == w % PerLine
  <2>0. w \in Nat /\ w < Words
    BY <1>0 DEF Word
  <2>1. q \in Nat /\ r \in Nat /\ w = PerLine * q + r
    BY <2>0, <1>0
  <2>2. q < n
    <3> HIDE DEF q, r, n
    <3>1. SUFFICES ASSUME q >= n PROVE FALSE
      BY <2>1, <1>1
    <3>2. PerLine * q >= PerLine * n
      BY <3>1, <1>0, <1>1, <2>1
    <3>3. PerLine * q \in Nat /\ PerLine * n \in Nat
      BY <1>0, <1>1, <2>1
    <3> QED  BY <2>0, <2>1, <3>2, <3>3, <1>0, <1>1
  <2> QED  BY <2>1, <2>2, <1>1 DEF LineOf, Lines
<1>3. 0 \in Word /\ Word \subseteq Nat
  BY <1>0 DEF Word
<1>4. 0 \in Lines /\ Lines \subseteq Nat
  <2>1. LineOf(0) \in Lines
    BY <1>2, <1>3
  <2>2. LineOf(0) = 0
    BY <1>0 DEF LineOf
  <2> QED  BY <2>1, <2>2, <1>1 DEF Lines
<1> QED  BY <1>2, <1>3, <1>4

\* The words of the SRAM are numbered from 0.
LEMMA WordRange == /\ Words \in Nat \ {0}
                   /\ \A w : w \in Word <=> w \in Nat /\ w < Words
                   /\ \A w \in Word : ~ (w < 0)
<1>1. Words \in Nat \ {0}
  BY HandoffAssumption
<1>2. \A w : w \in Word <=> w \in Nat /\ w < Words
  BY <1>1 DEF Word
<1>3. \A w \in Nat : ~ (w < 0)
  OBVIOUS
<1> QED  BY <1>1, <1>2, <1>3

\* An image that fills the SRAM has no bytes behind its last word.
LEMMA SizeFits ==
  ASSUME NEW z \in Sizes
  PROVE  /\ z[1] \in Nat /\ z[2] \in Nat /\ z[1] <= Words
         /\ z[2] > 0 => z[1] \in Word
BY HandoffAssumption DEF Word

-----------------------------------------------------------------------------
(* The initial states. *)

\* A cold or a warm start, with whatever is in the cache, satisfies the
\* invariant.
LEMMA InitIInv == Init => IInv
<1> SUFFICES ASSUME Init PROVE IInv
  OBVIOUS
<1>1. TypeOK
  <2>1. DOMAIN reg = Reg /\ reg["reset"] \in {"on", "off"} /\ DOMAIN pend = Reg
    BY DEF Init, Reg
  <2> QED  BY <2>1 DEF Init, TypeOK, Val, NewFirmware
<1>2. PendInv /\ IssuedInv
  BY DEF Init, PendInv, Pending, IssuedInv
<1>3. E902Inv
  BY DEF Init, E902Inv, NewFirmware, Reg
<1>4. MemInv /\ CleanInv
  BY DEF Init, MemInv, CleanInv
<1> QED  BY <1>1, <1>2, <1>3, <1>4 DEF IInv

-----------------------------------------------------------------------------
(* The stub's register stores and barriers. *)

Stores ==
  \/ Hold \/ StoreDtb \/ StoreBtrace \/ StoreEtrace \/ StoreBgr \/ StoreVector \/ Release
  \/ StoreClock \/ Readback \/ StoreArch \/ StoreAlt \/ StoreRvbar

Barriers ==
  \/ HoldDsb \/ CleanDsb \/ BgrDsb \/ VectorDsb \/ ReleaseDsb \/ ClockDsb \/ ReadbackDsb
  \/ ArchDsb \/ RvbarDsb

\* A store changes its register's place in pend and the place of the stub.
LEMMA StoresIInv == IInv /\ Stores => IInv'
<1> SUFFICES ASSUME IInv, Stores PROVE IInv'
  OBVIOUS
<1> USE DEF Stores, Hold, StoreDtb, StoreBtrace, StoreEtrace, StoreBgr, StoreVector, Release,
            StoreClock, Readback, StoreArch, StoreAlt, StoreRvbar, Store, Go
<1>0. UNCHANGED <<i, size, dtb, cached, cleaning, sram, reg, e902, got>>
  BY DEF Keep, e
<1>1. TypeOK'
  BY <1>0 DEF IInv, TypeOK
<1>2. PendInv'
  BY ZenonT(30) DEF IInv, TypeOK, PendInv, Pending, Reg
<1>3. IssuedInv'
  <2>0. \A r \in Reg \ Pending : pend[r] = None
    BY DEF IInv, PendInv
  <2>1. CASE Hold
    BY <2>1, <2>0, <1>0 DEF IInv, TypeOK, IssuedInv, Issued, Reg
  <2>2. CASE StoreDtb
    BY <2>2, <2>0, <1>0 DEF IInv, TypeOK, IssuedInv, Issued, Reg
  <2>3. CASE StoreBtrace
    BY <2>3, <2>0, <1>0 DEF IInv, TypeOK, IssuedInv, Issued, Reg
  <2>4. CASE StoreEtrace
    BY <2>4, <2>0, <1>0 DEF IInv, TypeOK, IssuedInv, Issued, Reg
  <2>5. CASE StoreBgr
    BY <2>5, <2>0, <1>0 DEF IInv, TypeOK, IssuedInv, Issued, Reg
  <2>6. CASE StoreVector
    BY <2>6, <2>0, <1>0 DEF IInv, TypeOK, IssuedInv, Issued, Reg
  <2>7. CASE Release
    BY <2>7, <2>0, <1>0 DEF IInv, TypeOK, IssuedInv, Issued, Reg
  <2>8. CASE StoreClock
    BY <2>8, <2>0, <1>0 DEF IInv, TypeOK, IssuedInv, Issued, Reg
  <2>9. CASE Readback
    BY <2>9, <2>0, <1>0 DEF IInv, TypeOK, IssuedInv, Issued, Reg
  <2>10. CASE StoreArch
    BY <2>10, <2>0, <1>0 DEF IInv, TypeOK, IssuedInv, Issued, Reg
  <2>11. CASE StoreAlt
    BY <2>11, <2>0, <1>0 DEF IInv, TypeOK, IssuedInv, Issued, Reg
  <2>12. CASE StoreRvbar
    BY <2>12, <2>0, <1>0 DEF IInv, TypeOK, IssuedInv, Issued, Reg
  <2> QED  BY <2>1, <2>2, <2>3, <2>4, <2>5, <2>6, <2>7, <2>8, <2>9, <2>10, <2>11, <2>12
<1>4. E902Inv'
  BY <1>0 DEF IInv, E902Inv
<1>5. MemInv'
  BY <1>0 DEF IInv, MemInv, Mem, Expected
<1>6. CleanInv'
  BY <1>0 DEF IInv, CleanInv, CleanedLine
<1> QED  BY <1>1, <1>2, <1>3, <1>4, <1>5, <1>6 DEF IInv

\* Behind a barrier every store has arrived.
LEMMA BarriersIInv == IInv /\ Barriers => IInv'
<1> SUFFICES ASSUME IInv, Barriers PROVE IInv'
  OBVIOUS
<1> USE DEF Barriers, HoldDsb, CleanDsb, BgrDsb, VectorDsb, ReleaseDsb, ClockDsb, ReadbackDsb,
            ArchDsb, RvbarDsb, Dsb, Go
<1>0. UNCHANGED <<i, size, dtb, cached, cleaning, sram, reg, pend, e902, got>>
  BY DEF Keep, e
<1>1. cleaning = {} /\ \A r \in Reg : pend[r] = None
  BY DEF Drained
<1>2. TypeOK'
  BY <1>0 DEF IInv, TypeOK
<1>3. PendInv'
  BY <1>0, <1>1 DEF PendInv
<1>4. IssuedInv'
  BY <1>0, <1>1, ZenonT(30) DEF IInv, IssuedInv, Issued, Reg
<1>5. E902Inv'
  BY <1>0, <1>1 DEF IInv, TypeOK, E902Inv, IssuedInv, Issued, Reg, None
<1>6. MemInv'
  <2>1. CASE HoldDsb
    <3>1. pc' = "clear" /\ i' = 0
      BY <2>1, <1>0 DEF IInv, MemInv
    <3>2. 0 \in Word
      BY LineOfWord
    <3>3. \A w \in Word : ~ (w < 0)
      BY WordRange
    <3> QED  BY <3>1, <3>2, <3>3 DEF MemInv
  <2>2. CASE ~ HoldDsb
    BY <2>2, <1>0 DEF IInv, MemInv, Mem, Expected
  <2> QED  BY <2>1, <2>2
<1>7. CleanInv'
  <2>1. CASE CleanDsb
    BY <2>1, <1>0, <1>1, LineOfWord DEF IInv, CleanInv, CleanedLine
  <2>2. CASE ~ CleanDsb
    BY <2>2, <1>0 DEF IInv, CleanInv, CleanedLine
  <2> QED  BY <2>1, <2>2
<1> QED  BY <1>2, <1>3, <1>4, <1>5, <1>6, <1>7 DEF IInv

-----------------------------------------------------------------------------
(* The stub's loops, with the E902 held. *)

\* Clearing the SRAM, word by word.
LEMMA ClearIInv == IInv /\ Clear => IInv'
<1> SUFFICES ASSUME IInv, Clear PROVE IInv'
  OBVIOUS
<1>0. UNCHANGED <<size, dtb, cleaning, sram, reg, pend, e902, got>> /\ pc = "clear"
      /\ cached' = [cached EXCEPT ![i] = "zero"]
  BY DEF Clear, Keep, e, Write
<1>1. i \in Word /\ (\A w \in Word : w < i => Mem(w) = "zero") /\ e902 = "off" /\ TypeOK
  BY <1>0 DEF IInv, MemInv, E902Inv
<1>2. /\ cached' \in [Word -> Val \cup {None}]
      /\ \A w \in Word : w <= i => Mem(w)' = "zero"
  <2>1. \A w \in Word : w <= i => w < i \/ w = i
    BY <1>1, HandoffAssumption DEF Word
  <2> QED  BY <1>0, <1>1, <2>1 DEF TypeOK, Mem, Val, None
<1>3. \/ pc' = "clear" /\ i' = i + 1 /\ i + 1 \in Word
      \/ pc' = "copy" /\ i' = 0 /\ i = Words - 1
  BY <1>0, <1>1, HandoffAssumption DEF Clear, Word
<1>4. TypeOK'
  BY <1>0, <1>1, <1>2, <1>3, LineOfWord DEF TypeOK
<1>5. MemInv'
  <2>1. CASE pc' = "clear"
    <3>1. i' = i + 1 /\ i + 1 \in Word /\ \A w \in Word : w < i + 1 => w <= i
      BY <2>1, <1>1, <1>3, HandoffAssumption DEF Word
    <3> QED  BY <2>1, <3>1, <1>2 DEF MemInv
  <2>2. CASE pc' = "copy"
    <3>1. i' = 0 /\ i = Words - 1
      BY <2>2, <1>3
    <3>2. \A w \in Word : w <= i /\ ~ (w < 0)
      BY <3>1, WordRange
    <3>3. size' = size /\ 0 <= size[1]
      BY <1>0, <1>1, SizeFits DEF TypeOK
    <3> QED  BY <2>2, <3>1, <3>2, <3>3, <1>0, <1>2 DEF MemInv
  <2> QED  BY <2>1, <2>2, <1>3
<1>6. (PendInv /\ IssuedInv /\ E902Inv /\ CleanInv)'
  BY <1>0, <1>3 DEF IInv, PendInv, Pending, IssuedInv, Issued, E902Inv, CleanInv
<1> QED  BY <1>4, <1>5, <1>6 DEF IInv

\* Copying the image over it, its bytes behind the last whole word included.
LEMMA CopyIInv == IInv /\ Copy => IInv'
<1> SUFFICES ASSUME IInv, Copy PROVE IInv'
  OBVIOUS
<1>0. UNCHANGED <<size, dtb, cleaning, sram, reg, pend, e902, got>> /\ pc = "copy"
  BY DEF Copy, Keep, e
<1>1. (\A w \in Word : Mem(w) = IF w < i THEN "image" ELSE "zero") /\ e902 = "off" /\ TypeOK
      /\ i \in Nat /\ i <= size[1]
  BY <1>0 DEF IInv, MemInv, E902Inv, TypeOK
<1>2. size[1] \in Nat /\ size[2] \in Nat /\ size[1] <= Words /\ (size[2] > 0 => size[1] \in Word)
  BY <1>1, SizeFits DEF TypeOK
<1>3. \A w : w \in Word <=> w \in Nat /\ w < Words
  BY HandoffAssumption DEF Word
<1>4. 0 \in Lines
  BY LineOfWord
<1>5. CASE i < size[1] /\ Write(i, "image") /\ i' = i + 1 /\ pc' = pc
  <2>1. i \in Word
    BY <1>1, <1>2, <1>3, <1>5, HandoffAssumption
  <2>2. cached' = [cached EXCEPT ![i] = "image"]
    BY <1>5 DEF Write
  <2>3. TypeOK'
    BY <2>1, <2>2, <1>0, <1>1, <1>5 DEF TypeOK, Val
  <2>4. \A w \in Word : Mem(w)' = IF w = i THEN "image" ELSE Mem(w)
    BY <2>1, <2>2, <1>0, <1>1 DEF Mem, TypeOK, None
  <2>5. \A w \in Word : w \in Nat /\ (w < i + 1 <=> (w < i \/ w = i))
    BY <1>1, <1>3
  <2>6. i + 1 <= size[1]
    BY <1>1, <1>2, <1>5
  <2>7. MemInv'
    BY <2>4, <2>5, <2>6, <1>0, <1>1, <1>5 DEF MemInv
  <2>8. (PendInv /\ IssuedInv /\ E902Inv /\ CleanInv)'
    BY <1>0, <1>5 DEF IInv, PendInv, Pending, IssuedInv, Issued, E902Inv, CleanInv
  <2> QED  BY <2>3, <2>7, <2>8 DEF IInv
<1>6. CASE i = size[1] /\ i' = 0 /\ pc' = "clean"
           /\ ((size[2] > 0 /\ Write(i, "tail")) \/ (size[2] = 0 /\ UNCHANGED cached))
  <2>1. /\ cached' \in [Word -> Val \cup {None}]
        /\ \A w \in Word : Mem(w)' = IF w = i /\ size[2] > 0 THEN "tail" ELSE Mem(w)
    <3>1. CASE size[2] > 0 /\ Write(i, "tail")
      <4>1. i \in Word /\ cached' = [cached EXCEPT ![i] = "tail"]
        BY <3>1, <1>2, <1>6 DEF Write
      <4> QED  BY <4>1, <3>1, <1>0, <1>1 DEF Mem, TypeOK, None, Val
    <3>2. CASE size[2] = 0 /\ UNCHANGED cached
      BY <3>2, <1>0, <1>1 DEF Mem, TypeOK
    <3> QED  BY <1>6, <3>1, <3>2
  <2>2. TypeOK'
    BY <2>1, <1>0, <1>1, <1>6 DEF TypeOK
  <2>3. \A w \in Word : Mem(w)' = Expected(w)
    BY <2>1, <1>1, <1>2, <1>6 DEF Expected
  <2>4. MemInv'
    BY <2>3, <1>0, <1>6 DEF MemInv, Expected
  <2>5. CleanInv'
    BY <1>4, <1>6, LineOfWord DEF CleanInv, Lines
  <2>6. (PendInv /\ IssuedInv /\ E902Inv)'
    BY <1>0, <1>6 DEF IInv, PendInv, Pending, IssuedInv, Issued, E902Inv
  <2> QED  BY <2>2, <2>4, <2>5, <2>6 DEF IInv
<1> QED  BY <1>5, <1>6 DEF Copy

\* Issuing the clean of every line.
LEMMA CleanIInv == IInv /\ Clean => IInv'
<1> SUFFICES ASSUME IInv, Clean PROVE IInv'
  OBVIOUS
<1>0. UNCHANGED <<size, dtb, cached, sram, reg, pend, e902, got>> /\ pc = "clean"
      /\ cleaning' = cleaning \cup {i}
  BY DEF Clean, Keep, e
<1>1. i \in Lines /\ (\A l \in Lines : l < i => CleanedLine(l)) /\ TypeOK
  BY <1>0 DEF IInv, CleanInv
<1>2. \/ pc' = "clean" /\ i' = i + 1 /\ i + 1 \in Lines
      \/ pc' = "clean dsb" /\ i' = 0 /\ i + 1 \notin Lines
  BY DEF Clean, Go
<1>3. TypeOK'
  BY <1>0, <1>1, <1>2, LineOfWord DEF TypeOK
<1>4. \A l \in Lines : CleanedLine(l) \/ l = i => CleanedLine(l)'
  BY <1>0 DEF CleanedLine
<1>5. CleanInv'
  <2>0. Words \div PerLine \in Nat
    BY HandoffAssumption
  <2>1. CASE pc' = "clean"
    <3>1. \A l \in Lines : l < i + 1 => l < i \/ l = i
      BY <1>1, <2>0 DEF Lines
    <3> QED  BY <3>1, <2>1, <1>1, <1>2, <1>4 DEF CleanInv
  <2>2. CASE pc' = "clean dsb"
    <3>1. \A l \in Lines : l < i \/ l = i
      <4> DEFINE n == Words \div PerLine
      <4>1. n \in Nat /\ i \in 0..(n - 1) /\ i + 1 \notin 0..(n - 1)
        BY <2>0, <2>2, <1>1, <1>2 DEF Lines
      <4>2. Lines = 0..(n - 1)
        BY DEF Lines
      <4> HIDE DEF n
      <4> QED  BY <4>1, <4>2
    <3> QED  BY <3>1, <2>2, <1>1, <1>2, <1>4 DEF CleanInv
  <2> QED  BY <2>1, <2>2, <1>2
<1>6. (PendInv /\ IssuedInv /\ E902Inv)'
  BY <1>0, <1>2 DEF IInv, PendInv, Pending, IssuedInv, Issued, E902Inv
<1>7. MemInv'
  BY <1>0, <1>2 DEF IInv, MemInv, Mem, Expected
<1> QED  BY <1>3, <1>5, <1>6, <1>7 DEF IInv

-----------------------------------------------------------------------------
(* The memory system. *)

\* A line that is written back changes nothing the application CPU sees.
LEMMA WriteBackIInv == ASSUME NEW l \in Lines PROVE IInv /\ WriteBack(l) => IInv'
<1> SUFFICES ASSUME IInv, WriteBack(l) PROVE IInv'
  OBVIOUS
<1>0. UNCHANGED <<pc, i, size, dtb, reg, pend, e902, got>> /\ TypeOK
  BY DEF WriteBack, cpux, e, IInv
<1>1. TypeOK'
  <2>1. sram' \in [Word -> Val] /\ cached' \in [Word -> Val \cup {None}]
    BY <1>0 DEF WriteBack, TypeOK
  <2> QED  BY <2>1, <1>0 DEF TypeOK, WriteBack
<1>2. \A w \in Word : Mem(w)' = Mem(w)
  BY <1>0 DEF WriteBack, Mem, TypeOK, None, Val
<1>3. MemInv'
  BY <1>0, <1>2 DEF IInv, MemInv, Expected
<1>4. CleanInv'
  <2>1. \A w \in Word : cached[w] = None => cached'[w] = None
    BY DEF WriteBack
  <2>2. \A w \in Word : LineOf(w) = l => cached'[w] = None
    BY DEF WriteBack
  <2>3. \A k \in Lines : CleanedLine(k) => CleanedLine(k)'
    BY <2>1, <2>2 DEF WriteBack, CleanedLine
  <2> QED  BY <2>1, <2>3, <1>0 DEF IInv, CleanInv, WriteBack
<1>5. (PendInv /\ IssuedInv /\ E902Inv)'
  <2>1. PendInv'    BY <1>0 DEF IInv, PendInv, Pending
  <2>2. IssuedInv'  BY <1>0 DEF IInv, IssuedInv, Issued
  <2>3. E902Inv'    BY <1>0 DEF IInv, E902Inv
  <2> QED  BY <2>1, <2>2, <2>3
<1> QED  BY <1>1, <1>3, <1>4, <1>5 DEF IInv

\* The clean of a line that is clean completes.
LEMMA CleanDoneIInv == ASSUME NEW l \in Lines PROVE IInv /\ CleanDone(l) => IInv'
<1> SUFFICES ASSUME IInv, CleanDone(l) PROVE IInv'
  OBVIOUS
<1>0. UNCHANGED <<pc, i, size, dtb, reg, pend, e902, got, cached, sram>> /\ TypeOK
  BY DEF CleanDone, cpux, e, IInv
<1>1. TypeOK'
  BY <1>0 DEF TypeOK, CleanDone
<1>2. MemInv'
  BY <1>0 DEF IInv, MemInv, Mem, Expected
<1>3. CleanInv'
  <2>1. \A k \in Lines : CleanedLine(k) => CleanedLine(k)'
    BY <1>0 DEF CleanDone, CleanedLine
  <2> QED  BY <2>1, <1>0 DEF IInv, CleanInv, CleanDone
<1>4. (PendInv /\ IssuedInv /\ E902Inv)'
  <2>1. PendInv'    BY <1>0 DEF IInv, PendInv, Pending
  <2>2. IssuedInv'  BY <1>0 DEF IInv, IssuedInv, Issued
  <2>3. E902Inv'    BY <1>0 DEF IInv, E902Inv
  <2> QED  BY <2>1, <2>2, <2>3
<1> QED  BY <1>1, <1>2, <1>3, <1>4 DEF IInv

\* A register store completes: only the held reset stops the E902.
LEMMA CompleteIInv == ASSUME NEW r \in Reg PROVE IInv /\ Complete(r) => IInv'
<1> SUFFICES ASSUME IInv, Complete(r) PROVE IInv'
  OBVIOUS
<1>0. UNCHANGED <<pc, i, size, dtb, cached, cleaning, sram, got>> /\ TypeOK /\ pend[r] # None
      /\ reg' = [reg EXCEPT ![r] = pend[r]] /\ pend' = [pend EXCEPT ![r] = None]
  BY DEF Complete, cpux, IInv
<1>1. r \in Pending
  BY <1>0 DEF IInv, PendInv
<1>2. \A q \in Reg : /\ q # r => reg'[q] = reg[q] /\ pend'[q] = pend[q]
                     /\ q = r => reg'[q] = pend[q] /\ pend'[q] = None
  BY <1>0 DEF TypeOK
<1>3. \A q \in Reg : \A v : v # None /\ Issued(q, v) => Issued(q, v)'
  <2> SUFFICES ASSUME NEW q \in Reg, NEW v, v # None, Issued(q, v) PROVE Issued(q, v)'
    OBVIOUS
  <2>1. CASE q = r  BY <2>1, <1>0, <1>2 DEF Issued
  <2>2. CASE q # r  BY <2>2, <1>2 DEF Issued
  <2> QED  BY <2>1, <2>2
<1>4. r = "reset" => \/ pc = "hold dsb" /\ pend[r] = "off"
                     \/ pc = "release dsb" /\ pend[r] = "on"
  BY <1>0, <1>1 DEF Pending, IInv, IssuedInv, Issued
<1>5. \/ e902' = e902
      \/ e902' = "off" /\ (e902 = "off" \/ (r = "reset" /\ pc = "hold dsb"))
  <2>1. e902' = IF reg'["reset"] = "off" THEN "off" ELSE e902
    BY DEF Complete
  <2>2. CASE r = "reset" /\ pc = "hold dsb"
    BY <2>1, <2>2
  <2>3. CASE r = "reset" /\ pc = "release dsb"
    BY <2>1, <2>3, <1>2, <1>4 DEF Reg
  <2>4. CASE r # "reset"
    BY <2>1, <2>4, <1>0, <1>2 DEF Reg, IInv, E902Inv, TypeOK
  <2> QED  BY <2>2, <2>3, <2>4, <1>4
<1>6. TypeOK'
  <2>1. reg'["reset"] \in {"on", "off"}
    BY <1>0, <1>2, <1>4 DEF TypeOK, Reg
  <2>2. e902' \in {"off", "old"} \cup NewFirmware
    BY <1>0, <1>5 DEF TypeOK
  <2> QED  BY <2>1, <2>2, <1>0 DEF TypeOK
<1>7. PendInv'
  BY <1>0, <1>2 DEF IInv, PendInv, Pending
<1>8. IssuedInv'
  BY <1>0, <1>3, <1>5 DEF IInv, IssuedInv, Reg, None, TypeOK
<1>9. E902Inv'
  <2>1. CASE r = "reset" /\ pc = "hold dsb"
    <3>1. e902' = "off" /\ reg'["reset"] = "off" /\ pc' = "hold dsb"
      BY <2>1, <1>0, <1>2, <1>4 DEF Complete, Reg
    <3> QED  BY <3>1 DEF E902Inv, NewFirmware
  <2>2. CASE r = "reset" /\ pc = "release dsb"
    BY <2>2, <1>0, <1>2, <1>4, <1>5 DEF IInv, E902Inv, NewFirmware, Reg
  <2>3. CASE r # "reset"
    <3>1. e902' = e902 /\ reg'["reset"] = reg["reset"]
      BY <2>3, <1>2, <1>5 DEF Reg
    <3>2. e902 \in NewFirmware => r # "etrace"
      BY <1>1 DEF Pending, IInv, E902Inv, NewFirmware
    <3> QED  BY <3>1, <3>2, <1>0, <1>2 DEF IInv, E902Inv, Reg
  <2> QED  BY <2>1, <2>2, <2>3, <1>4
<1>10. (MemInv /\ CleanInv)'
  BY <1>0, <1>1, <1>5 DEF IInv, MemInv, CleanInv, Mem, Expected, CleanedLine
<1> QED  BY <1>6, <1>7, <1>8, <1>9, <1>10 DEF IInv

-----------------------------------------------------------------------------
(* The E902. *)

\* The firmware of the previous boot runs only until the reset arrives.
LEMMA OldIInv == IInv /\ (OldFlag \/ \E w \in Word : OldData(w)) => IInv'
<1> SUFFICES ASSUME IInv, OldFlag \/ \E w \in Word : OldData(w) PROVE IInv'
  OBVIOUS
<1>0. UNCHANGED <<pc, i, size, dtb, cached, cleaning, pend, e902, got>> /\ TypeOK /\ e902 = "old"
  BY DEF OldFlag, OldData, cpux, e, IInv
<1>1. pc \in Holding
  BY <1>0 DEF IInv, TypeOK, E902Inv
<1>2. reg'["reset"] = reg["reset"] /\ DOMAIN reg' = Reg
  BY <1>0 DEF OldFlag, OldData, TypeOK, Reg
<1>3. sram' \in [Word -> Val]
  BY <1>0 DEF OldFlag, OldData, TypeOK, Val
<1>4. TypeOK'
  BY <1>0, <1>2, <1>3 DEF TypeOK
<1>5. PendInv'
  BY <1>0 DEF IInv, PendInv, Pending
<1>6. IssuedInv'
  BY <1>0, <1>1, <1>2 DEF IInv, IssuedInv, Issued
<1>7. E902Inv'
  BY <1>0, <1>1, <1>2 DEF IInv, E902Inv, NewFirmware
<1>8. (MemInv /\ CleanInv)'
  BY <1>0, <1>1 DEF IInv, MemInv, CleanInv
<1> QED  BY <1>4, <1>5, <1>6, <1>7, <1>8 DEF IInv

\* The new firmware runs only behind its release.
LEMMA NewReleased == IInv /\ New => pc \in Released \cup Restart
<1> SUFFICES ASSUME IInv, New, pc \notin Released \cup Restart PROVE FALSE
  OBVIOUS
<1>0. pc \in Holding \cup Writing \cup Inputs \cup Vector
  BY DEF IInv, TypeOK
<1>1. e902 \in {"off", "old"}
  BY <1>0 DEF IInv, E902Inv
<1>2. Fetch
  BY <1>1 DEF New, Breadcrumb, CleanBss, ReadDtbBase, SaveStateFlag
<1>3. reg["reset"] = "on" /\ e902 = "off"
  BY <1>2 DEF Fetch
<1>4. pc \notin Holding
  BY <1>3 DEF IInv, E902Inv
<1>5. pend["reset"] = None
  BY <1>0, <1>4 DEF IInv, PendInv, Pending, Reg
<1>6. Issued("reset", "off")
  BY <1>0, <1>4 DEF IInv, IssuedInv
<1> QED  BY <1>3, <1>5, <1>6 DEF Issued, None

\* The new firmware's steps keep the invariant.
LEMMA NewIInv == IInv /\ New => IInv'
<1> SUFFICES ASSUME IInv, New PROVE IInv'
  OBVIOUS
<1> USE DEF New, Fetch, Breadcrumb, CleanBss, ReadDtbBase, SaveStateFlag
<1>0. UNCHANGED <<pc, i, size, dtb, cached, cleaning, pend>> /\ TypeOK
  BY DEF cpux, IInv
<1>1. pc \in Released \cup Restart
  BY NewReleased
<1>2. /\ DOMAIN reg' = Reg
      /\ \A r \in Reg \ {"etrace", "dtb"} : reg'[r] = reg[r]
      /\ e902 # "base" => reg'["dtb"] = reg["dtb"]
  BY <1>0 DEF TypeOK, Reg
<1>3. sram' \in [Word -> Val] /\ (e902 # "crt0" => sram' = sram)
  BY <1>0 DEF TypeOK, Val
<1>4. TypeOK'
  <2>1. e902' \in NewFirmware
    BY DEF NewFirmware
  <2> QED  BY <2>1, <1>0, <1>2, <1>3 DEF TypeOK, Reg
<1>5. PendInv'
  BY <1>0 DEF IInv, PendInv, Pending
<1>6. IssuedInv'
  <2>1. e902' \in {"off", "fetch", "crt0", "bss"} =>
          e902 \in {"off", "fetch", "crt0"} /\ reg'["dtb"] = reg["dtb"]
    BY <1>2
  <2>2. \A r \in Reg \ {"etrace", "dtb"} : \A v : Issued(r, v) => Issued(r, v)'
    BY <1>0, <1>2 DEF Issued
  <2>3. e902' \in {"off", "fetch", "crt0", "bss"} => Issued("dtb", dtb)'
    BY <2>1, <1>0, <1>1 DEF IInv, IssuedInv, Issued
  <2> QED  BY <2>2, <2>3, <1>0, <1>1 DEF IInv, IssuedInv, Reg
<1>7. reg["dtb"] = dtb \/ e902 \in {"base", "run"}
  <2>1. pend["dtb"] = None
    BY <1>1 DEF IInv, PendInv, Pending, Reg
  <2>2. dtb # None
    BY <1>0 DEF TypeOK, None
  <2> QED  BY <2>1, <2>2, <1>1 DEF IInv, IssuedInv, Issued
<1>8. E902Inv'
  <2>1. e902' # "off" => reg'["reset"] = "on"
    BY <1>0, <1>1, <1>2 DEF IInv, E902Inv, TypeOK, Reg
  <2>2. e902' \in {"base", "run"} => got' = dtb'
    <3>1. e902 \in {"base", "run"} => got = dtb
      BY DEF IInv, E902Inv
    <3>2. CASE ReadDtbBase
      BY <3>2, <1>0, <1>7
    <3>3. CASE SaveStateFlag
      BY <3>1, <3>3, <1>0
    <3> QED  BY <3>2, <3>3
  <2>3. e902' \in NewFirmware \ {"fetch"} => reg'["etrace"] = "e902"
    BY <1>0 DEF IInv, E902Inv, NewFirmware, TypeOK, Reg
  <2> QED  BY <2>1, <2>2, <2>3, <1>0, <1>1 DEF E902Inv
<1>9. MemInv'
  BY <1>0, <1>1, <1>3 DEF IInv, MemInv, Mem, Expected
<1>10. CleanInv'
  BY <1>0 DEF IInv, CleanInv, CleanedLine
<1> QED  BY <1>4, <1>5, <1>6, <1>8, <1>9, <1>10 DEF IInv

\* Every step keeps the invariant.
LEMMA NextIInv == IInv /\ [Next]_vars => IInv'
<1> SUFFICES ASSUME IInv, [Next]_vars PROVE IInv'
  OBVIOUS
<1>1. CASE UNCHANGED vars
  <2>1. TypeOK'              BY <1>1 DEF vars, IInv, TypeOK
  <2>2. PendInv'             BY <1>1 DEF vars, IInv, PendInv, Pending
  <2>3. IssuedInv'           BY <1>1 DEF vars, IInv, IssuedInv, Issued
  <2>4. E902Inv'             BY <1>1 DEF vars, IInv, E902Inv
  <2>5. MemInv'              BY <1>1 DEF vars, IInv, MemInv, Mem, Expected
  <2>6. CleanInv'            BY <1>1 DEF vars, IInv, CleanInv, CleanedLine
  <2> QED  BY <2>1, <2>2, <2>3, <2>4, <2>5, <2>6 DEF IInv
<1>2. CASE Stub
  BY <1>2, StoresIInv, BarriersIInv, ClearIInv, CopyIInv, CleanIInv DEF Stub, Stores, Barriers
<1>3. CASE New \/ OldFlag \/ \E w \in Word : OldData(w)
  BY <1>3, NewIInv, OldIInv
<1>4. CASE \/ \E l \in Lines : WriteBack(l) \/ CleanDone(l)
           \/ \E r \in Reg : Complete(r)
  BY <1>4, WriteBackIInv, CleanDoneIInv, CompleteIInv
<1> QED  BY <1>1, <1>2, <1>3, <1>4 DEF Next, Over

-----------------------------------------------------------------------------
(* The results. *)

(***************************************************************************)
(* The invariant holds in every state of the handoff.                      *)
(***************************************************************************)
THEOREM HandoffInductive == Spec => []IInv
<1>1. Spec => Init /\ [][Next]_vars
  BY PTL DEF Spec
<1> QED  BY <1>1, InitIInv, NextIInv, PTL

(***************************************************************************)
(* The E902 fetches its first instruction only with the whole image, the   *)
(* vector and its inputs in place, takes the DTB address boot0 published,  *)
(* and the application CPU restarts in BL31 with nothing outstanding.      *)
(***************************************************************************)
THEOREM HandoffStartsClean == Spec => []StartsClean
<1>1. IInv => StartsClean
  <2> SUFFICES ASSUME IInv PROVE StartsClean
    OBVIOUS
  <2>0. TypeOK /\ dtb # None
    BY DEF IInv, TypeOK, None
  <2>1. e902 \in NewFirmware => pc \in Released \cup Restart
    BY DEF IInv, TypeOK, E902Inv, NewFirmware
  <2>2. pc \in Released \cup Restart =>
          \A r \in {"vector", "dtb", "etrace", "bgr"} : pend[r] = None
    BY DEF IInv, PendInv, Pending, Reg
  <2>3. e902 = "fetch" =>
          /\ \A w \in Word : sram[w] = Expected(w)
          /\ reg["vector"] = "scp" /\ reg["dtb"] = dtb
          /\ \A r \in {"vector", "dtb", "etrace", "bgr"} : pend[r] = None
    <3> SUFFICES ASSUME e902 = "fetch"
                 PROVE  /\ \A w \in Word : sram[w] = Expected(w)
                        /\ reg["vector"] = "scp" /\ reg["dtb"] = dtb
      BY <2>1, <2>2 DEF NewFirmware
    <3>0. pc \in Released \cup Restart
      BY <2>1 DEF NewFirmware
    <3>1. \A w \in Word : cached[w] = None /\ Mem(w) = Expected(w)
      BY <3>0 DEF IInv, CleanInv, MemInv
    <3>2. Issued("vector", "scp") /\ Issued("dtb", dtb)
      BY <3>0 DEF IInv, IssuedInv
    <3>3. pend["vector"] = None /\ pend["dtb"] = None
      BY <3>0, <2>2
    <3> QED  BY <3>1, <3>2, <3>3, <2>0 DEF Mem, Issued, None
  <2>4. BootsImage
    BY <2>3 DEF BootsImage, IInv, E902Inv
  <2>5. RestartsInBl31
    <3> SUFFICES ASSUME pc = "restarted"
                 PROVE  /\ reg["arch"] = "aarch64" /\ reg["alt"] = "bl31" /\ reg["rvbar"] = "bl31"
                        /\ Drained
      BY DEF RestartsInBl31
    <3>1. \A r \in Reg : pend[r] = None
      BY DEF IInv, PendInv, Pending
    <3>2. Issued("arch", "aarch64") /\ Issued("alt", "bl31") /\ Issued("rvbar", "bl31")
      BY DEF IInv, IssuedInv
    <3>3. cleaning = {}
      BY DEF IInv, CleanInv
    <3> QED  BY <3>1, <3>2, <3>3 DEF Issued, None, Drained, Reg
  <2> QED  BY <2>4, <2>5 DEF StartsClean
<1> QED  BY <1>1, HandoffInductive, PTL

(***************************************************************************)
(* Once the E902 has fetched, nothing but its own steps changes its SRAM:  *)
(* no dirty line of the application CPU is left to be evicted over it.     *)
(***************************************************************************)
THEOREM HandoffSramIsTheirs == Spec => SramIsTheirs
<1> DEFINE A == (e902 \in NewFirmware /\ sram' # sram) => e902' # e902
<1>1. IInv /\ [Next]_vars => [A]_vars
  <2> SUFFICES ASSUME IInv, [Next]_vars, e902 \in NewFirmware, sram' # sram PROVE e902' # e902
    OBVIOUS
  <2>1. pc \in Released \cup Restart /\ e902 # "old"
    BY DEF IInv, TypeOK, E902Inv, NewFirmware
  <2>2. \A l \in Lines : ~ WriteBack(l)
    BY <2>1 DEF IInv, CleanInv, WriteBack
  <2>3. ~ Stub /\ ~ (\E r \in Reg : Complete(r)) /\ ~ (\E l \in Lines : CleanDone(l)) /\ ~ Over
    BY DEF Stub, Stores, Hold, StoreDtb, StoreBtrace, StoreEtrace, StoreBgr, StoreVector, Release,
           StoreClock, Readback, StoreArch, StoreAlt, StoreRvbar, Store, HoldDsb, CleanDsb, BgrDsb,
           VectorDsb, ReleaseDsb, ClockDsb, ReadbackDsb, ArchDsb, RvbarDsb, Dsb, Clear, Copy, Clean,
           Keep, Complete, CleanDone, Over, vars
  <2>4. ~ OldFlag /\ ~ (\E w \in Word : OldData(w)) /\ ~ UNCHANGED vars
    BY <2>1 DEF OldFlag, OldData, vars
  <2>5. New
    BY <2>2, <2>3, <2>4 DEF Next
  <2> QED  BY <2>5 DEF New, Fetch, Breadcrumb, CleanBss, ReadDtbBase, SaveStateFlag
<1>2. Spec => [][Next]_vars
  BY PTL DEF Spec
<1> QED  BY <1>1, <1>2, HandoffInductive, PTL DEF SramIsTheirs

-----------------------------------------------------------------------------
(***************************************************************************)
(* Firmware                                                                *)
(***************************************************************************)

(* Before uart_init has run, or when it never will; the rest of startup_entry; *)
(* daemon_main, with the standby that a message starts.                        *)
BeforeUart == {"entry", "intc", "returned", "debugger"}
Starting   == BeforeUart \cup {"twi", "doze", "msgbox", "timer", "notify"}
OnRc       == {"slowed", "asleep", "resume", "fast"}
Looping    == OnRc \cup {"loop", "daemon", "baud", "off", "suspend", "slow", "fastened", "awake"}

RateCalls  == {"baud", "baud2", "baud3"}
ClockCalls == {"done", "done2", "done3"}
Latched    == {"baud3", "done3"}
Results    == {OK, EACCES, EINVAL, ETIMEOUT, ESRCH, EFAIL}

FirmwareTypeOK ==
  /\ prcm \in Regs
  /\ used \in BOOLEAN /\ lock \in BOOLEAN /\ rate \in Nat /\ arg \in Nat
  /\ dl \in 0 .. DivMax /\ act \in 0 .. DivMax /\ halt \subseteq {"chg", "upd"}
  /\ fifo \in Seq({"line", "own"}) /\ Len(fifo) <= FifoDepth
  /\ up \in {"idle", "req"} \cup RateCalls \cup ClockCalls
  /\ res \in Results
  /\ failed \subseteq {"baud", "baud3", "done", "done3", "req"}
  /\ stage \in Starting \cup Looping
  /\ tree \in AllTrees \cup {"read"}
  /\ dtb_base \in BOOLEAN /\ dram \in BOOLEAN /\ timerlock \in BOOLEAN /\ ready \in BOOLEAN
  /\ notif \in [used : Nat, list : [Heads -> Seq({"timer_hosc_onoff_cb", "cpu_stack_monitor"})]]
  /\ wdog \in [clk : {"dcxo", "rtc32k"}, rst : {"none", "sys"}, intv : {0, 4}, on : BOOLEAN]
  /\ soft \in Seq({"wakeup_timer"})
  /\ status \in {OK, EINVAL, EFAIL}
  /\ level \in Nat
  /\ crc \in [enable : 0 .. 1, src : Nat, len : Nat]
  /\ tick \in 0 .. TickSpace - 1 /\ next \in 0 .. TickSpace - 1 /\ since \in Nat
  /\ answer \in Results

(* What startup_entry has done by each of its stages. *)
TreeInv ==
  /\ stage = "entry" => cell = tree /\ le = LeReset
  /\ stage \in Starting => tree # "read"
  /\ stage # "entry" => le.used = (IF dtb_base THEN 1 ELSE 0) /\ le.ctrl = 0 .. le.used - 1
  /\ stage # "entry" /\ tree # "read" => (dtb_base <=> tree \in {"bare", "good"})
  /\ stage \in BeforeUart => ~ dram
  /\ stage \notin BeforeUart /\ tree # "read" => (dram <=> tree = "good")
  /\ dram => dtb_base

Running(clk) == clk \in prcm.on /\ clk \in prcm.nreset

StageInv ==
  /\ stage \in {"intc", "debugger", "twi", "msgbox", "timer"} => notif.used = 0
  /\ stage = "notify" => notif.used = 1
  /\ stage \in {"notify"} \cup Looping => notif.list["hosc"] # <<>> /\ soft = <<"wakeup_timer">>
  /\ stage \in Looping => notif.list["daemon"] # <<>>
  /\ stage \in Starting \ {"notify"} => soft = <<>>
  /\ stage \in BeforeUart \cup {"twi", "doze"} => ~ ready
  /\ stage = "doze" => status # OK
  /\ ~ wdog.on
  /\ stage \notin BeforeUart => Running("R_UART")
  /\ stage \notin BeforeUart \cup {"twi", "doze"} => Running("R_TWI")
  /\ stage \in {"timer", "notify"} \cup Looping => Running("MSGBOX")
  /\ stage \in {"notify"} \cup Looping => Running("R_TIMER0_1")

(* The bus clock the UART runs on, and which call is in progress when. *)
CallInv ==
  /\ stage # "entry" => prcm.apbs1.src = (IF stage \in OnRc THEN 2 ELSE 4)
  /\ used <=> stage \notin BeforeUart
  /\ up \in RateCalls => stage = "baud"
  /\ up \in ClockCalls => stage \in {"asleep", "awake"}
  /\ up = "req" => stage \in {"slow", "fast"}

(* The latch holds the divisor of the rate, or of the rate being set; it is in *)
(* effect unless a call failed or an update is under way.                      *)
RateInv ==
  /\ failed = {} /\ up \notin Latched => act = dl
  /\ ~ lock /\ failed = {} /\ up \notin Latched => dl = uart_divisor(Freq, rate)
  /\ up \in Latched => dl = uart_divisor(Freq, arg) /\ ("upd" \notin halt => act = dl)

(* A locked or unused UART has nothing to send; during a change of divisor     *)
(* only the driver's own announcement can be left, and around a clock switch   *)
(* the UART is locked unless the request failed.                               *)
QuietInv ==
  /\ ~ used => lock
  /\ lock => fifo = <<>>
  /\ up \in {"baud2", "baud3", "done2", "done3"} => fifo \in {<<>>, <<"own">>}
  /\ stage \in {"slow", "fast"} /\ up = "idle" => lock \/ "req" \in failed
  /\ stage \in {"slowed", "fastened"} => lock \/ failed # {}

(* An enabled checksum has passed the range check. *)
CrcInv == crc.enable = 1 => CrcRange(crc.src, crc.len)

(* The ticks to the next run of the daemon list, modulo the tick space, are    *)
(* those since the last one less the period.                                   *)
Lags(t, n, s) == (t - n) - (s - DaemonTicks) \in {0, TickSpace, -TickSpace}
DaemonInv ==
  /\ stage \in Starting => tick = 0 /\ since = 0
  /\ since = 0 \/ since < DaemonTicks + TickSpace \div 2
  /\ stage \in Looping => Lags(tick, next, since)

FirmwareIInv ==
  /\ FirmwareTypeOK /\ TreeInv /\ StageInv /\ CallInv /\ RateInv /\ QuietInv /\ CrcInv /\ DaemonInv

-----------------------------------------------------------------------------
(* What the operators do. *)

\* The rates the UART runs at, by the source of APBS1.
LEMMA FreqCases ==
  /\ prcm.apbs1.src = 4 => Freq = Dcxo
  /\ prcm.apbs1.src = 2 => Freq = prcm.iosc
BY DEF Freq, ccu_get_sclk_freq

\* ccu_get_sclk_freq returns a number.
LEMMA FreqTyped ==
  ASSUME prcm \in Regs
  PROVE  Freq \in Nat
<1>1. prcm.losc \in Nat /\ prcm.iosc \in Nat /\ Dcxo \in Nat /\ ApbsPll \in Nat
  BY PrcmAssumption DEF Regs
<1> QED  BY <1>1 DEF Freq, ccu_get_sclk_freq

\* Divisions of the divisor computations.
LEMMA QuotientNat == \A a \in Nat, b \in Nat : b # 0 => a \div b \in Nat
OBVIOUS

\* uart_set_baudrate writes what the two divisor latches hold.
LEMMA DivisorTyped ==
  ASSUME NEW freq \in Nat, NEW r \in Nat
  PROVE  uart_divisor(freq, r) \in 0 .. DivMax
<1> DEFINE d == r * 16
           q == (freq + d \div 2) \div d
<1>0. DivMax \in Nat
  BY UartAssumption
<1>1. CASE r = 0
  BY <1>0, <1>1 DEF uart_divisor
<1>2. CASE r # 0
  <2>1. d \in Nat /\ d # 0 /\ freq + d \div 2 \in Nat
    BY <1>2
  <2>2. q \in Nat
    BY <2>1, QuotientNat
  <2>3. uart_divisor(freq, r) = 0 \/ (uart_divisor(freq, r) = q /\ ~ (q > DivMax))
    BY DEF uart_divisor
  <2> HIDE DEF q
  <2> QED  BY <1>0, <2>2, <2>3
<1> QED  BY <1>1, <1>2

\* A module clock turned on, then taken out of reset: nothing else of the PRCM changes.
LEMMA ClockOn ==
  ASSUME NEW r \in Regs, NEW clk \in Gated \cap Resettable
  PROVE  LET q == ccu_set_mclk_reset(ccu_set_mclk_onoff(r, clk, TRUE), clk, TRUE)
         IN  /\ q \in Regs /\ q.on = r.on \cup {clk} /\ q.nreset = r.nreset \cup {clk}
             /\ q.apbs1 = r.apbs1 /\ q.iosc = r.iosc /\ q.losc = r.losc
BY DEF Regs, ccu_set_mclk_reset, ccu_set_mclk_onoff

\* The same the other way round.
LEMMA ClockUp ==
  ASSUME NEW r \in Regs, NEW clk \in Gated \cap Resettable
  PROVE  LET q == ccu_set_mclk_onoff(ccu_set_mclk_reset(r, clk, TRUE), clk, TRUE)
         IN  /\ q \in Regs /\ q.on = r.on \cup {clk} /\ q.nreset = r.nreset \cup {clk}
             /\ q.apbs1 = r.apbs1 /\ q.iosc = r.iosc /\ q.losc = r.losc
BY DEF Regs, ccu_set_mclk_reset, ccu_set_mclk_onoff

\* iosc_freq_init changes the two measured rates and no gate, reset or source.
LEMMA CalibrationTyped ==
  ASSUME NEW r \in Regs, NEW ht \in Nat, NEW xt \in Nat
  PROVE  LET q == iosc_freq_init(r, ht, xt)
         IN  /\ q \in Regs /\ q.on = r.on /\ q.nreset = r.nreset /\ q.apbs1 = r.apbs1
<1> DEFINE xf == ((Dcxo \div Khz) * ht) \div xt
<1>1. CASE r.known \/ ht = 0 \/ xt = 0 \/ ht > MaxMs
  BY <1>1 DEF iosc_freq_init
<1>2. CASE ~ (r.known \/ ht = 0 \/ xt = 0 \/ ht > MaxMs)
  <2>1. Dcxo \in Nat /\ Khz \in Nat /\ Khz # 0 /\ xt # 0
    BY <1>2, PrcmAssumption
  <2>2. Dcxo \div Khz \in Nat
    BY <2>1, QuotientNat
  <2>3. (Dcxo \div Khz) * ht \in Nat
    BY <2>2
  <2>4. xf \in Nat
    BY <2>1, <2>3, QuotientNat
  <2>5. iosc_freq_init(r, ht, xt)
          = [r EXCEPT !.iosc = xf * Khz, !.losc = (xf * Khz) \div 512, !.known = TRUE]
    BY <1>2 DEF iosc_freq_init
  <2> HIDE DEF xf
  <2>6. xf * Khz \in Nat
    BY <2>1, <2>4
  <2>7. (xf * Khz) \div 512 \in Nat
    BY <2>6, QuotientNat
  <2>8. \A a, b \in Nat :
          LET q == [r EXCEPT !.iosc = a, !.losc = b, !.known = TRUE]
          IN  q \in Regs /\ q.on = r.on /\ q.nreset = r.nreset /\ q.apbs1 = r.apbs1
    BY DEF Regs
  <2> DEFINE a == xf * Khz
             b == a \div 512
             q == [r EXCEPT !.iosc = a, !.losc = b, !.known = TRUE]
  <2> HIDE DEF a, b
  <2>9. q \in Regs /\ q.on = r.on /\ q.nreset = r.nreset /\ q.apbs1 = r.apbs1
    BY <2>6, <2>7, <2>8, ZenonT(30) DEF a, b
  <2>10. iosc_freq_init(r, ht, xt) = q
    BY <2>5 DEF a, b
  <2> QED  BY <2>9, <2>10
<1> QED  BY <1>1, <1>2

\* A tree that is good is left with one window open for it, one that is not with
\* none.
LEMMA WindowOpen ==
  ASSUME NEW base
  PROVE  LET d == dtb_base_init(base, cpucfg_init(LeReset))
         IN  /\ d.ok \in BOOLEAN /\ (d.ok <=> base \in {"bare", "good"})
             /\ d.le.used = (IF d.ok THEN 1 ELSE 0) /\ d.le.ctrl = 0 .. d.le.used - 1
<1> DEFINE w == cpucfg_init(LeReset)
           end == DtbAddr + DtsSize
           open == cpucfg_set_little_endian_address(w, DtbAddr, end)
           shut == cpucfg_remove_little_endian_address(open, DtbAddr, end)
<1>0. LeSpaces \in Nat /\ LeSpaces # 0 /\ DtbAddr \in Nat /\ end \in Nat
  BY DevicesAssumption, FirmwareAssumption
<1>1. LeReset.used = 0 /\ LeReset.ctrl = {} /\ DOMAIN LeReset.win = 0 .. LeSpaces - 1
  BY DEF LeReset
<1>a. w.used = 0 /\ w.ctrl = {} /\ DOMAIN w.win = 0 .. LeSpaces - 1
  BY <1>1 DEF cpucfg_init, LeReset
<1> DEFINE d == dtb_base_init(base, w)
<1> HIDE DEF w
<1>9. 0 .. 0 - 1 = {} /\ 0 .. 1 - 1 = {0}
  OBVIOUS
<1>10. SUFFICES /\ d.ok \in BOOLEAN /\ (d.ok <=> base \in {"bare", "good"})
               /\ d.le.used = (IF d.ok THEN 1 ELSE 0) /\ d.le.ctrl = 0 .. d.le.used - 1
  BY DEF w
<1>2. ~ LeFull(w)
  BY <1>0, <1>a DEF LeFull
<1>3. open.used = 1 /\ open.ctrl = {0} /\ open.win = [w.win EXCEPT ![0] = <<DtbAddr, end>>]
  BY <1>a, <1>2 DEF cpucfg_set_little_endian_address
<1>4. open.win[0] = <<DtbAddr, end>>
  BY <1>0, <1>3, <1>a
<1>5. shut.used = 0 /\ shut.ctrl = {}
  <2> DEFINE found == {n \in 0 .. open.used - 1 :
                         /\ open.win[n][1] \div 512 = DtbAddr \div 512
                         /\ end = 0 \/ open.win[n][2] \div 512 = end \div 512}
  <2>1. open.used = 1 /\ open.ctrl = {0}
    BY <1>3
  <2>2. 0 .. open.used - 1 = {0}
    BY <2>1
  <2>3. found = {0}
    BY <2>2, <1>4
  <2>4. Max(found) = 0
    BY <2>3 DEF Max
  <2> HIDE DEF found, open
  <2>5. shut.used = open.used - 1
        /\ shut.ctrl = (open.ctrl \ {Max(found), open.used - 1})
                         \cup (IF Max(found) = open.used - 1 THEN {} ELSE {Max(found)})
    BY <2>3 DEF cpucfg_remove_little_endian_address, found
  <2> QED  BY <2>1, <2>4, <2>5
<1> HIDE DEF open, shut
<1>6. CASE base \notin {"broken", "large", "bare", "good"}
  <2>1. dtb_base_init(base, w) = [ok |-> FALSE, le |-> w]
    BY <1>6 DEF dtb_base_init
  <2>2. d.ok = FALSE /\ d.le.used = 0 /\ d.le.ctrl = {}
    BY <2>1, <1>a, <1>6
  <2> QED  BY <2>2, <1>6, <1>9
<1>7. CASE base \in {"bare", "good"}
  <2>1. dtb_base_init(base, w) = [ok |-> TRUE, le |-> open]
    BY <1>2, <1>7 DEF dtb_base_init, open
  <2>2. d.ok = TRUE /\ d.le.used = 1 /\ d.le.ctrl = {0}
    BY <2>1, <1>3, <1>7
  <2> QED  BY <2>2, <1>7, <1>9
<1>8. CASE base \in {"broken", "large"}
  <2>1. dtb_base_init(base, w) = [ok |-> FALSE, le |-> shut]
    BY <1>2, <1>8 DEF dtb_base_init, open, shut
  <2>2. d.ok = FALSE /\ d.le.used = 0 /\ d.le.ctrl = {}
    BY <2>1, <1>5, <1>8
  <2> QED  BY <2>2, <1>8, <1>9
<1> QED  BY <1>6, <1>7, <1>8

-----------------------------------------------------------------------------
(* What a step leaves alone. *)

Settled == <<tree, cell, dtb_base, dram, le, notif, wdog, soft, timerlock, status, ready, used>>

\* The steps of the UART leave the firmware's own variables and the clocks.
LEMMA UartLeaves ==
  ASSUME UartStep(1 \in Shown(level)), UNCHANGED fw
  PROVE  /\ UNCHANGED <<prcm, used>> /\ UNCHANGED Settled
         /\ UNCHANGED <<stage, level, crc, tick, next, since, answer>>
<1>1. UNCHANGED <<prcm, used>>
  BY DEF UartStep, BaudDrained, BaudRefused, BaudBusy, BaudLatch, BaudUpdated, BaudStalled,
         ClkReqDrained, ClkReqBusy, Shift, Update, Fails
<1> QED  BY <1>1 DEF fw, Settled

\* The main loop leaves what startup settled, and the gates and resets.
LEMMA LoopLeaves ==
  ASSUME FirmwareTypeOK, Loop
  PROVE  /\ up = "idle" /\ stage \in Looping /\ stage' \in Looping /\ UNCHANGED Settled
         /\ prcm' \in Regs /\ prcm'.on = prcm.on /\ prcm'.nreset = prcm.nreset
<1>0. prcm \in Regs
  BY DEF FirmwareTypeOK
<1> DEFINE Goal == /\ up = "idle" /\ stage \in Looping /\ stage' \in Looping /\ UNCHANGED Settled
                   /\ prcm' \in Regs /\ prcm'.on = prcm.on /\ prcm'.nreset = prcm.nreset
<1>1. ASSUME NoMessage PROVE Goal
  BY <1>0, <1>1 DEF NoMessage, Settled, uart, Looping
<1>2. ASSUME BaudBack PROVE Goal
  BY <1>0, <1>2 DEF BaudBack, Done, Forget, Settled, fw_rest, Looping
<1>3. ASSUME Request PROVE Goal
  <2>1. UNCHANGED <<prcm, used>>
    BY <1>3 DEF Request, ClkReq
  <2> QED  BY <1>0, <1>3, <2>1 DEF Request, Settled, fw_rest, Looping, OnRc
<1>4. ASSUME Switch PROVE Goal
  <2>1. \A n \in {2, 4} : LET q == [prcm EXCEPT !.apbs1 = [src |-> n, m |-> 0]]
                          IN  q \in Regs /\ q.on = prcm.on /\ q.nreset = prcm.nreset
    BY <1>0 DEF Regs, BusReg
  <2>2. prcm' \in Regs /\ prcm'.on = prcm.on /\ prcm'.nreset = prcm.nreset
    BY <1>4, <2>1 DEF Switch
  <2> QED  BY <1>4, <2>2 DEF Switch, Forget, Settled, fw_rest, Looping, OnRc
<1>5. ASSUME Changed PROVE Goal
  <2>1. UNCHANGED <<prcm, used>>
    BY <1>5 DEF Changed, ClkDone, SetBaudrate
  <2> QED  BY <1>0, <1>5, <2>1 DEF Changed, Settled, fw_rest, Looping, OnRc
<1>6. ASSUME WakeUp PROVE Goal
  BY <1>0, <1>6 DEF WakeUp, Forget, Settled, fw_rest, Looping, OnRc
<1>7. ASSUME SuspendBack PROVE Goal
  BY <1>0, <1>7 DEF SuspendBack, Done, Forget, Settled, fw_rest, Looping, OnRc
<1>8. ASSUME Daemon PROVE Goal
  BY <1>0, <1>8 DEF Daemon, Settled, uart, Looping
<1>9. ASSUME Tick PROVE Goal
  BY <1>0, <1>9 DEF Tick, Settled, uart, Looping
<1>10. ASSUME NEW m \in Messages, Handle(m) PROVE Goal
  <2>1. stage' = "daemon"
    BY <1>10 DEF Handle, Done
  <2> QED  BY <1>0, <1>10, <2>1 DEF Handle, Settled, uart, Looping
<1>11. ASSUME NEW m \in Messages, Baud(m) PROVE Goal
  BY <1>0, <1>11 DEF Baud, SetBaudrate, Settled, fw_rest, Looping
<1>12. ASSUME NEW m \in Messages, Suspend(m) PROVE Goal
  <2>1. PICK x \in Samples : prcm' = iosc_freq_init(prcm, x[1], x[2])
    BY <1>12 DEF Suspend
  <2>2. x[1] \in Nat /\ x[2] \in Nat
    BY FirmwareAssumption
  <2>3. prcm' \in Regs /\ prcm'.on = prcm.on /\ prcm'.nreset = prcm.nreset
    BY <1>0, <2>1, <2>2, CalibrationTyped
  <2> QED  BY <1>12, <2>3 DEF Suspend, Settled, uart, fw_rest, Looping
<1>13. ASSUME NEW f \in Formats, Log(f) PROVE Goal
  BY <1>0, <1>13 DEF Log, Puts, Settled, Looping, OnRc
<1>14. ASSUME NEW m \in Messages, PowerOp(m) PROVE Goal
  BY <1>0, <1>14 DEF PowerOp, Settled, uart, fw_rest, Looping
<1> QED  BY <1>1, <1>2, <1>3, <1>4, <1>5, <1>6, <1>7, <1>8, <1>9, <1>10, <1>11, <1>12, <1>13, <1>14
         DEF Loop

-----------------------------------------------------------------------------
(* Startup. *)

\* Every step keeps what is known of the device tree and its window.
LEMMA TreeKept ==
  ASSUME FirmwareTypeOK, TreeInv, [NextFirmware]_firmwareVars
  PROVE  TreeInv'
<1> USE DEF BeforeUart, Starting, OnRc, Looping
<1> DEFINE Kept == UNCHANGED <<tree, dtb_base, dram, le>>
<1>0. dtb_base \in BOOLEAN /\ dram \in BOOLEAN /\ stage \in Starting \cup Looping
  BY DEF FirmwareTypeOK
<1>1. CASE Early
  <2> DEFINE d == dtb_base_init(cell, cpucfg_init(le))
  <2>1. stage = "entry" /\ stage' = "intc" /\ dtb_base' = d.ok /\ le' = d.le /\ UNCHANGED <<tree, dram>>
    BY <1>1 DEF Early
  <2>2. cell = tree /\ le = LeReset /\ ~ dram
    BY <2>1 DEF TreeInv
  <2>3. /\ d.ok \in BOOLEAN /\ (d.ok <=> tree \in {"bare", "good"})
        /\ d.le.used = (IF d.ok THEN 1 ELSE 0) /\ d.le.ctrl = 0 .. d.le.used - 1
    BY <2>2, WindowOpen
  <2> HIDE DEF d
  <2>4. tree' # "read"
    BY <2>1 DEF TreeInv
  <2> QED  BY <2>1, <2>2, <2>3, <2>4 DEF TreeInv
<1>2. CASE Debugger
  <2>1. stage = "debugger" /\ stage' = "twi" /\ dram' = (dtb_base /\ tree = "good")
        /\ UNCHANGED <<tree, dtb_base, le>>
    BY <1>2 DEF Debugger, dram_dts_parse
  <2> QED  BY <2>1, <1>0 DEF TreeInv
<1>3. CASE MessageBox \/ TimersAndStandby
  <2>1. Kept /\ stage \in Starting \ BeforeUart /\ stage' \in Starting \ BeforeUart
    BY <1>3 DEF MessageBox, TimersAndStandby, Failed
  <2> QED  BY <2>1 DEF TreeInv
<1>4. CASE Notify
  <2>1. stage = "notify" /\ stage' = "loop" /\ tree' = "read" /\ UNCHANGED <<dtb_base, dram, le>>
    BY <1>4 DEF Notify
  <2> QED  BY <2>1 DEF TreeInv
<1>5. ASSUME NEW ok \in BOOLEAN, Interrupts(ok) PROVE TreeInv'
  <2>1. Kept /\ stage = "intc" /\ stage' \in {"debugger", "returned"}
    BY <1>5 DEF Interrupts
  <2> QED  BY <2>1 DEF TreeInv
<1>6. ASSUME NEW ok \in BOOLEAN, TwoWire(ok) PROVE TreeInv'
  <2>1. Kept /\ stage = "twi" /\ stage' \in {"msgbox", "doze"}
    BY <1>6 DEF TwoWire, Failed
  <2> QED  BY <2>1 DEF TreeInv
<1>7. CASE Loop
  <2>1. Kept /\ stage \in Looping /\ stage' \in Looping
    BY <1>7, LoopLeaves DEF Settled
  <2> QED  BY <2>1 DEF TreeInv
<1>8. CASE UartStep(1 \in Shown(level)) /\ UNCHANGED fw
  <2>1. Kept /\ UNCHANGED <<stage, cell>>
    BY <1>8 DEF fw
  <2> QED  BY <2>1 DEF TreeInv
<1>9. CASE UNCHANGED firmwareVars
  <2>1. Kept /\ UNCHANGED <<stage, cell>>
    BY <1>9 DEF fw, firmwareVars
  <2> QED  BY <2>1 DEF TreeInv
<1> QED  BY <1>1, <1>2, <1>3, <1>4, <1>5, <1>6, <1>7, <1>8, <1>9 DEF NextFirmware, Startup

\* Every step keeps what the stage of startup says is registered and clocked.
LEMMA StageKept ==
  ASSUME FirmwareTypeOK, StageInv, [NextFirmware]_firmwareVars
  PROVE  StageInv'
<1> USE DEF BeforeUart, Starting, OnRc, Looping
<1> DEFINE Kept == UNCHANGED <<notif, wdog, soft, status, ready>>
<1>0. /\ prcm \in Regs /\ stage \in Starting \cup Looping
      /\ notif \in [used : Nat, list : [Heads -> Seq({"timer_hosc_onoff_cb", "cpu_stack_monitor"})]]
      /\ NotifierMax \in Nat /\ NotifierMax >= 2
  BY DevicesAssumption, StartupFits DEF FirmwareTypeOK
<1>1. CASE Early
  <2>1. stage = "entry" /\ stage' = "intc" /\ notif'.used = 0 /\ UNCHANGED <<wdog, soft, status, ready>>
    BY <1>0, <1>1 DEF Early, notifier_init
  <2> QED  BY <2>1 DEF StageInv
<1>2. CASE Debugger
  <2>1. stage = "debugger" /\ stage' = "twi" /\ UNCHANGED <<notif, wdog, soft, ready>>
    BY <1>2 DEF Debugger
  <2>2. prcm' = ccu_set_mclk_onoff(ccu_set_mclk_reset(prcm, "R_UART", TRUE), "R_UART", TRUE)
    BY <1>2 DEF Debugger, InitUart
  <2>3. Running("R_UART")'
    BY <1>0, <2>2, ClockUp, ZenonT(30) DEF Running, Gated, Resettable
  <2> QED  BY <2>1, <2>3 DEF StageInv
<1>3. CASE MessageBox
  <2>1. stage = "msgbox" /\ stage' = "timer" /\ UNCHANGED <<notif, wdog, soft, status>>
    BY <1>3 DEF MessageBox
  <2>2. prcm' = ccu_set_mclk_reset(ccu_set_mclk_onoff(prcm, "MSGBOX", TRUE), "MSGBOX", TRUE)
    BY <1>3 DEF MessageBox, hwmsgbox_init
  <2>3. prcm'.on = prcm.on \cup {"MSGBOX"} /\ prcm'.nreset = prcm.nreset \cup {"MSGBOX"}
    BY <1>0, <2>2, ClockOn DEF Gated, Resettable
  <2>4. Running("R_UART") /\ Running("R_TWI")
    BY <2>1 DEF StageInv
  <2>5. Running("R_UART")' /\ Running("R_TWI")' /\ Running("MSGBOX")'
    BY <2>3, <2>4 DEF Running
  <2> QED  BY <2>1, <2>5 DEF StageInv
<1>4. CASE TimersAndStandby
  <2>1. stage = "timer" /\ stage' = "notify" /\ soft' = Append(soft, "wakeup_timer")
        /\ wdog' = watchdog_init(wdog) /\ UNCHANGED <<status, ready>>
    BY <1>4 DEF TimersAndStandby, Failed, wakeup_timer_init, add_softtimer, time_ticks_init, OK, EFAIL
  <2>2. prcm' = ccu_set_mclk_reset(ccu_set_mclk_onoff(prcm, "R_TIMER0_1", TRUE), "R_TIMER0_1", TRUE)
    BY <1>4 DEF TimersAndStandby, TimerClocks
  <2>3. prcm'.on = prcm.on \cup {"R_TIMER0_1"} /\ prcm'.nreset = prcm.nreset \cup {"R_TIMER0_1"}
    BY <1>0, <2>2, ClockOn DEF Gated, Resettable
  <2>4. Running("R_UART") /\ Running("R_TWI") /\ Running("MSGBOX") /\ notif.used = 0 /\ soft = <<>>
    BY <2>1 DEF StageInv
  <2>5. Running("R_UART")' /\ Running("R_TWI")' /\ Running("MSGBOX")' /\ Running("R_TIMER0_1")'
    BY <2>3, <2>4 DEF Running
  <2>6. notif' = notifier_insert(notif, "hosc", "timer_hosc_onoff_cb")
    BY <1>4 DEF TimersAndStandby, ccu_24mhosc_reg_cb
  <2>7. notif'.used = 1 /\ notif'.list = [notif.list EXCEPT !["hosc"] = <<"timer_hosc_onoff_cb">> \o @]
    BY <1>0, <2>4, <2>6 DEF notifier_insert, notifier_alloc
  <2>8. notif'.list["hosc"] # <<>>
    <3>1. notif'.list["hosc"] = <<"timer_hosc_onoff_cb">> \o notif.list["hosc"]
      BY <1>0, <2>7 DEF Heads
    <3>2. notif.list["hosc"] \in Seq({"timer_hosc_onoff_cb", "cpu_stack_monitor"})
      BY <1>0 DEF Heads
    <3> QED  BY <3>1, <3>2
  <2>9. soft' = <<"wakeup_timer">>
    BY <2>1, <2>4
  <2>10. ~ wdog'.on
    <3>1. ~ wdog.on
      BY DEF StageInv
    <3>2. wdog \in [clk : {"dcxo", "rtc32k"}, rst : {"none", "sys"}, intv : {0, 4}, on : BOOLEAN]
      BY DEF FirmwareTypeOK
    <3>3. wdog'.on = wdog.on
      BY <2>1, <3>2 DEF watchdog_init
    <3> QED  BY <3>1, <3>3
  <2> QED  BY <2>1, <2>5, <2>7, <2>8, <2>9, <2>10 DEF StageInv
<1>5. CASE Notify
  <2>1. stage = "notify" /\ stage' = "loop" /\ UNCHANGED <<prcm, wdog, soft, status, ready>>
    BY <1>5 DEF Notify
  <2>2. notif' = notifier_insert(notif, "daemon", "cpu_stack_monitor")
    BY <1>5 DEF Notify, cpu_init, daemon_register_service
  <2>3. notif.used = 1 /\ notif.list["hosc"] # <<>>
    BY <2>1 DEF StageInv
  <2>4. notif'.list = [notif.list EXCEPT !["daemon"] = <<"cpu_stack_monitor">> \o @]
    BY <1>0, <2>2, <2>3 DEF notifier_insert, notifier_alloc
  <2>5. notif'.list["hosc"] = notif.list["hosc"]
    BY <1>0, <2>4 DEF Heads
  <2>6. notif'.list["daemon"] # <<>>
    <3>1. notif'.list["daemon"] = <<"cpu_stack_monitor">> \o notif.list["daemon"]
      BY <1>0, <2>4 DEF Heads
    <3>2. notif.list["daemon"] \in Seq({"timer_hosc_onoff_cb", "cpu_stack_monitor"})
      BY <1>0 DEF Heads
    <3> QED  BY <3>1, <3>2
  <2>7. \A clk : Running(clk)' <=> Running(clk)
    BY <2>1 DEF Running
  <2> QED  BY <2>1, <2>3, <2>5, <2>6, <2>7 DEF StageInv
<1>6. ASSUME NEW ok \in BOOLEAN, Interrupts(ok) PROVE StageInv'
  <2>1. Kept /\ stage = "intc" /\ stage' \in {"debugger", "returned"}
    BY <1>6 DEF Interrupts
  <2> QED  BY <2>1 DEF StageInv
<1>7. ASSUME NEW ok \in BOOLEAN, TwoWire(ok) PROVE StageInv'
  <2>1. stage = "twi" /\ UNCHANGED <<notif, wdog, soft, ready>>
        /\ (stage' = "msgbox" \/ (stage' = "doze" /\ status' = EFAIL))
    BY <1>7 DEF TwoWire, Failed
  <2>2. prcm' = ccu_set_mclk_reset(ccu_set_mclk_onoff(prcm, "R_TWI", TRUE), "R_TWI", TRUE)
    BY <1>7 DEF TwoWire
  <2>3. prcm'.on = prcm.on \cup {"R_TWI"} /\ prcm'.nreset = prcm.nreset \cup {"R_TWI"}
    BY <1>0, <2>2, ClockOn DEF Gated, Resettable
  <2>4. Running("R_UART")
    BY <2>1 DEF StageInv
  <2>5. Running("R_UART")' /\ Running("R_TWI")'
    BY <2>3, <2>4 DEF Running
  <2> QED  BY <2>1, <2>5 DEF StageInv, OK, EFAIL
<1>8. CASE Loop
  <2>1. Kept /\ stage \in Looping /\ stage' \in Looping
        /\ prcm'.on = prcm.on /\ prcm'.nreset = prcm.nreset
    BY <1>8, LoopLeaves DEF Settled
  <2>2. \A clk : Running(clk)' <=> Running(clk)
    BY <2>1 DEF Running
  <2> QED  BY <2>1, <2>2 DEF StageInv
<1>9. CASE UartStep(1 \in Shown(level)) /\ UNCHANGED fw
  <2>1. Kept /\ UNCHANGED <<stage, prcm>>
    BY <1>9, UartLeaves DEF fw
  <2>2. \A clk : Running(clk)' <=> Running(clk)
    BY <2>1 DEF Running
  <2> QED  BY <2>1, <2>2 DEF StageInv
<1>10. CASE UNCHANGED firmwareVars
  <2>1. Kept /\ UNCHANGED <<stage, prcm>>
    BY <1>10 DEF fw, firmwareVars
  <2>2. \A clk : Running(clk)' <=> Running(clk)
    BY <2>1 DEF Running
  <2> QED  BY <2>1, <2>2 DEF StageInv
<1> QED  BY <1>1, <1>2, <1>3, <1>4, <1>5, <1>6, <1>7, <1>8, <1>9, <1>10 DEF NextFirmware, Startup

-----------------------------------------------------------------------------
(* The UART. *)

UartBits == <<used, lock, rate, dl, act, halt, fifo, up, arg, failed>>

\* Every action, by what it does to the UART, its clock and the stage.
StartStep ==
  /\ stage \in {"intc", "twi", "msgbox", "timer", "notify"} /\ UNCHANGED UartBits
  /\ prcm'.apbs1 = prcm.apbs1 /\ Freq' = Freq
  /\ <<stage, stage'>> \in {<<"intc", "debugger">>, <<"intc", "returned">>, <<"twi", "msgbox">>,
                            <<"twi", "doze">>, <<"msgbox", "timer">>, <<"timer", "notify">>,
                            <<"notify", "loop">>}

IdleStep ==
  /\ up = "idle" /\ UNCHANGED UartBits /\ prcm'.apbs1 = prcm.apbs1
  /\ stage = "loop" \/ Freq' = Freq
  /\ <<stage, stage'>> \in {<<"loop", "daemon">>, <<"daemon", "loop">>, <<"loop", "loop">>,
                            <<"baud", "daemon">>, <<"loop", "suspend">>, <<"loop", "off">>,
                            <<"asleep", "resume">>, <<"awake", "daemon">>}

\* The rate depends on the source and the measured rates only.
LEMMA FreqSame ==
  ASSUME prcm'.apbs1 = prcm.apbs1, prcm'.iosc = prcm.iosc, prcm'.losc = prcm.losc
  PROVE  Freq' = Freq
BY DEF Freq, ccu_get_sclk_freq

\* The steps, grouped by what they do to the UART.
LEMMA StepKinds ==
  ASSUME FirmwareTypeOK, NextFirmware
  PROVE  \/ Early \/ Debugger \/ Request \/ Switch \/ Changed \/ StartStep \/ IdleStep
         \/ \E m \in Messages : Baud(m)
         \/ \E f \in Formats : Log(f)
         \/ UartStep(1 \in Shown(level)) /\ UNCHANGED fw
<1>0. prcm \in Regs
  BY DEF FirmwareTypeOK
<1>1. ASSUME MessageBox PROVE StartStep
  <2>1. prcm'.apbs1 = prcm.apbs1 /\ prcm'.iosc = prcm.iosc /\ prcm'.losc = prcm.losc
    BY <1>0, <1>1, ClockOn DEF MessageBox, hwmsgbox_init, Gated, Resettable
  <2> QED  BY <1>1, <2>1, FreqSame DEF MessageBox, StartStep, UartBits, uart
<1>2. ASSUME TimersAndStandby PROVE StartStep
  <2>1. prcm'.apbs1 = prcm.apbs1 /\ prcm'.iosc = prcm.iosc /\ prcm'.losc = prcm.losc
    BY <1>0, <1>2, ClockOn DEF TimersAndStandby, TimerClocks, Gated, Resettable
  <2>2. stage = "timer" /\ stage' = "notify"
    BY <1>2 DEF TimersAndStandby, Failed, time_ticks_init, OK, EFAIL
  <2> QED  BY <1>2, <2>1, <2>2, FreqSame DEF TimersAndStandby, StartStep, UartBits, uart
<1>3. ASSUME Notify PROVE StartStep
  BY <1>3, FreqSame DEF Notify, StartStep, UartBits, uart
<1>4. ASSUME NEW ok \in BOOLEAN, Interrupts(ok) PROVE StartStep
  BY <1>4, FreqSame DEF Interrupts, StartStep, UartBits, uart
<1>5. ASSUME NEW ok \in BOOLEAN, TwoWire(ok) PROVE StartStep
  <2>1. prcm'.apbs1 = prcm.apbs1 /\ prcm'.iosc = prcm.iosc /\ prcm'.losc = prcm.losc
    BY <1>0, <1>5, ClockOn DEF TwoWire, Gated, Resettable
  <2>2. stage = "twi" /\ stage' \in {"msgbox", "doze"}
    BY <1>5 DEF TwoWire, Failed
  <2> QED  BY <1>5, <2>1, <2>2, FreqSame DEF TwoWire, StartStep, UartBits
<1>6. ASSUME NoMessage \/ Daemon \/ Tick PROVE IdleStep
  <2>1. UNCHANGED <<prcm, uart>> /\ up = "idle"
        /\ <<stage, stage'>> \in {<<"loop", "daemon">>, <<"daemon", "loop">>, <<"loop", "loop">>}
    BY <1>6 DEF NoMessage, Daemon, Tick
  <2> QED  BY <2>1, FreqSame DEF IdleStep, UartBits, uart
<1>7. ASSUME NEW m \in Messages, Handle(m) PROVE IdleStep
  <2>1. UNCHANGED <<prcm, uart>> /\ up = "idle" /\ stage = "loop" /\ stage' = "daemon"
    BY <1>7 DEF Handle, Done
  <2> QED  BY <2>1, FreqSame DEF IdleStep, UartBits, uart
<1>8. ASSUME BaudBack \/ WakeUp \/ SuspendBack PROVE IdleStep
  <2>1. UNCHANGED prcm /\ UNCHANGED UartBits /\ up = "idle"
        /\ <<stage, stage'>> \in {<<"baud", "daemon">>, <<"asleep", "resume">>, <<"awake", "daemon">>}
    BY <1>8 DEF BaudBack, WakeUp, SuspendBack, Done, Forget, UartBits
  <2> QED  BY <2>1, FreqSame DEF IdleStep
<1>9. ASSUME NEW m \in Messages, Suspend(m) PROVE IdleStep
  <2>1. PICK x \in Samples : prcm' = iosc_freq_init(prcm, x[1], x[2])
    BY <1>9 DEF Suspend
  <2>2. x[1] \in Nat /\ x[2] \in Nat
    BY FirmwareAssumption
  <2>3. prcm'.apbs1 = prcm.apbs1
    BY <1>0, <2>1, <2>2, CalibrationTyped
  <2> QED  BY <1>9, <2>3 DEF Suspend, IdleStep, UartBits, uart
<1>10. ASSUME NEW m \in Messages, PowerOp(m) PROVE IdleStep
  <2>1. UNCHANGED <<prcm, uart>> /\ up = "idle" /\ stage = "loop" /\ stage' = "off"
    BY <1>10 DEF PowerOp
  <2> QED  BY <2>1, FreqSame DEF IdleStep, UartBits, uart
<1> QED  BY <1>1, <1>2, <1>3, <1>4, <1>5, <1>6, <1>7, <1>8, <1>9, <1>10 DEF NextFirmware, Startup, Loop

\* Every step keeps what is known inside a call of the UART driver.
LEMMA CallKept ==
  ASSUME FirmwareTypeOK, CallInv, [NextFirmware]_firmwareVars
  PROVE  CallInv'
<1> USE DEF BeforeUart, OnRc
<1>0. /\ prcm \in Regs /\ stage \in Starting \cup Looping
      /\ up \in {"idle", "req"} \cup RateCalls \cup ClockCalls
  BY DEF FirmwareTypeOK
<1>1. CASE Early
  <2>1. stage = "entry" /\ stage' = "intc" /\ UNCHANGED <<used, up>> /\ prcm'.apbs1.src = 4
    BY <1>0, <1>1 DEF Early, uart, ccu_init, Regs
  <2> QED  BY <2>1 DEF CallInv
<1>2. CASE Debugger
  <2>1. stage = "debugger" /\ stage' = "twi" /\ used' = TRUE /\ up' = "idle"
    BY <1>2 DEF Debugger, InitUart, Return
  <2>2. prcm'.apbs1 = prcm.apbs1
    BY <1>0, <1>2, ClockUp DEF Debugger, InitUart, Gated, Resettable
  <2> QED  BY <2>1, <2>2 DEF CallInv, RateCalls, ClockCalls
<1>3. CASE Request
  <2>1. /\ stage \in {"suspend", "resume"} /\ stage' = IF stage = "suspend" THEN "slow" ELSE "fast"
        /\ up' \in {"req", "idle"} /\ UNCHANGED <<prcm, used>>
    BY <1>3 DEF Request, ClkReq, Return
  <2> QED  BY <2>1 DEF CallInv, RateCalls, ClockCalls
<1>4. CASE Switch
  <2>1. prcm'.apbs1.src = IF stage = "slow" THEN 2 ELSE 4
    BY <1>0, <1>4 DEF Switch, Regs
  <2>2. /\ stage \in {"slow", "fast"} /\ stage' = IF stage = "slow" THEN "slowed" ELSE "fastened"
        /\ up = "idle" /\ UNCHANGED <<up, used>>
    BY <1>4 DEF Switch, Forget
  <2> QED  BY <2>1, <2>2 DEF CallInv, RateCalls, ClockCalls
<1>5. CASE Changed
  <2>1. /\ stage \in {"slowed", "fastened"} /\ stage' = IF stage = "slowed" THEN "asleep" ELSE "awake"
        /\ up' \in {"done", "idle"} /\ UNCHANGED <<prcm, used>>
    BY <1>5 DEF Changed, ClkDone, SetBaudrate, Return
  <2> QED  BY <2>1 DEF CallInv, RateCalls, ClockCalls
<1>6. CASE StartStep
  BY <1>6 DEF CallInv, StartStep, UartBits
<1>7. CASE IdleStep
  BY <1>7 DEF CallInv, IdleStep, UartBits, RateCalls, ClockCalls
<1>8. ASSUME NEW m \in Messages, Baud(m) PROVE CallInv'
  <2>1. /\ stage = "loop" /\ stage' = "baud" /\ up' \in {"baud", "idle"} /\ UNCHANGED <<prcm, used>>
    BY <1>8 DEF Baud, SetBaudrate, Return
  <2> QED  BY <2>1 DEF CallInv, RateCalls, ClockCalls
<1>9. ASSUME NEW f \in Formats, Log(f) PROVE CallInv'
  <2>1. UNCHANGED <<prcm, used, up, stage>>
    BY <1>9 DEF Log, Puts
  <2> QED  BY <2>1 DEF CallInv
<1>10. CASE UartStep(1 \in Shown(level)) /\ UNCHANGED fw
  <2>1. UNCHANGED <<prcm, used, stage>>
    BY <1>10, UartLeaves
  <2>2. \/ up' = "idle" \/ up' = up
        \/ up \in RateCalls /\ up' \in RateCalls
        \/ up \in ClockCalls /\ up' \in ClockCalls
    BY <1>10 DEF UartStep, BaudDrained, BaudRefused, BaudBusy, BaudLatch, BaudUpdated, BaudStalled,
         ClkReqDrained, ClkReqBusy, Shift, Update, Fails, Return, RateCalls, ClockCalls
  <2> QED  BY <2>1, <2>2 DEF CallInv, RateCalls, ClockCalls
<1>11. CASE UNCHANGED firmwareVars
  BY <1>11 DEF CallInv, firmwareVars, fw, uart
<1> QED  BY <1>1, <1>2, <1>3, <1>4, <1>5, <1>6, <1>7, <1>8, <1>9, <1>10, <1>11, StepKinds

\* The UART's own steps, at a clock that stays as it is.
LEMMA UartKeepsRate ==
  ASSUME RateInv, UartStep(1 \in Shown(level)), Freq' = Freq
  PROVE  RateInv'
<1> USE DEF Latched
<1>1. CASE BaudDrained(1 \in Shown(level))
  <2>1. /\ up \in {"baud", "done"} /\ up' \in {"baud2", "done2"}
        /\ UNCHANGED <<lock, rate, dl, act, halt, arg, failed>>
    BY <1>1 DEF BaudDrained
  <2> QED  BY <2>1 DEF RateInv
<1>2. CASE BaudRefused \/ BaudBusy \/ BaudStalled \/ ClkReqBusy
  <2>1. failed' # {} /\ up' = "idle"
    BY <1>2 DEF BaudRefused, BaudBusy, BaudStalled, ClkReqBusy, Fails, Return
  <2> QED  BY <2>1 DEF RateInv
<1>3. CASE BaudLatch
  <2>1. /\ up' \in Latched /\ dl' = uart_divisor(Freq, arg) /\ "upd" \in halt' /\ arg' = arg
    BY <1>3 DEF BaudLatch
  <2> QED  BY <2>1 DEF RateInv
<1>4. CASE BaudUpdated
  <2>1. /\ up \in Latched /\ "upd" \notin halt /\ up' = "idle" /\ rate' = arg /\ UNCHANGED <<dl, act>>
    BY <1>4 DEF BaudUpdated, Return
  <2> QED  BY <2>1 DEF RateInv
<1>5. CASE ClkReqDrained
  <2>1. up = "req" /\ up' = "idle" /\ lock' /\ UNCHANGED <<rate, dl, act, halt, failed>>
    BY <1>5 DEF ClkReqDrained, Return
  <2> QED  BY <2>1 DEF RateInv
<1>6. CASE Shift
  <2>1. UNCHANGED <<lock, rate, dl, act, halt, up, arg, failed>>
    BY <1>6 DEF Shift
  <2> QED  BY <2>1 DEF RateInv
<1>7. CASE Update
  <2>1. act' = dl /\ UNCHANGED <<lock, rate, dl, up, arg, failed>>
    BY <1>7 DEF Update
  <2> QED  BY <2>1 DEF RateInv
<1> QED  BY <1>1, <1>2, <1>3, <1>4, <1>5, <1>6, <1>7 DEF UartStep

\* Every step keeps the divisor that fits the rate and the clock.
LEMMA RateKept ==
  ASSUME FirmwareTypeOK, CallInv, RateInv, QuietInv, [NextFirmware]_firmwareVars
  PROVE  RateInv'
<1> USE DEF Latched
<1>0. /\ stage \in Starting \cup Looping
      /\ up \in {"idle", "req"} \cup RateCalls \cup ClockCalls
      /\ prcm \in Regs
  BY DEF FirmwareTypeOK
<1>1. CASE Early
  <2>1. ~ used /\ up \notin Latched
    BY <1>1 DEF Early, CallInv, BeforeUart, RateCalls, ClockCalls
  <2>2. lock
    BY <2>1 DEF QuietInv
  <2>3. UNCHANGED UartBits
    BY <1>1 DEF Early, uart, UartBits
  <2> QED  BY <2>1, <2>2, <2>3 DEF RateInv, UartBits
<1>2. CASE Debugger
  <2>0. stage = "debugger"
    BY <1>2 DEF Debugger
  <2>1. ~ used /\ up \notin Latched
    BY <2>0 DEF CallInv, BeforeUart, RateCalls, ClockCalls
  <2>2. lock
    BY <2>1 DEF QuietInv
  <2>3. prcm'.apbs1 = prcm.apbs1 /\ prcm'.iosc = prcm.iosc /\ prcm'.losc = prcm.losc
    BY <1>0, <1>2, ClockUp DEF Debugger, InitUart, Gated, Resettable
  <2>4. Freq' = Freq
    BY <2>3, FreqSame
  <2>5. /\ up' = "idle" /\ failed' = failed /\ rate' = DefaultRate
        /\ \/ UNCHANGED <<lock, dl, act>>
           \/ dl' = uart_divisor(Freq, DefaultRate) /\ act' = dl'
    BY <1>2 DEF Debugger, InitUart, Return
  <2> QED  BY <2>1, <2>2, <2>4, <2>5 DEF RateInv
<1>3. CASE Request
  <2>1. up' \in {"req", "idle"} /\ up = "idle" /\ UNCHANGED <<prcm, lock, rate, dl, act, halt, failed>>
    BY <1>3 DEF Request, ClkReq, Return
  <2> QED  BY <2>1 DEF RateInv, Freq
<1>4. CASE Switch
  <2>1. up = "idle" /\ stage \in {"slow", "fast"} /\ UNCHANGED UartBits
    BY <1>4 DEF Switch, Forget, UartBits
  <2>2. lock \/ failed # {}
    BY <2>1 DEF QuietInv
  <2> QED  BY <2>1, <2>2 DEF RateInv, UartBits
<1>5. CASE Changed
  <2>1. up' \in {"done", "idle"} /\ up = "idle" /\ UNCHANGED <<prcm, lock, rate, dl, act, halt, failed>>
    BY <1>5 DEF Changed, ClkDone, SetBaudrate, Return
  <2> QED  BY <2>1 DEF RateInv, Freq
<1>6. CASE StartStep
  BY <1>6 DEF RateInv, StartStep, UartBits
<1>7. CASE IdleStep
  <2>1. Freq' = Freq
    <3>1. CASE stage = "loop"
      <4>1. prcm.apbs1.src = 4 /\ prcm'.apbs1.src = 4
        BY <1>7, <3>1 DEF IdleStep, CallInv, OnRc
      <4>2. Freq = Dcxo
        BY <4>1, FreqCases
      <4>3. Freq' = Dcxo
        BY <4>1 DEF Freq, ccu_get_sclk_freq
      <4> QED  BY <4>2, <4>3
    <3> QED  BY <1>7, <3>1 DEF IdleStep
  <2> QED  BY <1>7, <2>1 DEF RateInv, IdleStep, UartBits
<1>8. ASSUME NEW m \in Messages, Baud(m) PROVE RateInv'
  <2>1. up' \in {"baud", "idle"} /\ up = "idle" /\ UNCHANGED <<prcm, lock, rate, dl, act, halt, failed>>
    BY <1>8 DEF Baud, SetBaudrate, Return
  <2> QED  BY <2>1 DEF RateInv, Freq
<1>9. ASSUME NEW f \in Formats, Log(f) PROVE RateInv'
  <2>1. UNCHANGED <<prcm, lock, rate, dl, act, halt, up, arg, failed>>
    BY <1>9 DEF Log, Puts
  <2> QED  BY <2>1 DEF RateInv, Freq
<1>10. CASE UartStep(1 \in Shown(level)) /\ UNCHANGED fw
  <2>1. Freq' = Freq
    BY <1>10, UartLeaves DEF Freq
  <2> QED  BY <1>10, <2>1, UartKeepsRate
<1>11. CASE UNCHANGED firmwareVars
  BY <1>11 DEF RateInv, firmwareVars, fw, uart, Freq
<1> QED  BY <1>1, <1>2, <1>3, <1>4, <1>5, <1>6, <1>7, <1>8, <1>9, <1>10, <1>11, StepKinds

\* Every step keeps the FIFO empty while the UART is locked.
LEMMA QuietKept ==
  ASSUME FirmwareTypeOK, CallInv, QuietInv, [NextFirmware]_firmwareVars
  PROVE  QuietInv'
<1> DEFINE Changing == {"baud2", "baud3", "done2", "done3"}
<1>0. /\ stage \in Starting \cup Looping
      /\ up \in {"idle", "req"} \cup RateCalls \cup ClockCalls
      /\ fifo \in Seq({"line", "own"}) /\ lock \in BOOLEAN
  BY DEF FirmwareTypeOK
<1>1. CASE Early
  <2>1. UNCHANGED UartBits /\ stage' = "intc"
    BY <1>1 DEF Early, uart, UartBits
  <2> QED  BY <2>1 DEF QuietInv, UartBits
<1>2. CASE Debugger
  <2>1. stage' = "twi" /\ up' = "idle" /\ used' = TRUE
        /\ (UNCHANGED <<lock, fifo>> \/ (lock' = FALSE /\ fifo' = <<>>))
    BY <1>2 DEF Debugger, InitUart, Return
  <2> QED  BY <2>1 DEF QuietInv
<1>3. CASE Request
  <2>0. stage \in {"suspend", "resume"} /\ stage' \in {"slow", "fast"}
    BY <1>3 DEF Request
  <2>1. used
    BY <2>0 DEF CallInv, BeforeUart
  <2>2. up' = "req" /\ UNCHANGED <<used, lock>> /\ (lock => UNCHANGED fifo)
    BY <1>3, <2>1 DEF Request, ClkReq
  <2> QED  BY <2>0, <2>1, <2>2 DEF QuietInv
<1>4. CASE Switch
  <2>1. up = "idle" /\ stage \in {"slow", "fast"} /\ stage' \in {"slowed", "fastened"} /\ UNCHANGED UartBits
    BY <1>4 DEF Switch, Forget, UartBits
  <2>2. lock \/ failed # {}
    BY <2>1 DEF QuietInv
  <2> QED  BY <2>1, <2>2 DEF QuietInv, UartBits
<1>5. CASE Changed
  <2>1. up' \in {"done", "idle"} /\ stage' \in {"asleep", "awake"} /\ UNCHANGED <<used, lock, fifo, failed>>
    BY <1>5 DEF Changed, ClkDone, SetBaudrate, Return
  <2> QED  BY <2>1 DEF QuietInv
<1>6. CASE StartStep
  BY <1>6 DEF QuietInv, StartStep, UartBits
<1>7. CASE IdleStep
  BY <1>7 DEF QuietInv, IdleStep, UartBits
<1>8. ASSUME NEW m \in Messages, Baud(m) PROVE QuietInv'
  <2>1. up' \in {"baud", "idle"} /\ stage' = "baud" /\ UNCHANGED <<used, lock, fifo, failed>>
    BY <1>8 DEF Baud, SetBaudrate, Return
  <2> QED  BY <2>1 DEF QuietInv
<1>9. ASSUME NEW f \in Formats, Log(f) PROVE QuietInv'
  <2>1. /\ UNCHANGED <<used, lock, up, failed, stage>> /\ up = "idle" /\ stage \in {"loop", "asleep"}
        /\ (lock => UNCHANGED fifo)
    BY <1>9 DEF Log, Puts, uart_putc
  <2> QED  BY <2>1 DEF QuietInv
<1>10. CASE UartStep(1 \in Shown(level)) /\ UNCHANGED fw
  <2>0. UNCHANGED <<used, stage>>
    BY <1>10, UartLeaves
  <2>1. CASE BaudDrained(1 \in Shown(level))
    <3>1. /\ up \in {"baud", "done"} /\ fifo = <<>> /\ fifo' \in {<<>>, <<"own">>} /\ up' # "idle"
          /\ (lock => UNCHANGED fifo) /\ UNCHANGED <<lock, failed>>
      BY <2>1 DEF BaudDrained
    <3> QED  BY <2>0, <3>1 DEF QuietInv
  <2>2. CASE BaudRefused \/ BaudBusy \/ BaudStalled
    <3>1. /\ up' = "idle" /\ failed' # {} /\ UNCHANGED <<lock, fifo>>
          /\ up \in RateCalls \cup ClockCalls
      BY <2>2 DEF BaudRefused, BaudBusy, BaudStalled, Fails, Return, RateCalls, ClockCalls
    <3>2. stage \notin {"slow", "fast"}
      BY <3>1 DEF CallInv
    <3> QED  BY <2>0, <3>1, <3>2 DEF QuietInv
  <2>3. CASE ClkReqBusy
    <3>1. up' = "idle" /\ "req" \in failed' /\ UNCHANGED <<lock, fifo>>
      BY <2>3 DEF ClkReqBusy, Fails, Return
    <3> QED  BY <2>0, <3>1 DEF QuietInv
  <2>4. CASE BaudLatch
    <3>1. up \in Changing /\ up' \in Changing /\ UNCHANGED <<lock, fifo, failed>>
      BY <2>4 DEF BaudLatch
    <3> QED  BY <2>0, <3>1 DEF QuietInv
  <2>5. CASE BaudUpdated
    <3>1. up \in Latched /\ up' = "idle" /\ UNCHANGED fifo /\ (lock' => lock) /\ (up = "baud3" => lock' = lock)
      BY <2>5, <1>0 DEF BaudUpdated, Return, Latched
    <3>2. stage \in {"baud", "asleep", "awake"}
      BY <3>1 DEF CallInv, Latched, RateCalls, ClockCalls
    <3>3. used
      BY <3>2 DEF CallInv, BeforeUart
    <3> QED  BY <2>0, <3>1, <3>2, <3>3 DEF QuietInv
  <2>6. CASE ClkReqDrained
    <3>1. up' = "idle" /\ lock' /\ fifo = <<>> /\ UNCHANGED <<fifo, failed>>
      BY <2>6 DEF ClkReqDrained, Return
    <3> QED  BY <2>0, <3>1 DEF QuietInv
  <2>7. CASE Shift
    <3>1. fifo # <<>> /\ fifo' = Tail(fifo) /\ UNCHANGED <<lock, up, failed>>
      BY <2>7 DEF Shift
    <3>2. ~ lock
      BY <3>1 DEF QuietInv
    <3>3. fifo = <<"own">> => fifo' = <<>>
      BY <3>1
    <3> QED  BY <2>0, <3>1, <3>2, <3>3 DEF QuietInv
  <2>8. CASE Update
    <3>1. UNCHANGED <<lock, up, fifo, failed>>
      BY <2>8 DEF Update
    <3> QED  BY <2>0, <3>1 DEF QuietInv
  <2> QED  BY <1>10, <2>1, <2>2, <2>3, <2>4, <2>5, <2>6, <2>7, <2>8 DEF UartStep
<1>11. CASE UNCHANGED firmwareVars
  BY <1>11 DEF QuietInv, firmwareVars, fw, uart
<1> QED  BY <1>1, <1>2, <1>3, <1>4, <1>5, <1>6, <1>7, <1>8, <1>9, <1>10, <1>11, StepKinds

-----------------------------------------------------------------------------
(* Messages, ticks and types. *)

\* Only a handled message changes the level or the checksum's parameters.
LEMMA HandleOnly ==
  ASSUME NextFirmware
  PROVE  UNCHANGED <<level, crc>> \/ \E m \in Messages : Handle(m)
<1>1. CASE Startup
  BY <1>1 DEF Startup, Early, Debugger, MessageBox, TimersAndStandby, Notify, Interrupts, TwoWire
<1>2. CASE NoMessage \/ Daemon \/ Tick
  BY <1>2 DEF NoMessage, Daemon, Tick
<1>3. CASE BaudBack \/ Request \/ Switch \/ Changed \/ WakeUp \/ SuspendBack
  BY <1>3 DEF BaudBack, Request, Switch, Changed, WakeUp, SuspendBack, fw_rest
<1>4. ASSUME NEW m \in Messages, Baud(m) \/ PowerOp(m) \/ Suspend(m) PROVE UNCHANGED <<level, crc>>
  BY <1>4 DEF Baud, PowerOp, Suspend, fw_rest
<1>5. ASSUME NEW f \in Formats, Log(f) PROVE UNCHANGED <<level, crc>>
  BY <1>5 DEF Log
<1>6. CASE UartStep(1 \in Shown(level)) /\ UNCHANGED fw
  BY <1>6 DEF fw
<1> QED  BY <1>1, <1>2, <1>3, <1>4, <1>5, <1>6 DEF NextFirmware, Loop

\* standby_set_dram_crc_paras, for parameters of any value.
LEMMA CrcSet ==
  ASSUME NEW c \in [enable : 0 .. 1, src : Nat, len : Nat], NEW enable \in Nat, NEW src \in Nat,
         NEW len \in Nat, c.enable = 1 => CrcRange(c.src, c.len)
  PROVE  LET r == standby_set_dram_crc_paras(c, enable, src, len)
         IN  /\ r.crc \in [enable : 0 .. 1, src : Nat, len : Nat] /\ r.ret \in {OK, EINVAL}
             /\ r.crc.enable = 1 => CrcRange(r.crc.src, r.crc.len)
<1>1. CASE enable > 1
  BY <1>1 DEF standby_set_dram_crc_paras
<1>2. CASE enable = 0
  BY <1>2 DEF standby_set_dram_crc_paras
<1>3. CASE enable = 1 /\ CrcRange(src, len)
  BY <1>3 DEF standby_set_dram_crc_paras
<1>4. CASE enable = 1 /\ ~ CrcRange(src, len)
  BY <1>4 DEF standby_set_dram_crc_paras
<1> QED  BY <1>1, <1>2, <1>3, <1>4

\* Every step keeps the checksum parameters checked.
LEMMA MessageKept ==
  ASSUME FirmwareTypeOK, CrcInv, [NextFirmware]_firmwareVars
  PROVE  CrcInv' /\ level' \in Nat /\ crc' \in [enable : 0 .. 1, src : Nat, len : Nat]
<1>0. level \in Nat /\ crc \in [enable : 0 .. 1, src : Nat, len : Nat]
  BY DEF FirmwareTypeOK
<1>1. ASSUME UNCHANGED <<level, crc>>
      PROVE  CrcInv' /\ level' \in Nat /\ crc' \in [enable : 0 .. 1, src : Nat, len : Nat]
  BY <1>0, <1>1 DEF CrcInv
<1>2. ASSUME NEW m \in Messages, Handle(m)
      PROVE  CrcInv' /\ level' \in Nat /\ crc' \in [enable : 0 .. 1, src : Nat, len : Nat]
  <2>0. m.paras \in Seq(Nat)
    BY FirmwareAssumption
  <2>1. CASE UNCHANGED <<level, crc>>
    BY <1>1, <2>1
  <2>2. CASE m.type = "DEBUG_LEVEL" /\ Len(m.paras) >= MinCount(m.type)
    <3>1. UNCHANGED crc
      BY <1>2, <2>2 DEF Handle
    <3>2. UNCHANGED level \/ level' = m.paras[1]
      BY <1>2, <2>2 DEF Handle
    <3>3. Len(m.paras) >= 1
      BY <2>2 DEF MinCount
    <3>4. m.paras[1] \in Nat
      BY <2>0, <3>3
    <3> QED  BY <1>0, <3>1, <3>2, <3>4 DEF CrcInv
  <2>3. CASE m.type = "DRAM_CRC" /\ Len(m.paras) >= MinCount(m.type)
    <3>1. Len(m.paras) >= 3
      BY <2>3 DEF MinCount
    <3>2. m.paras[1] \in Nat /\ m.paras[2] \in Nat /\ m.paras[3] \in Nat
      BY <2>0, <3>1
    <3>3. level' = level
          /\ (crc' = crc
                \/ crc' = standby_set_dram_crc_paras(crc, m.paras[1], m.paras[2], m.paras[3]).crc)
      BY <1>2, <2>3 DEF Handle
    <3>4. CASE crc' = crc
      BY <1>0, <3>3, <3>4 DEF CrcInv
    <3>5. CASE crc' = standby_set_dram_crc_paras(crc, m.paras[1], m.paras[2], m.paras[3]).crc
      <4>1. crc' \in [enable : 0 .. 1, src : Nat, len : Nat]
            /\ (crc'.enable = 1 => CrcRange(crc'.src, crc'.len))
        BY <1>0, <3>2, <3>5, CrcSet DEF CrcInv
      <4> QED  BY <1>0, <3>3, <4>1 DEF CrcInv, CrcRange
    <3> QED  BY <3>3, <3>4, <3>5
  <2> QED  BY <1>2, <2>1, <2>2, <2>3 DEF Handle
<1>3. CASE UNCHANGED firmwareVars
  BY <1>1, <1>3 DEF firmwareVars, fw
<1> QED  BY <1>1, <1>2, <1>3, HandleOnly

\* Remainders of numbers up to one turn away.
LEMMA ModFacts ==
  ASSUME NEW n \in Nat \ {0}
  PROVE  /\ \A x \in Int : x % n \in 0 .. n - 1
         /\ \A x \in 0 .. n - 1 : x % n = x
         /\ \A x \in Int : 0 <= x + n /\ x < 0 => x % n = x + n
         /\ \A x \in Int : n <= x /\ x < n + n => x % n = x - n
<1>1. \A x \in Int : x % n \in 0 .. n - 1
  OBVIOUS
<1>2. \A x \in 0 .. n - 1 : x % n = x
  OBVIOUS
<1>3. \A q \in Int : /\ q >= 0 => n * q >= 0 /\ (q >= 1 => n * q >= n) /\ (q >= 2 => n * q >= n + n)
                     /\ q <= 0 => n * q <= 0 /\ (q <= -2 => n * q <= -n - n)
  OBVIOUS
<1>4. ASSUME NEW x \in Int, 0 <= x + n, x < 0 PROVE x % n = x + n
  <2> DEFINE q == x \div n
             r == x % n
  <2>1. q \in Int /\ r \in 0 .. n - 1 /\ x = n * q + r
    OBVIOUS
  <2> HIDE DEF q, r
  <2>2. q = -1
    BY <1>3, <1>4, <2>1
  <2> QED  BY <2>1, <2>2 DEF r
<1>5. ASSUME NEW x \in Int, n <= x, x < n + n PROVE x % n = x - n
  <2> DEFINE q == x \div n
             r == x % n
  <2>1. q \in Int /\ r \in 0 .. n - 1 /\ x = n * q + r
    OBVIOUS
  <2> HIDE DEF q, r
  <2>2. q = 1
    BY <1>3, <1>5, <2>1
  <2> QED  BY <2>1, <2>2 DEF r
<1> QED  BY <1>1, <1>2, <1>4, <1>5

\* Only the daemon, the tick and the end of startup touch the ticks.
LEMMA TickOnly ==
  ASSUME NextFirmware
  PROVE  \/ Notify \/ Daemon \/ Tick
         \/ /\ UNCHANGED <<tick, next, since>>
            /\ stage' \in Starting => stage \in Starting
            /\ stage' \in Looping => stage \in Looping
<1> DEFINE Kept == /\ UNCHANGED <<tick, next, since>>
                   /\ stage' \in Starting => stage \in Starting
                   /\ stage' \in Looping => stage \in Looping
<1> USE DEF Starting, Looping, BeforeUart, OnRc
<1>1. CASE Early \/ Debugger \/ MessageBox
  BY <1>1 DEF Early, Debugger, MessageBox
<1>2. CASE TimersAndStandby
  BY <1>2 DEF TimersAndStandby, Failed
<1>3. ASSUME NEW ok \in BOOLEAN, Interrupts(ok) \/ TwoWire(ok) PROVE Kept
  BY <1>3 DEF Interrupts, TwoWire, Failed
<1>4. CASE NoMessage \/ BaudBack \/ Request \/ Switch \/ Changed \/ WakeUp \/ SuspendBack
  BY <1>4 DEF NoMessage, BaudBack, Request, Switch, Changed, WakeUp, SuspendBack, Done, fw_rest
<1>5. ASSUME NEW m \in Messages, Handle(m) \/ Baud(m) \/ PowerOp(m) \/ Suspend(m) PROVE Kept
  <2>1. UNCHANGED <<tick, next, since>> /\ stage = "loop" /\ stage' \in {"daemon", "baud", "off", "suspend"}
    BY <1>5 DEF Handle, Baud, PowerOp, Suspend, Done, fw_rest
  <2> QED  BY <2>1
<1>6. ASSUME NEW f \in Formats, Log(f) PROVE Kept
  BY <1>6 DEF Log
<1>7. CASE UartStep(1 \in Shown(level)) /\ UNCHANGED fw
  BY <1>7 DEF fw
<1> QED  BY <1>1, <1>2, <1>3, <1>4, <1>5, <1>6, <1>7 DEF NextFirmware, Startup, Loop

\* Only the daemon's step takes it back to its messages.
LEMMA DaemonOnly ==
  ASSUME [NextFirmware]_firmwareVars, ~ Daemon
  PROVE  ~ (stage = "daemon" /\ stage' = "loop")
<1> SUFFICES ASSUME stage = "daemon", stage' = "loop" PROVE FALSE
  OBVIOUS
<1>1. ~ Startup
  BY DEF Startup, Early, Debugger, MessageBox, TimersAndStandby, Notify, Interrupts, TwoWire
<1>2. ~ (NoMessage \/ BaudBack \/ Request \/ Switch \/ Changed \/ WakeUp \/ SuspendBack \/ Tick)
  BY DEF NoMessage, BaudBack, Request, Switch, Changed, WakeUp, SuspendBack, Tick
<1>3. ASSUME NEW m \in Messages, Handle(m) \/ Baud(m) \/ PowerOp(m) \/ Suspend(m) PROVE FALSE
  BY <1>3 DEF Handle, Baud, PowerOp, Suspend
<1>4. ASSUME NEW f \in Formats, Log(f) PROVE FALSE
  BY <1>4 DEF Log
<1>5. ~ UNCHANGED fw
  BY DEF fw
<1> QED  BY <1>1, <1>2, <1>3, <1>4, <1>5 DEF NextFirmware, Loop, firmwareVars

\* The tick counter has room for more than two periods of the daemon list.
LEMMA TickSpaceFacts ==
  /\ TickSpace \in Nat \ {0} /\ DaemonTicks \in Nat /\ 2 * DaemonTicks < TickSpace
  /\ TickSpace \div 2 \in Nat /\ 2 * (TickSpace \div 2) <= TickSpace
  /\ DaemonTicks <= TickSpace \div 2
BY FirmwareAssumption

\* A tick count that left the tick space by less than its size comes back.
LEMMA TickMod ==
  ASSUME NEW x \in Int, 0 <= x + TickSpace, x < TickSpace + TickSpace
  PROVE  x % TickSpace = IF x < 0 THEN x + TickSpace
                         ELSE IF x < TickSpace THEN x ELSE x - TickSpace
<1>0. TickSpace \in Nat \ {0}
  BY TickSpaceFacts
<1>1. CASE x < 0
  BY <1>0, <1>1, ModFacts
<1>2. CASE 0 <= x /\ x < TickSpace
  <2>1. x \in 0 .. TickSpace - 1
    BY <1>0, <1>2
  <2> QED  BY <1>0, <1>2, <2>1, ModFacts
<1>3. CASE TickSpace <= x
  <2>1. x % TickSpace = x - TickSpace
    BY <1>0, <1>3, ModFacts
  <2> QED  BY <1>0, <1>3, <2>1
<1> QED  BY <1>0, <1>1, <1>2, <1>3

\* The daemon list is due from DAEMON_ONCE_TICKS ticks on and not before.
LEMMA DueExactly ==
  ASSUME FirmwareTypeOK, DaemonInv, stage \in Looping, since < DaemonTicks + TickSpace \div 2
  PROVE  Due <=> since >= DaemonTicks
<1> DEFINE half == TickSpace \div 2
<1>0. /\ tick \in 0 .. TickSpace - 1 /\ next \in 0 .. TickSpace - 1 /\ since \in Nat
      /\ Lags(tick, next, since)
  BY DEF FirmwareTypeOK, DaemonInv
<1>1. (tick - next) % TickSpace = IF tick < next THEN (tick - next) + TickSpace ELSE tick - next
  <2> DEFINE x == tick - next
  <2>1. x \in Int /\ 0 <= x + TickSpace /\ x < TickSpace /\ x < TickSpace + TickSpace
        /\ (x < 0 <=> tick < next)
    BY <1>0, TickSpaceFacts
  <2> HIDE DEF x
  <2>2. x % TickSpace = IF x < 0 THEN x + TickSpace ELSE x
    BY <2>1, TickMod
  <2> QED  BY <2>1, <2>2 DEF x
<1> HIDE DEF half
<1>2. /\ TickSpace \in Nat \ {0} /\ DaemonTicks \in Nat /\ 2 * DaemonTicks < TickSpace
      /\ half \in Nat /\ 2 * half <= TickSpace /\ DaemonTicks <= half /\ since < DaemonTicks + half
  BY TickSpaceFacts DEF half
<1>3. (tick - next) % TickSpace < half <=> since >= DaemonTicks
  BY <1>0, <1>1, <1>2 DEF Lags
<1> QED  BY <1>3 DEF Due, half

\* Every step keeps the ticks to the next run in step with those since the last one, also
\* where the counter wraps.
LEMMA DaemonKept ==
  ASSUME FirmwareTypeOK, DaemonInv, [NextFirmware]_firmwareVars
  PROVE  /\ DaemonInv' /\ tick' \in 0 .. TickSpace - 1 /\ next' \in 0 .. TickSpace - 1
         /\ since' \in Nat
<1> DEFINE half == TickSpace \div 2
<1>0. tick \in 0 .. TickSpace - 1 /\ next \in 0 .. TickSpace - 1 /\ since \in Nat
  BY DEF FirmwareTypeOK
<1>1. CASE Notify
  <2>1. /\ stage = "notify" /\ stage' = "loop" /\ next' = DaemonTicks /\ UNCHANGED <<tick, since>>
    BY <1>1 DEF Notify
  <2>2. tick = 0 /\ since = 0
    BY <2>1 DEF DaemonInv, Starting
  <2>3. stage' \notin Starting
    BY <2>1 DEF Starting, BeforeUart
  <2> QED  BY <1>0, <2>1, <2>2, <2>3, TickSpaceFacts DEF DaemonInv, Lags
<1>2. CASE Daemon
  <2>1. /\ stage = "daemon" /\ stage' = "loop" /\ tick' = tick
        /\ \/ next' = (tick + DaemonTicks) % TickSpace /\ since' = 0
           \/ UNCHANGED <<next, since>>
    BY <1>2 DEF Daemon
  <2>2. stage \in Looping /\ stage' \in Looping /\ stage' \notin Starting
    BY <2>1 DEF Looping, Starting, BeforeUart
  <2>3. CASE UNCHANGED <<next, since>>
    BY <1>0, <2>1, <2>2, <2>3 DEF DaemonInv, Lags
  <2>4. CASE next' = (tick + DaemonTicks) % TickSpace /\ since' = 0
    <3>1. next' = IF tick + DaemonTicks < TickSpace THEN tick + DaemonTicks
                  ELSE (tick + DaemonTicks) - TickSpace
      <4> DEFINE x == tick + DaemonTicks
      <4>1. x \in Int /\ 0 <= x + TickSpace /\ x < TickSpace + TickSpace /\ ~ (x < 0)
        BY <1>0, TickSpaceFacts
      <4> HIDE DEF x
      <4>2. x % TickSpace = IF x < TickSpace THEN x ELSE x - TickSpace
        BY <4>1, TickMod
      <4> QED  BY <2>4, <4>2 DEF x
    <3> QED  BY <1>0, <2>1, <2>2, <2>4, <3>1, TickSpaceFacts DEF DaemonInv, Lags
  <2> QED  BY <2>1, <2>3, <2>4
<1>3. CASE Tick
  <2>1. /\ stage = "loop" /\ stage' = stage /\ next' = next /\ since' = since + 1
        /\ tick' = (tick + 1) % TickSpace /\ since < DaemonTicks + TickSpace \div 2 - 1
    BY <1>3 DEF Tick
  <2>2. stage \in Looping /\ stage' \notin Starting
    BY <2>1 DEF Looping, Starting, BeforeUart
  <2>3. tick' = IF tick + 1 < TickSpace THEN tick + 1 ELSE (tick + 1) - TickSpace
    <3> DEFINE x == tick + 1
    <3>1. x \in Int /\ 0 <= x + TickSpace /\ x < TickSpace + TickSpace /\ ~ (x < 0)
      BY <1>0, TickSpaceFacts
    <3> HIDE DEF x
    <3>2. x % TickSpace = IF x < TickSpace THEN x ELSE x - TickSpace
      BY <3>1, TickMod
    <3> QED  BY <2>1, <3>2 DEF x
  <2>4. Lags(tick, next, since)
    BY <2>2 DEF DaemonInv
  <2> HIDE DEF half
  <2>5. /\ TickSpace \in Nat \ {0} /\ DaemonTicks \in Nat
        /\ half \in Nat /\ 2 * half <= TickSpace /\ since < DaemonTicks + half - 1
    BY <2>1, TickSpaceFacts DEF half
  <2>6. /\ tick' \in 0 .. TickSpace - 1 /\ since' < DaemonTicks + half
        /\ Lags(tick', next, since + 1)
    BY <1>0, <2>1, <2>3, <2>4, <2>5 DEF Lags
  <2>8. Lags(tick', next', since')
    BY <2>1, <2>6
  <2>9. since' < DaemonTicks + TickSpace \div 2
    BY <2>6 DEF half
  <2>10. since' \in Nat
    BY <1>0, <2>1
  <2> QED  BY <1>0, <2>1, <2>2, <2>6, <2>8, <2>9, <2>10 DEF DaemonInv
<1>4. CASE /\ UNCHANGED <<tick, next, since>>
           /\ stage' \in Starting => stage \in Starting
           /\ stage' \in Looping => stage \in Looping
  BY <1>0, <1>4 DEF DaemonInv, Lags
<1>5. CASE UNCHANGED firmwareVars
  BY <1>4, <1>5 DEF firmwareVars, fw
<1> QED  BY <1>1, <1>2, <1>3, <1>4, <1>5, TickOnly

\* The UART's registers, and what its calls return.
LEMMA UartTyped ==
  ASSUME FirmwareTypeOK, NextFirmware
  PROVE  /\ used' \in BOOLEAN /\ lock' \in BOOLEAN /\ rate' \in Nat /\ arg' \in Nat
         /\ dl' \in 0 .. DivMax /\ act' \in 0 .. DivMax /\ halt' \subseteq {"chg", "upd"}
         /\ fifo' \in Seq({"line", "own"}) /\ Len(fifo') <= FifoDepth
         /\ up' \in {"idle", "req"} \cup RateCalls \cup ClockCalls
         /\ failed' \subseteq {"baud", "baud3", "done", "done3", "req"}
<1> DEFINE Fifo(g) == g \in Seq({"line", "own"}) /\ Len(g) <= FifoDepth
           Regular == /\ lock' \in BOOLEAN /\ rate' \in Nat /\ arg' \in Nat
                      /\ dl' \in 0 .. DivMax /\ act' \in 0 .. DivMax /\ halt' \subseteq {"chg", "upd"}
                      /\ up' \in {"idle", "req"} \cup RateCalls \cup ClockCalls
                      /\ failed' \subseteq {"baud", "baud3", "done", "done3", "req"}
           Goal == used' \in BOOLEAN /\ Regular /\ Fifo(fifo')
<1>0. /\ used \in BOOLEAN /\ lock \in BOOLEAN /\ rate \in Nat /\ arg \in Nat
      /\ dl \in 0 .. DivMax /\ act \in 0 .. DivMax /\ halt \subseteq {"chg", "upd"}
      /\ Fifo(fifo) /\ prcm \in Regs
      /\ up \in {"idle", "req"} \cup RateCalls \cup ClockCalls
      /\ failed \subseteq {"baud", "baud3", "done", "done3", "req"}
  BY DEF FirmwareTypeOK
<1>1. FifoDepth \in Nat /\ FifoDepth >= 1 /\ DefaultRate \in Nat
  BY UartAssumption
<1>2. \A r \in Nat : uart_divisor(Freq, r) \in 0 .. DivMax
  BY <1>0, FreqTyped, DivisorTyped
<1>3. Fifo(<<>>) /\ Fifo(<<"own">>)
  BY <1>1
<1>4. Len(fifo) < FifoDepth => Fifo(Append(fifo, "line"))
  BY <1>0, <1>1
<1>5. fifo # <<>> => Fifo(Tail(fifo))
  BY <1>0, <1>1
<1> HIDE DEF Fifo
<1>6. ASSUME UNCHANGED UartBits PROVE Goal
  BY <1>0, <1>6 DEF UartBits
<1>7. CASE Early \/ StartStep \/ IdleStep \/ Switch
  <2>1. UNCHANGED UartBits
    BY <1>7 DEF Early, StartStep, IdleStep, Switch, Forget, uart, UartBits
  <2> QED  BY <1>6, <2>1 DEF Fifo
<1>8. CASE Debugger
  <2>1. /\ rate' = DefaultRate /\ used' = TRUE /\ up' = "idle" /\ arg' = 0 /\ failed' = failed
        /\ \/ UNCHANGED <<lock, dl, act, halt, fifo>>
           \/ /\ dl' = uart_divisor(Freq, DefaultRate) /\ act' = dl' /\ halt' = {} /\ fifo' = <<>>
              /\ lock' = FALSE
    BY <1>8 DEF Debugger, InitUart, Return
  <2>2. Goal
    BY <1>0, <1>1, <1>2, <1>3, <2>1
  <2> QED  BY <2>2 DEF Fifo
<1>9. CASE Request
  <2>1. /\ up' \in {"req", "idle"} /\ arg' \in {arg, 0}
        /\ fifo' = fifo \/ (fifo' = Append(fifo, "line") /\ Len(fifo) < FifoDepth)
        /\ UNCHANGED <<used, lock, rate, dl, act, halt, failed>>
    BY <1>9 DEF Request, ClkReq, Return
  <2>a. Fifo(fifo')
    BY <1>0, <1>4, <2>1
  <2>2. Goal
    BY <1>0, <2>1, <2>a
  <2> QED  BY <2>2 DEF Fifo
<1>10. CASE Changed
  <2>1. /\ up' \in {"done", "idle"} /\ arg' \in {rate, 0}
        /\ UNCHANGED <<used, lock, rate, dl, act, halt, fifo, failed>>
    BY <1>10 DEF Changed, ClkDone, SetBaudrate, Return
  <2>2. Goal
    BY <1>0, <2>1 DEF ClockCalls
  <2> QED  BY <2>2 DEF Fifo
<1>11. ASSUME NEW m \in Messages, Baud(m) PROVE Goal
  <2>1. m.paras \in Seq(Nat) /\ Len(m.paras) >= 1
    BY <1>11, FirmwareAssumption DEF Baud
  <2>2. m.paras[1] \in Nat
    BY <2>1
  <2>3. /\ up' \in {"baud", "idle"} /\ arg' \in {m.paras[1], 0}
        /\ UNCHANGED <<used, lock, rate, dl, act, halt, fifo, failed>>
    BY <1>11 DEF Baud, SetBaudrate, Return
  <2> QED  BY <1>0, <2>2, <2>3 DEF RateCalls
<1>12. ASSUME NEW f \in Formats, Log(f) PROVE Goal
  <2>1. /\ fifo' = fifo \/ (fifo' = Append(fifo, "line") /\ Len(fifo) < FifoDepth)
        /\ UNCHANGED <<used, lock, rate, dl, act, halt, up, arg, failed>>
    BY <1>12 DEF Log, Puts, uart_putc
  <2> QED  BY <1>0, <1>4, <2>1
<1>13. ASSUME UartStep(1 \in Shown(level)), UNCHANGED fw PROVE Goal
  <2>0. used' = used
    BY <1>13, UartLeaves
  <2>1. CASE BaudDrained(1 \in Shown(level))
    <3>1. /\ fifo' \in {<<"own">>, fifo} /\ up' \in {"baud2", "done2"}
          /\ UNCHANGED <<lock, rate, dl, act, halt, arg, failed>>
      BY <2>1 DEF BaudDrained
    <3> QED  BY <1>0, <1>3, <2>0, <3>1 DEF RateCalls, ClockCalls
  <2>2. CASE BaudRefused \/ BaudBusy \/ BaudStalled \/ ClkReqBusy
    <3>1. /\ up' = "idle" /\ arg' = 0 /\ UNCHANGED <<lock, rate, dl, act, halt, fifo>>
          /\ \E w \in {"baud", "baud3", "done", "done3", "req"} : failed' = failed \cup {w}
      BY <2>2 DEF BaudRefused, BaudBusy, BaudStalled, ClkReqBusy, Fails, Return
    <3> QED  BY <1>0, <2>0, <3>1
  <2>3. CASE BaudLatch
    <3>1. /\ dl' = uart_divisor(Freq, arg) /\ halt' = {"chg", "upd"} /\ up' \in {"baud3", "done3"}
          /\ UNCHANGED <<lock, rate, act, fifo, arg, failed>>
      BY <2>3 DEF BaudLatch
    <3> QED  BY <1>0, <1>2, <2>0, <3>1 DEF RateCalls, ClockCalls
  <2>4. CASE BaudUpdated
    <3>1. /\ halt' = {"upd"} /\ rate' = arg /\ failed' = {} /\ lock' \in {FALSE, lock}
          /\ up' = "idle" /\ arg' = 0 /\ UNCHANGED <<dl, act, fifo>>
      BY <2>4 DEF BaudUpdated, Return
    <3> QED  BY <1>0, <2>0, <3>1
  <2>5. CASE ClkReqDrained
    <3>1. lock' = TRUE /\ up' = "idle" /\ arg' = 0 /\ UNCHANGED <<rate, dl, act, halt, fifo, failed>>
      BY <2>5 DEF ClkReqDrained, Return
    <3> QED  BY <1>0, <2>0, <3>1
  <2>6. CASE Shift
    <3>1. /\ fifo # <<>> /\ fifo' = Tail(fifo)
          /\ UNCHANGED <<lock, rate, dl, act, halt, up, arg, failed>>
      BY <2>6 DEF Shift
    <3> QED  BY <1>0, <1>5, <2>0, <3>1
  <2>7. CASE Update
    <3>1. halt' = halt \ {"upd"} /\ act' = dl /\ UNCHANGED <<lock, rate, dl, fifo, up, arg, failed>>
      BY <2>7 DEF Update
    <3> QED  BY <1>0, <2>0, <3>1
  <2> QED  BY <1>13, <2>1, <2>2, <2>3, <2>4, <2>5, <2>6, <2>7 DEF UartStep
<1>14. Goal
  BY <1>6, <1>7, <1>8, <1>9, <1>10, <1>11, <1>12, <1>13, StepKinds DEF Fifo
<1> QED  BY <1>14 DEF Fifo

\* What the calls of the UART return and the messages are answered with.
LEMMA AnswerTyped ==
  ASSUME FirmwareTypeOK, CrcInv, NextFirmware
  PROVE  res' \in Results /\ answer' \in Results
<1> USE DEF Results
<1>0. res \in Results /\ answer \in Results
  BY DEF FirmwareTypeOK
<1>1. CASE Startup
  <2>1. answer' = answer
    BY <1>1 DEF Startup, Early, Debugger, MessageBox, TimersAndStandby, Notify, Interrupts, TwoWire
  <2>2. res' \in {res, OK, EINVAL}
    BY <1>1 DEF Startup, Early, Debugger, MessageBox, TimersAndStandby, Notify, Interrupts, TwoWire,
                InitUart, Return, uart
  <2> QED  BY <1>0, <2>1, <2>2
<1>2. CASE NoMessage \/ Daemon \/ Tick
  BY <1>0, <1>2 DEF NoMessage, Daemon, Tick, uart
<1>3. CASE BaudBack \/ WakeUp \/ SuspendBack \/ Switch
  <2>1. res' = OK /\ answer' \in {res, answer, OK}
    BY <1>3 DEF BaudBack, WakeUp, SuspendBack, Switch, Done, Forget
  <2> QED  BY <1>0, <2>1
<1>4. CASE Request \/ Changed
  <2>1. res' \in {res, EACCES} /\ answer' = answer
    BY <1>4 DEF Request, Changed, ClkReq, ClkDone, SetBaudrate, Return
  <2> QED  BY <1>0, <2>1
<1>5. ASSUME NEW m \in Messages, Baud(m) \/ PowerOp(m) \/ Suspend(m)
      PROVE  res' \in Results /\ answer' \in Results
  <2>1. res' \in {res, EACCES} /\ answer' = answer
    BY <1>5 DEF Baud, PowerOp, Suspend, SetBaudrate, Return, uart
  <2> QED  BY <1>0, <2>1
<1>6. ASSUME NEW m \in Messages, Handle(m) PROVE res' \in Results /\ answer' \in Results
  <2>1. res' = res
    BY <1>6 DEF Handle, uart
  <2>2. CASE m.type = "DRAM_CRC" /\ Len(m.paras) >= MinCount(m.type)
    <3>1. m.paras \in Seq(Nat) /\ Len(m.paras) >= 3
      BY <2>2, FirmwareAssumption DEF MinCount
    <3>2. m.paras[1] \in Nat /\ m.paras[2] \in Nat /\ m.paras[3] \in Nat
      BY <3>1
    <3>3. \/ answer' \in Results
          \/ answer' = standby_set_dram_crc_paras(crc, m.paras[1], m.paras[2], m.paras[3]).ret
      BY <1>6, <2>2 DEF Handle, Done
    <3>4. standby_set_dram_crc_paras(crc, m.paras[1], m.paras[2], m.paras[3]).ret \in {OK, EINVAL}
      BY <3>2, CrcSet DEF FirmwareTypeOK, CrcInv
    <3> QED  BY <1>0, <2>1, <3>3, <3>4
  <2>3. CASE m.type # "DRAM_CRC" \/ ~ (Len(m.paras) >= MinCount(m.type))
    <3>1. answer' \in {EINVAL, OK, EFAIL, EACCES, ESRCH}
      BY <1>6, <2>3 DEF Handle, Done
    <3> QED  BY <1>0, <2>1, <3>1
  <2> QED  BY <2>2, <2>3
<1>7. ASSUME NEW f \in Formats, Log(f) PROVE res' \in Results /\ answer' \in Results
  BY <1>0, <1>7 DEF Log, Puts
<1>8. CASE UartStep(1 \in Shown(level)) /\ UNCHANGED fw
  <2>1. answer' = answer
    BY <1>8 DEF fw
  <2>2. res' \in {res, OK, EINVAL, ETIMEOUT}
    BY <1>8 DEF UartStep, BaudDrained, BaudRefused, BaudBusy, BaudLatch, BaudUpdated, BaudStalled,
         ClkReqDrained, ClkReqBusy, Shift, Update, Fails, Return
  <2> QED  BY <1>0, <2>1, <2>2
<1> QED  BY <1>1, <1>2, <1>3, <1>4, <1>5, <1>6, <1>7, <1>8 DEF NextFirmware, Loop

\* The rest of the types: only startup changes them, beside stage and clocks.
LEMMA SettledTyped ==
  ASSUME FirmwareTypeOK, TreeInv, NextFirmware
  PROVE  /\ prcm' \in Regs /\ stage' \in Starting \cup Looping
         /\ tree' \in AllTrees \cup {"read"}
         /\ dtb_base' \in BOOLEAN /\ dram' \in BOOLEAN /\ timerlock' \in BOOLEAN /\ ready' \in BOOLEAN
         /\ notif' \in [used : Nat, list : [Heads -> Seq({"timer_hosc_onoff_cb", "cpu_stack_monitor"})]]
         /\ wdog' \in [clk : {"dcxo", "rtc32k"}, rst : {"none", "sys"}, intv : {0, 4}, on : BOOLEAN]
         /\ soft' \in Seq({"wakeup_timer"})
         /\ status' \in {OK, EINVAL, EFAIL}
<1> DEFINE Notifiers == [used : Nat, list : [Heads -> Seq({"timer_hosc_onoff_cb", "cpu_stack_monitor"})]]
           Dogs == [clk : {"dcxo", "rtc32k"}, rst : {"none", "sys"}, intv : {0, 4}, on : BOOLEAN]
           Goal == /\ prcm' \in Regs /\ stage' \in Starting \cup Looping
                   /\ tree' \in AllTrees \cup {"read"}
                   /\ dtb_base' \in BOOLEAN /\ dram' \in BOOLEAN
                   /\ timerlock' \in BOOLEAN /\ ready' \in BOOLEAN
                   /\ notif' \in Notifiers /\ wdog' \in Dogs
                   /\ soft' \in Seq({"wakeup_timer"}) /\ status' \in {OK, EINVAL, EFAIL}
<1>0. /\ prcm \in Regs /\ stage \in Starting \cup Looping
      /\ tree \in AllTrees \cup {"read"}
      /\ dtb_base \in BOOLEAN /\ dram \in BOOLEAN /\ timerlock \in BOOLEAN /\ ready \in BOOLEAN
      /\ notif \in Notifiers /\ wdog \in Dogs
      /\ soft \in Seq({"wakeup_timer"}) /\ status \in {OK, EINVAL, EFAIL}
  BY DEF FirmwareTypeOK
<1>1. \A h \in Heads, cb \in {"timer_hosc_onoff_cb", "cpu_stack_monitor"} :
        notifier_insert(notif, h, cb) \in Notifiers
  <2> SUFFICES ASSUME NEW h \in Heads, NEW cb \in {"timer_hosc_onoff_cb", "cpu_stack_monitor"}
               PROVE  notifier_insert(notif, h, cb) \in Notifiers
    OBVIOUS
  <2>1. <<cb>> \o notif.list[h] \in Seq({"timer_hosc_onoff_cb", "cpu_stack_monitor"})
    BY <1>0
  <2>2. [notif.list EXCEPT ![h] = <<cb>> \o @]
          \in [Heads -> Seq({"timer_hosc_onoff_cb", "cpu_stack_monitor"})]
    BY <1>0, <2>1
  <2> QED  BY <1>0, <2>2 DEF notifier_insert
<1>2. notifier_init(notif) \in Notifiers
  BY <1>0 DEF notifier_init
<1>3. watchdog_init(wdog) \in Dogs
  BY <1>0 DEF watchdog_init
<1>4. ccu_init(prcm) \in Regs
  <2>1. \A a, b, c \in BusReg : [prcm EXCEPT !.cpus = a, !.apbs0 = b, !.apbs1 = c] \in Regs
    BY <1>0 DEF Regs
  <2>2. [src |-> 3, m |-> 0] \in BusReg /\ [src |-> 3, m |-> 1] \in BusReg
        /\ [src |-> 4, m |-> 0] \in BusReg
    BY DEF BusReg
  <2> QED  BY <2>1, <2>2 DEF ccu_init
<1> HIDE DEF Notifiers, Dogs
<1> USE DEF Starting, Looping, BeforeUart, OnRc
<1>5. ASSUME Early PROVE Goal
  <2> DEFINE d == dtb_base_init(cell, cpucfg_init(le))
  <2>1. /\ stage = "entry" /\ stage' = "intc" /\ dtb_base' = d.ok
        /\ notif' = notifier_init(notif) /\ prcm' = ccu_init(prcm)
        /\ UNCHANGED <<tree, dram, wdog, soft, timerlock, status, ready>>
    BY <1>5 DEF Early
  <2>2. le = LeReset
    BY <2>1 DEF TreeInv
  <2>3. d.ok \in BOOLEAN
    BY <2>2, WindowOpen
  <2> HIDE DEF d
  <2> QED  BY <1>0, <1>2, <1>4, <2>1, <2>3
<1>6. ASSUME Debugger PROVE Goal
  <2>1. /\ stage' = "twi" /\ dram' \in BOOLEAN
        /\ UNCHANGED <<tree, dtb_base, notif, wdog, soft, timerlock, ready>>
    BY <1>6 DEF Debugger
  <2>2. prcm' \in Regs
    BY <1>0, <1>6, ClockUp DEF Debugger, InitUart, Gated, Resettable
  <2>3. status' \in {status, EINVAL, OK}
    BY <1>6 DEF Debugger, InitUart, Return
  <2> QED  BY <1>0, <2>1, <2>2, <2>3
<1>7. ASSUME MessageBox PROVE Goal
  <2>1. /\ stage' = "timer" /\ ready' = TRUE
        /\ UNCHANGED <<tree, dtb_base, dram, notif, wdog, soft, timerlock, status>>
    BY <1>7 DEF MessageBox
  <2>2. prcm' \in Regs
    BY <1>0, <1>7, ClockOn DEF MessageBox, hwmsgbox_init, Gated, Resettable
  <2> QED  BY <1>0, <2>1, <2>2
<1>8. ASSUME TimersAndStandby PROVE Goal
  <2>1. /\ stage' \in {"notify", "doze"} /\ timerlock' = FALSE /\ status' \in {status, EFAIL}
        /\ wdog' \in {wdog, watchdog_init(wdog)}
        /\ UNCHANGED <<tree, dtb_base, dram, ready>>
    BY <1>8 DEF TimersAndStandby, Failed
  <2>2. prcm' \in Regs
    BY <1>0, <1>8, ClockOn DEF TimersAndStandby, TimerClocks, Gated, Resettable
  <2>3. notif' \in Notifiers
    BY <1>1, <1>8 DEF TimersAndStandby, ccu_24mhosc_reg_cb, Heads
  <2>4. soft' \in {soft, Append(soft, "wakeup_timer")}
    BY <1>8 DEF TimersAndStandby, wakeup_timer_init, add_softtimer
  <2>5. soft' \in Seq({"wakeup_timer"})
    BY <1>0, <2>4
  <2> QED  BY <1>0, <1>3, <2>1, <2>2, <2>3, <2>5
<1>9. ASSUME Notify PROVE Goal
  <2>1. /\ stage' = "loop" /\ tree' = "read"
        /\ UNCHANGED <<prcm, dtb_base, dram, wdog, soft, timerlock, status, ready>>
    BY <1>9 DEF Notify
  <2>2. notif' \in Notifiers
    BY <1>1, <1>9 DEF Notify, cpu_init, daemon_register_service, Heads
  <2> QED  BY <1>0, <2>1, <2>2
<1>10. ASSUME NEW ok \in BOOLEAN, Interrupts(ok) PROVE Goal
  <2>1. /\ stage' \in {"debugger", "returned"}
        /\ UNCHANGED <<prcm, tree, dtb_base, dram, notif, wdog, soft, timerlock, status, ready>>
    BY <1>10 DEF Interrupts
  <2> QED  BY <1>0, <2>1
<1>11. ASSUME NEW ok \in BOOLEAN, TwoWire(ok) PROVE Goal
  <2>1. /\ stage' \in {"msgbox", "doze"} /\ status' \in {status, EFAIL}
        /\ UNCHANGED <<tree, dtb_base, dram, notif, wdog, soft, timerlock, ready>>
    BY <1>11 DEF TwoWire, Failed
  <2>2. prcm' \in Regs
    BY <1>0, <1>11, ClockOn DEF TwoWire, Gated, Resettable
  <2> QED  BY <1>0, <2>1, <2>2
<1>12. ASSUME Loop PROVE Goal
  <2>1. stage' \in Looping /\ prcm' \in Regs /\ UNCHANGED Settled
    BY <1>12, LoopLeaves
  <2> QED  BY <1>0, <2>1 DEF Settled
<1>13. ASSUME UartStep(1 \in Shown(level)), UNCHANGED fw PROVE Goal
  <2>1. UNCHANGED <<prcm, stage>> /\ UNCHANGED Settled
    BY <1>13, UartLeaves
  <2> QED  BY <1>0, <2>1 DEF Settled
<1>14. Goal
  BY <1>5, <1>6, <1>7, <1>8, <1>9, <1>10, <1>11, <1>12, <1>13 DEF NextFirmware, Startup
<1> QED  BY <1>14 DEF Notifiers, Dogs

-----------------------------------------------------------------------------
(* The inductive invariant. *)

\* The state at reset.
LEMMA FirmwareInitial == InitFirmware => FirmwareIInv
<1> SUFFICES ASSUME InitFirmware PROVE FirmwareIInv
  OBVIOUS
<1> USE DEF InitFirmware
<1>1. FirmwareTypeOK
  <2>1. prcm \in Regs
    <3>1. Iosc \in Nat /\ Losc \in Nat
      BY PrcmAssumption
    <3> QED  BY <3>1 DEF PrcmReset, Regs, CirReg, BusReg
  <2>2. /\ used \in BOOLEAN /\ lock \in BOOLEAN /\ rate \in Nat /\ arg \in Nat
        /\ dl \in 0 .. DivMax /\ act \in 0 .. DivMax /\ halt \subseteq {"chg", "upd"}
        /\ fifo \in Seq({"line", "own"}) /\ Len(fifo) <= FifoDepth
        /\ failed \subseteq {"baud", "baud3", "done", "done3", "req"}
    <3>1. DivMax \in Nat /\ FifoDepth \in Nat
      BY UartAssumption
    <3>2. Len(<<>>) = 0 /\ <<>> \in Seq({"line", "own"})
      OBVIOUS
    <3>3. /\ used = FALSE /\ lock = TRUE /\ rate = 0 /\ dl = 0 /\ act = 0 /\ halt = {} /\ fifo = <<>>
          /\ arg = 0 /\ failed = {}
      BY DEF UartInit
    <3>4. 0 \in 0 .. DivMax /\ 0 <= FifoDepth
      BY <3>1
    <3> QED  BY <3>2, <3>3, <3>4
  <2>3. up \in {"idle", "req"} \cup RateCalls \cup ClockCalls /\ res \in Results /\ answer \in Results
    BY DEF UartInit, Results
  <2>4. /\ stage \in Starting \cup Looping /\ tree \in AllTrees \cup {"read"}
        /\ dtb_base \in BOOLEAN /\ dram \in BOOLEAN /\ timerlock \in BOOLEAN /\ ready \in BOOLEAN
        /\ status \in {OK, EINVAL, EFAIL}
    BY FirmwareAssumption DEF Starting, BeforeUart
  <2>5. /\ notif \in [used : Nat, list : [Heads -> Seq({"timer_hosc_onoff_cb", "cpu_stack_monitor"})]]
        /\ soft \in Seq({"wakeup_timer"})
    OBVIOUS
  <2>6. wdog \in [clk : {"dcxo", "rtc32k"}, rst : {"none", "sys"}, intv : {0, 4}, on : BOOLEAN]
    BY DEF WatchdogReset
  <2>7. level \in Nat /\ crc \in [enable : 0 .. 1, src : Nat, len : Nat]
    BY FirmwareAssumption
  <2>8. tick \in 0 .. TickSpace - 1 /\ next \in 0 .. TickSpace - 1 /\ since \in Nat
    BY TickSpaceFacts
  <2> QED  BY <2>1, <2>2, <2>3, <2>4, <2>5, <2>6, <2>7, <2>8 DEF FirmwareTypeOK
<1>2. TreeInv
  BY FirmwareAssumption DEF TreeInv, AllTrees, Starting, BeforeUart
<1>3. StageInv
  BY DEF StageInv, Starting, Looping, BeforeUart, OnRc, WatchdogReset
<1>4. CallInv /\ RateInv /\ QuietInv
  BY DEF CallInv, RateInv, QuietInv, UartInit, BeforeUart, RateCalls, ClockCalls, Latched
<1>5. CrcInv
  BY DEF CrcInv
<1>6. DaemonInv
  BY TickSpaceFacts DEF DaemonInv, Looping, OnRc
<1> QED  BY <1>1, <1>2, <1>3, <1>4, <1>5, <1>6 DEF FirmwareIInv

\* Every step of startup, of the loop and of the UART.
LEMMA FirmwareStep == FirmwareIInv /\ [NextFirmware]_firmwareVars => FirmwareIInv'
<1> SUFFICES ASSUME FirmwareIInv, [NextFirmware]_firmwareVars PROVE FirmwareIInv'
  OBVIOUS
<1> USE DEF FirmwareIInv
<1>1. TreeInv' /\ StageInv'
  BY TreeKept, StageKept
<1>2. CallInv' /\ RateInv' /\ QuietInv'
  BY CallKept, RateKept, QuietKept
<1>3. CrcInv' /\ DaemonInv'
  BY MessageKept, DaemonKept
<1>4. FirmwareTypeOK'
  <2>1. CASE NextFirmware
    BY <2>1, UartTyped, AnswerTyped, SettledTyped, MessageKept, DaemonKept DEF FirmwareTypeOK
  <2>2. CASE UNCHANGED firmwareVars
    BY <2>2 DEF firmwareVars, fw, uart, FirmwareTypeOK
  <2> QED  BY <2>1, <2>2
<1> QED  BY <1>1, <1>2, <1>3, <1>4

\* The invariant the others follow from: what is known of the tree and its window, of the
\* stage of startup, of a call of the UART driver, of rate and divisor, of the FIFO of a
\* locked UART, of checked parameters, and of the ticks to the next run of the daemon list.
THEOREM FirmwareInductive == SpecFirmware => []FirmwareIInv
BY FirmwareInitial, FirmwareStep, PTL DEF SpecFirmware

\* The main loop is entered, or startup given up, with what startup_entry promised: the tree
\* boot0 published is found, a window open for it and for nothing else, and the wakeup timer,
\* the notifiers and the module clocks there.
THEOREM FirmwareStarted == SpecFirmware => []Started
<1>1. FirmwareIInv => Started
  <2> SUFFICES ASSUME FirmwareIInv PROVE Started
    OBVIOUS
  <2>1. /\ stage # "entry" /\ tree # "read" =>
             /\ dtb_base <=> tree \in {"bare", "good"}
             /\ stage \notin {"intc", "debugger", "returned"} => (dram <=> tree = "good")
        /\ stage # "entry" => le.used = (IF dtb_base THEN 1 ELSE 0) /\ le.ctrl = 0 .. le.used - 1
        /\ dram => dtb_base
    BY DEF FirmwareIInv, TreeInv, BeforeUart
  <2>2. stage \in {"loop", "daemon", "baud", "asleep"} =>
          /\ soft = <<"wakeup_timer">> /\ notif.list["hosc"] # <<>> /\ notif.list["daemon"] # <<>>
          /\ {"R_TWI", "R_UART", "R_TIMER0_1", "MSGBOX"} \subseteq prcm.on \cap prcm.nreset
          /\ ~ wdog.on
    BY DEF FirmwareIInv, StageInv, Running, Looping, OnRc, BeforeUart
  <2>3. stage = "doze" => status # OK /\ ~ ready
    BY DEF FirmwareIInv, StageInv
  <2> QED  BY <2>1, <2>2, <2>3 DEF Started
<1> QED  BY <1>1, FirmwareInductive, PTL

\* The UART sends every character at its rate and empties its FIFO before the divisor or the
\* clock changes, whatever messages change them, unless a call reported a failure.
THEOREM FirmwareSendsAtRate == SpecFirmware => SendsAtRate
<1>1. ASSUME FirmwareIInv, FirmwareIInv', [NextFirmware]_firmwareVars
      PROVE  BaudMatches' /\ DrainedFirst
  <2>1. BaudMatches'
    <3>1. RateInv'
      BY <1>1 DEF FirmwareIInv
    <3> QED  BY <3>1 DEF RateInv, BaudMatches, Latched
  <2>2. ASSUME Freq' # Freq, used PROVE fifo = <<>> \/ "req" \in failed
    <3>0. FirmwareTypeOK /\ CallInv /\ QuietInv /\ prcm \in Regs
      BY <1>1 DEF FirmwareIInv, FirmwareTypeOK
    <3>1. ~ Early
      BY <2>2, <3>0 DEF Early, CallInv, BeforeUart
    <3>2. ~ UNCHANGED prcm
      BY <2>2 DEF Freq
    <3>3. ~ Debugger
      BY <2>2, <3>0 DEF Debugger, CallInv, BeforeUart
    <3>4. ~ StartStep
      BY <2>2 DEF StartStep
    <3>5. ~ IdleStep
      <4>1. SUFFICES ASSUME IdleStep PROVE FALSE
        OBVIOUS
      <4>2. stage = "loop"
        BY <2>2, <4>1 DEF IdleStep
      <4>3. prcm.apbs1.src = 4 /\ prcm'.apbs1.src = 4
        BY <3>0, <4>1, <4>2 DEF IdleStep, CallInv, OnRc
      <4>4. Freq = Dcxo /\ Freq' = Dcxo
        BY <4>3 DEF Freq, ccu_get_sclk_freq
      <4> QED  BY <2>2, <4>4
    <3>6. ~ Request /\ ~ Changed
      BY <3>2 DEF Request, Changed, ClkReq, ClkDone, SetBaudrate
    <3>7. ~ (\E m \in Messages : Baud(m)) /\ ~ (\E f \in Formats : Log(f))
      BY <3>2 DEF Baud, SetBaudrate, Log, Puts
    <3>8. ~ (UartStep(1 \in Shown(level)) /\ UNCHANGED fw) /\ ~ UNCHANGED firmwareVars
      BY <3>2, UartLeaves DEF firmwareVars
    <3>9. Switch
      BY <1>1, <3>0, <3>1, <3>3, <3>4, <3>5, <3>6, <3>7, <3>8, StepKinds
    <3>10. stage \in {"slow", "fast"} /\ up = "idle"
      BY <3>9 DEF Switch
    <3> QED  BY <3>0, <3>10 DEF QuietInv
  <2>3. ASSUME fifo # <<>>, Head(fifo) = "line", failed = {} PROVE act = uart_divisor(Freq, rate)
    <3>1. ~ lock
      BY <1>1, <2>3 DEF FirmwareIInv, QuietInv
    <3>2. fifo # <<"own">>
      BY <2>3
    <3>3. up \notin Latched
      BY <1>1, <2>3, <3>2 DEF FirmwareIInv, QuietInv, Latched
    <3> QED  BY <1>1, <2>3, <3>1, <3>3 DEF FirmwareIInv, RateInv
  <2> QED  BY <2>1, <2>2, <2>3 DEF DrainedFirst
<1> QED  BY <1>1, FirmwareInductive, PTL DEF SpecFirmware, SendsAtRate

\* The daemon list runs in the first loop DAEMON_ONCE_TICKS ticks or more after it last ran and
\* not before, also where the tick counter wraps, for a counter of any width that holds two periods.
THEOREM FirmwareDaemonPaced == SpecFirmware => DaemonPaced
<1> DEFINE NotBefore == since' = 0 /\ since # 0 => since >= DaemonTicks
           NotLater == stage = "daemon" /\ stage' = "loop" /\ since >= DaemonTicks => since' = 0
<1>1. ASSUME FirmwareIInv, [NextFirmware]_firmwareVars
      PROVE  NotBefore /\ NotLater
  <2>0. /\ since \in Nat /\ DaemonTicks \in Nat /\ TickSpace \div 2 \in Nat
        /\ since = 0 \/ since < DaemonTicks + TickSpace \div 2
    BY <1>1, TickSpaceFacts DEF FirmwareIInv, FirmwareTypeOK, DaemonInv
  <2>1. CASE Daemon
    <3>1. stage = "daemon" /\ (IF Due THEN since' = 0 ELSE since' = since)
      BY <2>1 DEF Daemon
    <3>2. CASE since = 0
      BY <3>1, <3>2
    <3>3. CASE since # 0
      <4>1. Due <=> since >= DaemonTicks
        <5>1. stage \in Looping
          BY <3>1 DEF Looping
        <5> QED  BY <1>1, <2>0, <3>3, <5>1, DueExactly DEF FirmwareIInv
      <4> QED  BY <3>1, <3>3, <4>1
    <3> QED  BY <3>2, <3>3
  <2>2. CASE Tick
    <3>1. stage = "loop" /\ since' = since + 1
      BY <2>2 DEF Tick
    <3> QED  BY <2>0, <3>1
  <2>3. CASE ~ Daemon /\ ~ Tick
    <3>1. since' = since
      <4>1. Notify => since' = since
        BY DEF Notify
      <4>2. UNCHANGED firmwareVars => since' = since
        BY DEF firmwareVars, fw
      <4> QED  BY <1>1, <2>3, <4>1, <4>2, TickOnly
    <3>2. ~ (stage = "daemon" /\ stage' = "loop")
      BY <1>1, <2>3, DaemonOnly
    <3> QED  BY <3>1, <3>2
  <2> QED  BY <2>1, <2>2, <2>3
<1> QED  BY <1>1, FirmwareInductive, PTL DEF SpecFirmware, DaemonPaced

-----------------------------------------------------------------------------
(* Bounds. *)

\* A range of n aligned words holds n words.
LEMMA WordCount ==
  ASSUME NEW src \in Nat, NEW n \in Nat, src % 4 = 0
  PROVE  Cardinality({a \in Nat : a % 4 = 0 /\ src <= a /\ a < src + 4 * n}) = n
<1> DEFINE W == {a \in Nat : a % 4 = 0 /\ src <= a /\ a < src + 4 * n}
           f == [k \in 1 .. n |-> src + 4 * (k - 1)]
<1>1. f \in [1 .. n -> W]
  <2> SUFFICES ASSUME NEW k \in 1 .. n PROVE src + 4 * (k - 1) \in W
    OBVIOUS
  <2>1. src + 4 * (k - 1) \in Nat /\ src <= src + 4 * (k - 1) /\ src + 4 * (k - 1) < src + 4 * n
    OBVIOUS
  <2>2. (src + 4 * (k - 1)) % 4 = 0
    OBVIOUS
  <2> QED  BY <2>1, <2>2
<1>2. \A j, k \in 1 .. n : f[j] = f[k] => j = k
  OBVIOUS
<1>3. \A a \in W : \E k \in 1 .. n : f[k] = a
  <2> SUFFICES ASSUME NEW a \in W PROVE \E k \in 1 .. n : f[k] = a
    OBVIOUS
  <2> DEFINE k == (a - src) \div 4 + 1
  <2>1. k \in 1 .. n /\ src + 4 * (k - 1) = a
    OBVIOUS
  <2> HIDE DEF k
  <2> QED  BY <2>1
<1>4. f \in Bijection(1 .. n, W)
  <2> HIDE DEF f, W
  <2>1. f \in Injection(1 .. n, W)
    BY <1>1, <1>2, Fun_IsInj
  <2>2. f \in Surjection(1 .. n, W)
    BY <1>1, <1>3, Fun_IsSurj
  <2> QED  BY <2>1, <2>2 DEF Bijection
<1>5. ExistsBijection(1 .. n, W)
  BY <1>4 DEF ExistsBijection
<1> HIDE DEF W
<1>6. Cardinality(W) = n
  BY <1>5, FS_CountingElements
<1> QED  BY <1>6 DEF W

\* Parameters that standby_set_crc_paras let pass address words of DRAM, as many as were
\* asked for.
LEMMA CrcFits ==
  ASSUME FirmwareTypeOK, CrcInv
  PROVE  CrcInDram
<1> SUFFICES ASSUME crc.enable = 1
             PROVE  /\ CrcWords(crc) \subseteq DramBase .. DramEnd - 1
                    /\ Cardinality(CrcWords(crc)) * 4 = crc.len
  BY DEF CrcInDram
<1> DEFINE src == crc.src
           len == crc.len
<1>1. /\ src \in Nat /\ len \in Nat /\ src % 4 = 0 /\ len % 4 = 0
      /\ src >= DramBase /\ src < DramEnd /\ len <= DramEnd - src
  BY DEF FirmwareTypeOK, CrcInv, CrcRange
<1>2. DramBase \in Nat /\ DramEnd \in Nat /\ AddrSpace \in Nat /\ DramEnd < AddrSpace
  BY FirmwareAssumption
<1>3. (src + len) % AddrSpace = src + len
  <2>1. AddrSpace \in Nat \ {0} /\ src + len \in 0 .. AddrSpace - 1
    BY <1>1, <1>2
  <2> HIDE DEF src, len
  <2> QED  BY <2>1, ModFacts
<1>4. CrcWords(crc) = {a \in 0 .. AddrSpace - 1 : a % 4 = 0 /\ src <= a /\ a < src + len}
  BY <1>3 DEF CrcWords
<1> HIDE DEF src, len
<1>5. PICK n \in Nat : len = 4 * n
  <2>1. len \div 4 \in Nat /\ len = 4 * (len \div 4)
    BY <1>1
  <2> QED  BY <2>1
<1>6. CrcWords(crc) = {a \in Nat : a % 4 = 0 /\ src <= a /\ a < src + 4 * n}
  <2>1. \A a : a \in 0 .. AddrSpace - 1 /\ a < src + len <=> a \in Nat /\ a < src + len
    BY <1>1, <1>2
  <2> QED  BY <1>4, <1>5, <2>1
<1>7. Cardinality(CrcWords(crc)) = n
  BY <1>1, <1>6, WordCount
<1>8. CrcWords(crc) \subseteq DramBase .. DramEnd - 1
  BY <1>1, <1>2, <1>4
<1>9. Cardinality(CrcWords(crc)) * 4 = len
  BY <1>5, <1>7
<1> QED  BY <1>8, <1>9 DEF len

\* The smaller of two numbers.
LEMMA MinOfTwo ==
  ASSUME NEW a \in Int, NEW b \in Int
  PROVE  Min({a, b}) \in {a, b} /\ Min({a, b}) <= a /\ Min({a, b}) <= b
<1>1. \E x \in {a, b} : \A y \in {a, b} : x <= y
  OBVIOUS
<1> QED  BY <1>1 DEF Min

\* A token started while there is room for a number leaves room for the
\* terminator.
LEMMA TokenFits ==
  ASSUME NEW tok \in Token, NEW pos \in 0 .. BufferSize - 1, ~ Stops(pos)
  PROVE  pos + Emit(tok, pos) \in 0 .. BufferSize - 1
<1>0. BufferSize \in Nat /\ pos \in Nat /\ pos < BufferSize - 16
  BY DevicesAssumption DEF Stops
<1>1. /\ tok.kind \in {"number", "string", "char", "other"} /\ tok.len \in Nat /\ tok.align \in 0 .. 9
      /\ tok.kind = "number" => tok.len <= 11
  BY DEF Token
<1>2. CASE tok.kind = "number"
  <2>1. Emit(tok, pos) = tok.len + print_align(tok.len, tok.align)
    BY <1>2 DEF Emit
  <2>2. Emit(tok, pos) \in 0 .. 11
    BY <1>1, <1>2, <2>1 DEF print_align
  <2> QED  BY <1>0, <2>2
<1>3. CASE tok.kind = "string"
  <2>1. Emit(tok, pos) = Min({tok.len, BufferSize - 1 - pos})
    BY <1>3 DEF Emit
  <2>2. Emit(tok, pos) \in {tok.len, BufferSize - 1 - pos} /\ Emit(tok, pos) <= BufferSize - 1 - pos
    <3> DEFINE room == BufferSize - 1 - pos
    <3>1. room \in Int /\ tok.len \in Int
      BY <1>0, <1>1
    <3> HIDE DEF room
    <3>2. Min({tok.len, room}) \in {tok.len, room} /\ Min({tok.len, room}) <= room
      BY <3>1, MinOfTwo
    <3> QED  BY <2>1, <3>2 DEF room
  <2> QED  BY <1>0, <1>1, <2>2
<1>4. CASE tok.kind = "char" \/ tok.kind = "other"
  <2>1. Emit(tok, pos) \in {1, 2}
    BY <1>4 DEF Emit
  <2> QED  BY <1>0, <2>1
<1> QED  BY <1>1, <1>2, <1>3, <1>4

\* So the position stays inside the buffer, for every format.
LEMMA PrintfFits ==
  ASSUME NEW format \in Seq(Token)
  PROVE  debugger_printf(format) \in 0 .. BufferSize - 1
<1> DEFINE N == Len(format)
           Bound == 0 .. BufferSize - 1
           Step(k, p) == IF Stops(p) THEN p ELSE p + Emit(format[k], p)
           Fun(g) == [k \in 0 .. N |-> IF k = 0 THEN 0
                                       ELSE IF Stops(g[k - 1]) THEN g[k - 1]
                                       ELSE g[k - 1] + Emit(format[k], g[k - 1])]
           Runs(g, n) == g[0] = 0 /\ \A k \in 1 .. n : g[k] = Step(k, g[k - 1])
           P == CHOOSE g : g = Fun(g)
<1>0. N \in Nat /\ BufferSize \in Nat /\ 0 \in Bound
  BY DevicesAssumption
<1>1. ASSUME NEW k \in 1 .. N, NEW p \in Bound PROVE Step(k, p) \in Bound
  <2>1. format[k] \in Token
    OBVIOUS
  <2> QED  BY <2>1, TokenFits
<1>2. debugger_printf(format) = P[N]
  BY DEF debugger_printf
<1> HIDE DEF Step, Bound, N
<1>3. \A n \in 0 .. N : \E g \in [0 .. n -> Bound] : Runs(g, n)
  <2> DEFINE Bad == {n \in 0 .. N : ~ \E g \in [0 .. n -> Bound] : Runs(g, n)}
  <2>1. SUFFICES ASSUME Bad # {} PROVE FALSE
    OBVIOUS
  <2>2. Bad \subseteq Nat
    BY <1>0
  <2>3. PICK n \in Bad : \A j \in Bad : ~ (<<j, n>> \in OpToRel(<, Nat))
    BY <2>1, <2>2, NatLessThanWellFounded, WFMin
  <2>4. \A j \in Bad : ~ (j < n)
    BY <2>2, <2>3 DEF OpToRel
  <2>5. n # 0
    <3>1. [k \in 0 .. 0 |-> 0] \in [0 .. 0 -> Bound] /\ Runs([k \in 0 .. 0 |-> 0], 0)
      BY <1>0
    <3> QED  BY <3>1
  <2>6. n \in 1 .. N /\ n - 1 \in 0 .. N /\ n - 1 < n
    BY <1>0, <2>5
  <2>7. PICK g \in [0 .. n - 1 -> Bound] : Runs(g, n - 1)
    BY <2>4, <2>6
  <2> DEFINE h == [k \in 0 .. n |-> IF k = n THEN Step(n, g[n - 1]) ELSE g[k]]
  <2>8. g[n - 1] \in Bound
    BY <1>0, <2>6, <2>7
  <2>9. Step(n, g[n - 1]) \in Bound
    BY <1>1, <2>6, <2>8
  <2>10. h \in [0 .. n -> Bound]
    <3>1. ASSUME NEW k \in 0 .. n PROVE (IF k = n THEN Step(n, g[n - 1]) ELSE g[k]) \in Bound
      BY <1>0, <2>6, <2>7, <2>9
    <3> QED  BY <3>1
  <2>11. Runs(h, n)
    <3>1. h[0] = 0
      BY <1>0, <2>6, <2>7
    <3>2. ASSUME NEW k \in 1 .. n PROVE h[k] = Step(k, h[k - 1])
      <4>1. k \in 0 .. n /\ k - 1 \in 0 .. n /\ k - 1 # n /\ (k # n => k \in 1 .. n - 1)
        BY <1>0, <2>6
      <4>2. h[k - 1] = g[k - 1]
        BY <4>1
      <4>3. CASE k = n
        BY <4>1, <4>2, <4>3
      <4>4. CASE k # n
        BY <2>7, <4>1, <4>2, <4>4
      <4> QED  BY <4>3, <4>4
    <3> QED  BY <3>1, <3>2
  <2> HIDE DEF h
  <2> QED  BY <2>10, <2>11
<1>4. PICK g \in [0 .. N -> Bound] : Runs(g, N)
  <2>1. N \in 0 .. N
    BY <1>0
  <2> QED  BY <1>3, <2>1
<1>5. g = Fun(g)
  <2>1. ASSUME NEW k \in 0 .. N PROVE g[k] = IF k = 0 THEN 0 ELSE Step(k, g[k - 1])
    BY <1>0, <1>4
  <2>2. g = [k \in 0 .. N |-> IF k = 0 THEN 0 ELSE Step(k, g[k - 1])]
    BY <1>4, <2>1
  <2> QED  BY <2>2 DEF Step
<1>6. P = Fun(P)
  BY <1>5
<1> HIDE DEF P
<1>7. P[0] = 0 /\ \A k \in 1 .. N : P[k] = Step(k, P[k - 1])
  <2>1. P = [k \in 0 .. N |-> IF k = 0 THEN 0 ELSE Step(k, P[k - 1])]
    BY <1>6 DEF Step
  <2>2. \A k \in 0 .. N : P[k] = IF k = 0 THEN 0 ELSE Step(k, P[k - 1])
    BY <2>1
  <2> QED  BY <1>0, <2>2
<1>8. \A n \in 0 .. N : P[n] \in Bound
  <2> DEFINE Bad == {n \in 0 .. N : P[n] \notin Bound}
  <2>1. SUFFICES ASSUME Bad # {} PROVE FALSE
    OBVIOUS
  <2>2. Bad \subseteq Nat
    BY <1>0
  <2>3. PICK n \in Bad : \A j \in Bad : ~ (<<j, n>> \in OpToRel(<, Nat))
    BY <2>1, <2>2, NatLessThanWellFounded, WFMin
  <2>4. \A j \in Bad : ~ (j < n)
    BY <2>2, <2>3 DEF OpToRel
  <2>5. n # 0
    BY <1>0, <1>7
  <2>6. n \in 1 .. N /\ n - 1 \in 0 .. N /\ n - 1 < n
    BY <1>0, <2>5
  <2>7. P[n - 1] \in Bound
    BY <2>4, <2>6
  <2> QED  BY <1>1, <1>7, <2>6, <2>7
<1> QED  BY <1>0, <1>2, <1>8 DEF Bound

\* The words standby_dram_crc reads are in DRAM and as many as the message asked for, whatever
\* numbers it holds, and debugger_printf ends every line inside its buffer, whatever the format.
THEOREM FirmwareInBounds == SpecFirmware => InBounds
<1>1. FirmwareIInv => CrcInDram
  BY CrcFits DEF FirmwareIInv
<1>2. LineFits
  <2> SUFFICES ASSUME NEW f \in Formats PROVE debugger_printf(f.tokens) <= BufferSize - 1
    BY DEF LineFits
  <2>1. f.tokens \in Seq(Token)
    BY FirmwareAssumption
  <2>2. debugger_printf(f.tokens) \in 0 .. BufferSize - 1
    BY <2>1, PrintfFits
  <2> QED  BY <2>2, DevicesAssumption
<1> QED  BY <1>1, <1>2, FirmwareInductive, PTL DEF InBounds
=============================================================================
