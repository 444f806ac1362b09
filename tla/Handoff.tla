------------------------------ MODULE Handoff ------------------------------
(***************************************************************************)
(* The handoff stub (arch/armv7/fip_handoff.S): the application CPU, with  *)
(* its MMU and data cache on, replaces the firmware in the E902's SRAM,    *)
(* releases the E902 and restarts itself in BL31.  The E902's side is the  *)
(* first part of its start-up (crt0.S, startup_entry up to the first       *)
(* save_state_flag).                                                       *)
(*                                                                         *)
(* The hardware is as weak as the ARM architecture allows.  A store to     *)
(* SRAM stays in the cache until its line is cleaned or happens to be      *)
(* evicted; a clean, like a store to a device register, is complete only   *)
(* at the next dsb, and until then may complete in any order.  The E902    *)
(* sees the SRAM and the registers, never the cache.                       *)
(***************************************************************************)
EXTENDS Naturals, FiniteSets

CONSTANTS
  Words,       \* SCP_SRAM_SIZE, in words
  PerLine,     \* words of a cache line
  Sizes        \* sizes of SCP_BL2: <<whole words, bytes left over>>

ASSUME HandoffAssumption ==
  /\ Words \in Nat \ {0} /\ PerLine \in Nat \ {0} /\ Words % PerLine = 0
  /\ Sizes \subseteq ((0..Words) \X (0..3))
  /\ \A z \in Sizes : z[1] * 4 + z[2] \in 1..(Words * 4)

Word == 0..(Words - 1)
Lines == 0..((Words \div PerLine) - 1)
LineOf(w) == w \div PerLine

None == "none"
Reg  == {"reset", "bgr", "vector", "clock", "dtb", "btrace", "etrace", "arch", "alt", "rvbar"}

VARIABLES
  pc, i,       \* the stub: its place, and the index of its loops
  size,        \* r7
  cached,      \* Word -> the dirty value in the cache, None if clean
  cleaning,    \* lines whose clean has been issued and not completed
  sram,        \* Word -> what the E902 and the bus see
  reg,         \* Reg -> its value
  pend,        \* Reg -> a store to it that has not completed
  e902,        \* off, old (the previous firmware), or how far it has got
  got,         \* the DTB address the E902 took
  dtb          \* r8, the DTB address boot0 published, 0 for none

vars == <<pc, i, size, cached, cleaning, sram, reg, pend, e902, got, dtb>>

cpux == <<pc, i, size, dtb>>
e    == <<e902, got>>

\* What the E902's SRAM has to hold: the image, zero bytes behind it.
Expected(w) ==
  CASE w < size[1]                 -> "image"
    [] w = size[1] /\ size[2] > 0  -> "tail"
    [] OTHER                       -> "zero"

\* A cold start finds the E902 in reset; a warm one may find it running the
\* firmware of the previous boot, with all its registers set.  The cache
\* holds lines of boot0, which runs in the same SRAM.
Init ==
  /\ pc = "hold" /\ i = 0 /\ size \in Sizes
  /\ dtb \in {"0", "hw_config"} /\ got = None
  /\ cached \in [Word -> {None, "boot0"}] /\ cleaning = {}
  /\ sram = [w \in Word |-> "boot0"]
  /\ pend = [r \in Reg |-> None]
  /\ \E warm \in BOOLEAN :
       /\ e902 = IF warm THEN "old" ELSE "off"
       /\ reg = [r \in Reg |->
                   CASE r \in {"reset", "bgr", "clock"} -> IF warm THEN "on" ELSE "off"
                     [] r = "vector"                    -> IF warm THEN "scp" ELSE "rom"
                     [] OTHER                           -> "reset value"]

-----------------------------------------------------------------------------
(* The memory system. *)

Write(w, v) == cached' = [cached EXCEPT ![w] = v]

\* A dirty line reaches the SRAM, because it was cleaned or evicted.
WriteBack(l) ==
  /\ \E w \in Word : LineOf(w) = l /\ cached[w] # None
  /\ sram' = [w \in Word |-> IF LineOf(w) = l /\ cached[w] # None THEN cached[w] ELSE sram[w]]
  /\ cached' = [w \in Word |-> IF LineOf(w) = l THEN None ELSE cached[w]]
  /\ cleaning' = cleaning \ {l}
  /\ UNCHANGED <<cpux, reg, pend, e>>

\* The clean of a line that is clean already completes.
CleanDone(l) ==
  /\ l \in cleaning /\ \A w \in Word : LineOf(w) = l => cached[w] = None
  /\ cleaning' = cleaning \ {l}
  /\ UNCHANGED <<cpux, cached, sram, reg, pend, e>>

\* A register store completes; taking the reset stops the E902.
Complete(r) ==
  /\ pend[r] # None
  /\ reg' = [reg EXCEPT ![r] = pend[r]]
  /\ pend' = [pend EXCEPT ![r] = None]
  /\ e902' = IF reg'["reset"] = "off" THEN "off" ELSE e902
  /\ UNCHANGED <<cpux, cached, cleaning, sram, got>>

Drained == cleaning = {} /\ \A r \in Reg : pend[r] = None

-----------------------------------------------------------------------------
(* The stub. *)

Go(from, to) == pc = from /\ pc' = to

Keep == UNCHANGED <<size, dtb, sram, reg, e>>

\* A register store, with no barrier behind it.
Store(from, to, r, v) ==
  /\ Go(from, to) /\ pend' = [pend EXCEPT ![r] = v]
  /\ UNCHANGED <<i, cached, cleaning>> /\ Keep

\* dsb sy: everything issued before is complete.
Dsb(from, to) ==
  /\ Go(from, to) /\ Drained
  /\ UNCHANGED <<i, cached, cleaning, pend>> /\ Keep

\* mutant: the E902 is not held.
HoldNot == Go("hold", "hold dsb") /\ UNCHANGED <<i, cached, cleaning, pend>> /\ Keep

Hold    == Store("hold", "hold dsb", "reset", "off")
HoldDsb == Dsb("hold dsb", "clear")

\* The whole SRAM is cleared, word by word ...
Clear ==
  /\ pc = "clear" /\ Write(i, "zero")
  /\ IF i + 1 < Words THEN i' = i + 1 /\ pc' = pc ELSE i' = 0 /\ pc' = "copy"
  /\ UNCHANGED <<cleaning, pend>> /\ Keep

\* mutant: the bytes behind the last whole word are not copied.
CopyWords ==
  /\ pc = "copy"
  /\ IF i < size[1]
     THEN Write(i, "image") /\ i' = i + 1 /\ pc' = pc
     ELSE UNCHANGED cached /\ i' = 0 /\ pc' = "clean"
  /\ UNCHANGED <<cleaning, pend>> /\ Keep

\* ... the image copied, whole words and then the bytes left ...
Copy ==
  /\ pc = "copy"
  /\ \/ i < size[1] /\ Write(i, "image") /\ i' = i + 1 /\ pc' = pc
     \/ i = size[1] /\ size[2] > 0 /\ Write(i, "tail") /\ i' = 0 /\ pc' = "clean"
     \/ i = size[1] /\ size[2] = 0 /\ UNCHANGED cached /\ i' = 0 /\ pc' = "clean"
  /\ UNCHANGED <<cleaning, pend>> /\ Keep

\* mutant: only the lines of the image are cleaned.
CleanImage ==
  /\ pc = "clean" /\ cleaning' = cleaning \cup {i}
  /\ IF (i + 1) * PerLine < size[1] THEN i' = i + 1 /\ pc' = pc ELSE i' = 0 /\ pc' = "clean dsb"
  /\ UNCHANGED <<cached, pend>> /\ Keep

\* ... and every line of the SRAM cleaned.
Clean ==
  /\ pc = "clean" /\ cleaning' = cleaning \cup {i}
  /\ IF i + 1 \in Lines THEN i' = i + 1 /\ pc' = pc ELSE i' = 0 /\ pc' = "clean dsb"
  /\ UNCHANGED <<cached, pend>> /\ Keep

CleanDsb == Dsb("clean dsb", "dtb")

\* The start-up inputs.
StoreDtb    == Store("dtb", "btrace", "dtb", dtb)
StoreBtrace == Store("btrace", "etrace", "btrace", "magic")
StoreEtrace == Store("etrace", "bgr", "etrace", "0")

\* Clock gates, reset vector, reset, special clock: BL31's order.
StoreBgr    == Store("bgr", "bgr dsb", "bgr", "on")

BgrDsb      == Dsb("bgr dsb", "vector")
StoreVector == Store("vector", "vector dsb", "vector", "scp")
VectorDsb   == Dsb("vector dsb", "release")
Release     == Store("release", "release dsb", "reset", "on")
ReleaseDsb  == Dsb("release dsb", "clock")
StoreClock  == Store("clock", "clock dsb", "clock", "on")
ClockDsb    == Dsb("clock dsb", "readback")

\* The reset bit is read back into the trace.
Readback    == Store("readback", "readback dsb", "btrace", reg["reset"])
ReadbackDsb == Dsb("readback dsb", "arch")

\* AArch64, both aliases of the reset address; then the warm reset.
StoreArch   == Store("arch", "arch dsb", "arch", "aarch64")
ArchDsb     == Dsb("arch dsb", "alt")
StoreAlt    == Store("alt", "rvbar", "alt", "bl31")
StoreRvbar  == Store("rvbar", "rvbar dsb", "rvbar", "bl31")

RvbarDsb    == Dsb("rvbar dsb", "restarted")

Stub ==
  \/ Hold \/ HoldDsb \/ Clear \/ Copy \/ Clean \/ CleanDsb
  \/ StoreDtb \/ StoreBtrace \/ StoreEtrace \/ StoreBgr \/ BgrDsb
  \/ StoreVector \/ VectorDsb \/ Release \/ ReleaseDsb \/ StoreClock \/ ClockDsb
  \/ Readback \/ ReadbackDsb \/ StoreArch \/ ArchDsb \/ StoreAlt \/ StoreRvbar \/ RvbarDsb

-----------------------------------------------------------------------------
(* The E902. *)

\* The firmware of the previous boot uses its SRAM, and its state flags go to
\* the register cell of the DTB address.
OldData(w) ==
  /\ e902 = "old" /\ sram[w] # "old" /\ sram' = [sram EXCEPT ![w] = "old"]
  /\ UNCHANGED <<cpux, cached, cleaning, reg, pend, e>>

OldFlag ==
  /\ e902 = "old" /\ reg["dtb"] # "flag" /\ reg' = [reg EXCEPT !["dtb"] = "flag"]
  /\ UNCHANGED <<cpux, cached, cleaning, sram, pend, e>>

\* Out of reset, with its bus and its clock on, it fetches its first
\* instruction from wherever the vector points.
Fetch ==
  /\ e902 = "off" /\ \A r \in {"reset", "bgr", "clock"} : reg[r] = "on"
  /\ e902' = "fetch"
  /\ UNCHANGED <<cpux, cached, cleaning, sram, reg, pend, got>>

\* _start leaves its first mark ...
Breadcrumb ==
  /\ e902 = "fetch" /\ e902' = "crt0" /\ reg' = [reg EXCEPT !["etrace"] = "e902"]
  /\ UNCHANGED <<cpux, cached, cleaning, sram, pend, got>>

\* ... sets up its stack and its bss, behind the image ...
CleanBss ==
  /\ e902 = "crt0" /\ e902' = "bss"
  /\ sram' = [w \in Word |-> IF Expected(w) = "zero" THEN "data" ELSE sram[w]]
  /\ UNCHANGED <<cpux, cached, cleaning, reg, pend, got>>

\* ... takes the DTB address (read_dtb_base) ...
ReadDtbBase ==
  /\ e902 = "bss" /\ e902' = "base" /\ got' = reg["dtb"]
  /\ UNCHANGED <<cpux, cached, cleaning, sram, reg, pend>>

\* ... whose cell the first save_state_flag then overwrites.
SaveStateFlag ==
  /\ e902 = "base" /\ e902' = "run" /\ reg' = [reg EXCEPT !["dtb"] = "flag"]
  /\ UNCHANGED <<cpux, cached, cleaning, sram, pend, got>>

New == Fetch \/ Breadcrumb \/ CleanBss \/ ReadDtbBase \/ SaveStateFlag

\* The application CPU is in BL31 and goes on.
Over == pc = "restarted" /\ UNCHANGED vars

Next ==
  \/ Stub \/ New \/ OldFlag \/ Over
  \/ \E w \in Word : OldData(w)
  \/ \E l \in Lines : WriteBack(l) \/ CleanDone(l)
  \/ \E r \in Reg : Complete(r)

\* Both processors run, an issued clean or store completes in the end; an
\* eviction never has to happen.
Spec ==
  /\ Init /\ [][Next]_vars
  /\ WF_vars(Stub) /\ WF_vars(New)
  /\ \A l \in Lines : WF_vars(l \in cleaning /\ (WriteBack(l) \/ CleanDone(l)))
  /\ \A r \in Reg : WF_vars(Complete(r))

-----------------------------------------------------------------------------
NewFirmware == {"fetch", "crt0", "bss", "base", "run"}

\* The E902 runs only when the SRAM contents, the reset vector and the start
\* parameters are visible: at its first fetch the SRAM holds exactly the
\* image and zeros behind it, whatever was in the cache or ran before, and
\* nothing the stub issued for it is still on its way.  What boot0 left for it
\* reaches it: the DTB address it takes is the one boot0 published, not a state
\* flag of the previous firmware that shares the cell, nor its own; and
\* boot0's zero never lands on top of its trace.
BootsImage ==
  /\ e902 = "fetch" =>
       /\ \A w \in Word : sram[w] = Expected(w)
       /\ reg["vector"] = "scp" /\ reg["dtb"] = dtb
       /\ \A r \in {"vector", "dtb", "etrace", "bgr"} : pend[r] = None
  /\ e902 \in {"base", "run"} => got = dtb
  /\ e902 \in NewFirmware \ {"fetch"} => reg["etrace"] = "e902"

\* From then on the SRAM is the E902's: no line of the application CPU's
\* cache is written back over its data.
SramIsTheirs ==
  [][(e902 \in NewFirmware /\ sram' # sram) => e902' # e902]_vars

\* The application CPU restarts in AArch64 at BL31, whichever alias of the
\* reset address its cluster uses, with no store of the stub outstanding.
RestartsInBl31 ==
  pc = "restarted" =>
    /\ reg["arch"] = "aarch64" /\ reg["alt"] = "bl31" /\ reg["rvbar"] = "bl31"
    /\ Drained

\* Both processors get there.
BothStart == <>(pc = "restarted" /\ e902 = "run")

\* So whichever processor the stub starts finds all that was meant for it.
StartsClean == BootsImage /\ RestartsInBl31
=============================================================================
