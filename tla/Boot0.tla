-------------------------------- MODULE Boot0 --------------------------------
(***************************************************************************)
(* boot0 from main to the jump into the handoff stub or into FEL           *)
(* (boot0_main.c), with the redundant FIP loader of sunxi_fip.c.           *)
(*                                                                         *)
(* sunxi_fip_parse is module FipToc, run on what is in the staging buffer  *)
(* and on the size the first read declared; where copy_images parses again *)
(* it is the predicate WellFormed.  An eMMC is clocked by module Mmc.  The *)
(* medium may answer each read with an error or with any package of its    *)
(* sector, also a different one when the sectors are read a second time.   *)
(* Regions are pages of DRAM; what a copy writes beside its own region is  *)
(* lost.                                                                   *)
(***************************************************************************)
EXTENDS FipFormat, Mmc

CONSTANTS
  Capacity,        \* CONFIG_FIP_STAGING_SIZE
  Primary, Backup, \* sectors of the two packages; 0 is no backup
  Media,           \* packages a read of a sector may return
  CopyFails        \* images whose copy callback may fail

ASSUME Boot0Assumption ==
  /\ Capacity \in Nat /\ Primary \in Nat \ {0} /\ Backup \in Nat
  /\ Media \in [{Primary, Backup} -> SUBSET Images] /\ CopyFails \subseteq Kind

VARIABLES
  stage,      \* where main is
  mmu, clk,   \* "boot", "nominal" or "sys24"
  felflag,    \* RTC FEL flag
  sector,     \* package being read, 0 before the first
  declared,   \* declared_size of sunxi_fip_read_image
  mem,        \* what each region of DRAM holds
  dirty,      \* regions whose data may still be in the D-cache only
  fip_size, used_sector,
  scp, dtb,   \* fip_boot_images: is scp_source set, is dtb_base set?
  gaveup,     \* history: sectors whose package was rejected
  card,       \* controller of the boot medium: 0 (SD card), 2 (eMMC), -1
  pc, n, found, layout, pstart, pend      \* sunxi_fip_parse

hw   == <<mmu, clk, felflag>>
load == <<sector, declared, mem, dirty, fip_size, used_sector, scp, dtb, gaveup>>
parser == <<pc, n, found, layout, pstart, pend>>
dev  == <<sdc, ios, card, parser>>
vars == <<stage, mmu, clk, felflag, sector, declared, mem, dirty, fip_size,
          used_sector, scp, dtb, gaveup, sdc, ios, card, pc, n, found, layout, pstart, pend>>

Parser == INSTANCE FipToc WITH image <- mem["staging"].pkg, size <- declared

Region == {"staging", "stub", "bl31", "bl33", "hw_config", "heap"}

\* in pages of 4 KiB
Base ==
  [staging |-> \h42e00, stub |-> \h42dff, bl31 |-> \h48000, hw_config |-> \h48100,
   bl33 |-> \h4a000, heap |-> \h40800]
Pages ==
  [staging |-> \h200, stub |-> 1, bl31 |-> \h100, hw_config |-> \h100,
   bl33 |-> \h180, heap |-> \h1000]

Meet(r, q) == Base[r] < Base[q] + Pages[q] /\ Base[q] < Base[r] + Pages[r]

Junk == [pkg |-> [magic |-> FALSE], kind |-> "none", patched |-> FALSE]
Whole(im, k) == [pkg |-> im, kind |-> k, patched |-> FALSE]

\* memory after a write of c to region r
Write(r, c) ==
  [q \in Region |-> IF q = r THEN c ELSE IF Meet(r, q) THEN Junk ELSE mem[q]]

Init ==
  /\ stage = "board" /\ mmu = FALSE /\ clk = "boot" /\ felflag \in BOOLEAN
  /\ sector = 0 /\ declared = 0
  /\ mem = [r \in Region |-> Junk] /\ dirty = {}
  /\ fip_size = 0 /\ used_sector = 0 /\ scp = FALSE /\ dtb = FALSE
  /\ gaveup = {}
  /\ MmcInit /\ card = -1 /\ Parser!Init

-----------------------------------------------------------------------------
(* main up to load_fip_images                                               *)

\* sunxi_board_init
BoardInit ==
  /\ stage = "board"
  /\ stage' \in {"clock", "error"}
  /\ UNCHANGED <<hw, load, dev>>

\* a7s_clock_init; its error returns leave the buses on the 24 MHz clock
ClockInit ==
  /\ stage = "clock"
  /\ \/ stage' = "fel_flag" /\ clk' = "nominal"
     \/ stage' = "error" /\ clk' = "sys24"
  /\ UNCHANGED <<mmu, felflag, load, dev>>

FelFlag ==
  /\ stage = "fel_flag"
  /\ stage' = IF felflag THEN "error" ELSE "dram"
  /\ felflag' = FALSE
  /\ UNCHANGED <<mmu, clk, load, dev>>

\* the operator's '2' before or after init_DRAM, or init_DRAM fails
Dram ==
  /\ stage = "dram"
  /\ stage' \in {"late", "error"}
  /\ mmu' = (stage' = "late")
  /\ UNCHANGED <<clk, felflag, load, dev>>

\* sunxi_board_late_init; sunxi_mmc_init_ext registers the boot medium
LateInit ==
  /\ stage = "late"
  /\ \/ stage' = "mmc" /\ card' \in {0, 2}
     \/ stage' = "error" /\ UNCHANGED card
  /\ UNCHANGED <<hw, load, mmc, parser>>

\* mmc_init of an eMMC sets its clock
MmcIos ==
  /\ stage = "mmc" /\ card = 2 /\ MmcStep
  /\ UNCHANGED <<stage, hw, load, card, parser>>

\* mmc_register: mmc_init succeeds only on a card that answers
MmcReady ==
  /\ stage = "mmc"
  /\ card = 2 => ios.pc = "idle" /\ ios.calls > 0
  /\ \/ /\ card = 2 => ~ios.fatal /\ sdc.out
        /\ stage' = "toc" /\ sector' = Primary
     \/ stage' = "error" /\ UNCHANGED sector
  /\ UNCHANGED <<hw, declared, mem, dirty, fip_size, used_sector, scp, dtb, gaveup, dev>>

-----------------------------------------------------------------------------
(* sunxi_fip_read_redundant                                                 *)

\* what follows when sunxi_fip_read_image fails
NextSector ==
  IF sector = Primary /\ Backup # 0 /\ Backup # Primary
    THEN stage' = "toc" /\ sector' = Backup
    ELSE stage' = "error" /\ UNCHANGED sector

Reject ==
  /\ NextSector
  /\ declared' = 0
  /\ gaveup' = gaveup \cup {sector}

\* the first read: the sectors of the table of contents, of which only the
\* declared size is used
ReadToc ==
  /\ stage = "toc"
  /\ \E im \in Media[sector] :
       /\ mem' = Write("staging", Junk)
       /\ \/ /\ DeclaredSize(im, Capacity) # 0
             /\ declared' = DeclaredSize(im, Capacity)
             /\ stage' = "image"
             /\ UNCHANGED <<sector, gaveup>>
          \/ DeclaredSize(im, Capacity) = 0 /\ Reject
  /\ UNCHANGED <<hw, dirty, fip_size, used_sector, scp, dtb, dev>>

\* a failing read leaves anything in the buffer
ReadError ==
  /\ stage \in {"toc", "image"}
  /\ mem' = Write("staging", Junk)
  /\ Reject
  /\ UNCHANGED <<hw, dirty, fip_size, used_sector, scp, dtb, dev>>

\* the second read, of the declared size
ReadImage ==
  /\ stage = "image"
  /\ \E im \in Media[sector] : mem' = Write("staging", Whole(im, "fip"))
  /\ stage' = "parse"
  /\ UNCHANGED <<hw, sector, declared, dirty, fip_size, used_sector, scp, dtb, gaveup, dev>>

Parse ==
  /\ stage = "parse"
  /\ UNCHANGED <<stage, hw, load, mmc, card>>
  /\ Parser!Step

Parsed ==
  /\ stage = "parse"
  /\ Parser!Return
  /\ \/ /\ pc = "ok"
        /\ stage' = "bl31" /\ fip_size' = declared /\ used_sector' = sector
        /\ UNCHANGED <<sector, declared, gaveup>>
     \/ /\ pc = "fail"
        /\ Reject
        /\ UNCHANGED <<fip_size, used_sector>>
  /\ UNCHANGED <<hw, mem, dirty, scp, dtb, mmc, card>>

-----------------------------------------------------------------------------
(* sunxi_fip_copy_images with fip_copy_image, and the rest of               *)
(* load_fip_images                                                          *)

Package == mem["staging"].pkg
HasHwConfig(im) == \E i \in 1 .. MaxEntries :
  /\ EntryAt(im, i).uuid = "hw_config"
  /\ \A j \in 1 .. i : EntryAt(im, j).uuid # "null"

After(k) == CASE k = "bl31" -> "bl33"
              [] k = "bl33" -> IF HasHwConfig(Package) THEN "hw_config" ELSE "scp_bl2"
              [] k = "hw_config" -> "scp_bl2"
              [] k = "scp_bl2" -> "patch"

\* copy_images parses the buffer again before the first copy
CopyStart(k) == k = "bl31" => WellFormed(Package, fip_size)

Copy(k) ==
  /\ k \in Kind \ {"scp_bl2"}
  /\ stage = k /\ CopyStart(k)
  /\ mem' = Write(k, Whole(Package, k))
  /\ dirty' = dirty \cup {k}
  /\ dtb' = (dtb \/ k = "hw_config")
  /\ stage' = After(k)
  /\ UNCHANGED <<hw, sector, declared, fip_size, used_sector, scp, gaveup, dev>>

\* SCP_BL2 stays in the staging buffer until the handoff
CopyScp ==
  /\ stage = "scp_bl2"
  /\ scp' = TRUE
  /\ stage' = After("scp_bl2")
  /\ UNCHANGED <<hw, sector, declared, mem, dirty, fip_size, used_sector, dtb, gaveup, dev>>

\* sunxi_fip_load_redundant reports no package; the backup is not tried
CopyError(k) ==
  /\ stage = k
  /\ k \in CopyFails \/ ~ CopyStart(k)
  /\ fip_size' = 0 /\ used_sector' = 0
  /\ gaveup' = gaveup \cup {sector}
  /\ stage' = "error"
  /\ UNCHANGED <<hw, sector, declared, mem, dirty, scp, dtb, dev>>

\* mutant: a HW_CONFIG that cannot be patched completely is kept
UpdateDramKeeps(ok) ==
  /\ stage = "patch" /\ dtb
  /\ mem' = [mem EXCEPT !["hw_config"].patched = ok]
  /\ dirty' = dirty \cup {"hw_config"}
  /\ stage' = "handoff_prepare"
  /\ UNCHANGED <<hw, sector, declared, fip_size, used_sector, scp, dtb, gaveup, dev>>

\* a733_hw_config_update_dram sets dram_para00 .. 95 one by one: a missing
\* property stops it halfway, and the DTB is then not published
UpdateDram(ok) ==
  /\ stage = "patch" /\ dtb
  /\ mem' = [mem EXCEPT !["hw_config"].patched = ok]
  /\ dirty' = dirty \cup {"hw_config"}
  /\ dtb' = ok
  /\ stage' = "handoff_prepare"
  /\ UNCHANGED <<hw, sector, declared, fip_size, used_sector, scp, gaveup, dev>>

NoDtb ==
  /\ stage = "patch" /\ ~ dtb
  /\ stage' = "handoff_prepare"
  /\ UNCHANGED <<hw, load, dev>>

\* the monitor header gets the address of BL33 and the DRAM size
PatchMonitor ==
  /\ stage = "handoff_prepare"
  /\ mem' = [mem EXCEPT !["bl31"].patched = TRUE]
  /\ dirty' = dirty \cup {"bl31"}
  /\ stage' = "run_handoff"
  /\ UNCHANGED <<hw, sector, declared, fip_size, used_sector, scp, dtb, gaveup, dev>>

\* run_fip_handoff: the stub goes to DRAM, then every region the next stage
\* reads with its caches off is cleaned
RunHandoff ==
  /\ stage = "run_handoff" /\ scp
  /\ mem' = Write("stub", Whole(Package, "stub"))
  /\ dirty' = dirty \ ({"stub", "bl31", "bl33"} \cup (IF dtb THEN {"hw_config"} ELSE {}))
  /\ stage' = "handoff"
  /\ UNCHANGED <<hw, sector, declared, fip_size, used_sector, scp, dtb, gaveup, dev>>

\* boot0_clear_env, boot0_jmp(FEL_BASE)
ClearEnv ==
  /\ stage = "error"
  /\ clk' = "sys24" /\ mmu' = FALSE
  /\ stage' = "fel"
  /\ UNCHANGED <<felflag, load, dev>>

\* the jumps do not come back
Left == stage \in {"handoff", "fel"} /\ UNCHANGED vars

Next ==
  \/ BoardInit \/ ClockInit \/ FelFlag \/ Dram \/ LateInit \/ MmcIos \/ MmcReady
  \/ ReadToc \/ ReadError \/ ReadImage \/ Parse \/ Parsed
  \/ \E k \in Kind : Copy(k) \/ CopyError(k)
  \/ CopyScp
  \/ \E ok \in BOOLEAN : UpdateDram(ok)
  \/ NoDtb \/ PatchMonitor \/ RunHandoff \/ ClearEnv \/ Left

Spec == Init /\ [][Next]_vars
-----------------------------------------------------------------------------
(***************************************************************************)
(* BL31, BL33 and SCP_BL2 that reach the handoff are those of one package, *)
(* the one in the staging buffer, and that package as a whole passed the   *)
(* parser: nothing of a rejected primary is left, nothing was overwritten  *)
(* by a later copy or by the stub, and the monitor header was patched.     *)
(* A published DTB is the HW_CONFIG of that package too, with all of its   *)
(* DRAM parameters patched, never a half-patched one or one that a         *)
(* rejected package left in the window.  The warm reset and the E902 read  *)
(* DRAM past the D-cache of this CPU: all of this, the patches included,   *)
(* is in memory when the stub starts.                                      *)
(***************************************************************************)
HandoffConsistent ==
  stage = "handoff" =>
    /\ scp /\ mem["staging"].kind = "fip"
    /\ WellFormed(Package, fip_size) /\ Package \in Media[used_sector]
    /\ mem["bl31"] = [pkg |-> Package, kind |-> "bl31", patched |-> TRUE]
    /\ mem["bl33"] = Whole(Package, "bl33")
    /\ mem["stub"].kind = "stub"
    /\ dtb => mem["hw_config"] = [pkg |-> Package, kind |-> "hw_config", patched |-> TRUE]
    /\ dirty \cap {"stub", "bl31", "bl33"} = {} /\ (dtb => "hw_config" \notin dirty)

(***************************************************************************)
(* Loading is given up only after both packages were tried, unless there   *)
(* is no second one or a copy callback failed (declared is then still set).*)
(***************************************************************************)
BackupTried ==
  stage = "fel" /\ gaveup # {} /\ declared = 0 =>
    gaveup = {Primary, Backup} \ {0}

(***************************************************************************)
(* So boot0 ends with one whole package, or with none of the two usable.   *)
(***************************************************************************)
LoadsPackage == HandoffConsistent /\ BackupTried

(***************************************************************************)
(* sunxi_fip_parse accepts exactly the well-formed packages among what two *)
(* reads of the medium may leave it, and what it accepts is in bounds.     *)
(***************************************************************************)
ParserExact == Parser!ParserExact

(***************************************************************************)
(* An eMMC is clocked as the MMC core asked, never while the clock changes *)
(* (CardClocked of Mmc), and every read of a package finds it so.          *)
(***************************************************************************)
EmmcClocked ==
  /\ CardClocked
  /\ stage \in {"toc", "image"} /\ card = 2 => Clocked(ios.req)
=============================================================================
