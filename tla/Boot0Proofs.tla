------------------------------ MODULE Boot0Proofs ------------------------------
(***************************************************************************)
(* Proofs about Boot0, for packages, tables of contents and words of any   *)
(* size: the parser of sunxi_fip.c accepts exactly the well-formed         *)
(* packages, what reaches the handoff is one whole package, and the eMMC   *)
(* it comes from is clocked as the MMC core asked.                         *)
(***************************************************************************)
EXTENDS Boot0, WellFoundedInduction, TLAPS

Starting == {"board", "clock", "fel_flag", "dram", "late", "mmc"}
Loading  == {"toc", "image", "parse"}
Copying  == {"bl31", "bl33", "hw_config", "scp_bl2"}
Loaded   == {"patch", "handoff_prepare", "run_handoff", "handoff"}
Leaving  == {"error", "fel"}

Cell == [pkg : Images \cup {Junk.pkg}, kind : Kind \cup {"none", "fip", "stub"}, patched : BOOLEAN]

TypeOK ==
  /\ stage \in Starting \cup Loading \cup Copying \cup Loaded \cup Leaving
  /\ declared \in Int /\ mem \in [Region -> Cell] /\ dirty \subseteq Region
  /\ scp \in BOOLEAN /\ dtb \in BOOLEAN

(***************************************************************************)
(* Which package is being read, and which were given up before it.         *)
(***************************************************************************)
Second == Backup # 0 /\ Backup # Primary

SectorInv ==
  /\ stage \in Starting => gaveup = {}
  /\ stage \in Loading \cup Copying \cup Loaded =>
       \/ sector = Primary /\ gaveup = {}
       \/ sector = Backup /\ Second /\ gaveup = {Primary}
  /\ stage \in {"image", "parse"} \cup Copying \cup Loaded => declared # 0
  /\ stage \in Leaving => gaveup = {} \/ declared # 0 \/ gaveup = {Primary, Backup} \ {0}

(***************************************************************************)
(* What is in memory, stage by stage.                                      *)
(***************************************************************************)
Has(r, k, patched) ==
  mem[r].pkg = Package /\ mem[r].kind = k /\ (mem[r].patched <=> patched)

PackageInv ==
  /\ stage \in {"parse"} \cup Copying \cup Loaded =>
       mem["staging"].kind = "fip" /\ Package \in Media[sector]
  /\ stage \in Copying \cup Loaded => used_sector = sector
  /\ stage \in (Copying \ {"bl31"}) \cup Loaded =>
       /\ WellFormed(Package, fip_size)
       /\ Has("bl31", "bl31", stage \in {"run_handoff", "handoff"})
  /\ stage \in {"hw_config", "scp_bl2"} \cup Loaded => Has("bl33", "bl33", FALSE)
  /\ stage \in Starting \cup Loading \cup {"bl31", "bl33", "hw_config"} => ~ dtb
  /\ stage \in {"scp_bl2"} \cup Loaded /\ dtb =>
       Has("hw_config", "hw_config", stage \in Loaded \ {"patch"})
  /\ stage \in Loaded => scp
  /\ stage = "handoff" =>
       /\ mem["stub"].kind = "stub"
       /\ dirty \cap {"stub", "bl31", "bl33"} = {} /\ (dtb => "hw_config" \notin dirty)

(***************************************************************************)
(* The eMMC's clock.  A fatal error ends all claims but one: the card sees *)
(* no clock while divider and phase change.                                *)
(***************************************************************************)
Config == {"divide", "enable", "gate", "phase", "clock", "start"}

Sdc == [ctl : BOOLEAN, mask : BOOLEAN, busy : BOOLEAN, out : BOOLEAN, on : BOOLEAN, div : Int,
        phase : BOOLEAN]
Ios == [pc : {"idle", "stop", "started"} \cup Config, req : Nat, fatal : BOOLEAN, rate : Int,
        calls : Nat]

MmcInv ==
  /\ sdc \in Sdc /\ ios \in Ios
  /\ ios.pc = "stop" => ~ sdc.ctl /\ (sdc.busy \/ ~ sdc.out)
  /\ ios.pc \in Config => ~ sdc.ctl /\ ~ sdc.busy /\ ~ sdc.out /\ ~ sdc.mask
  /\ ios.pc \in Config \cup {"started"} => ios.req \in MinRate .. MaxRate
  /\ ios.pc \in {"gate", "phase"} => sdc.div = Divider(ios.req) - 1
  /\ ios.pc \in {"clock", "start", "started"} => sdc.div = Divider(ios.req) - 1 /\ sdc.phase
  /\ ios.pc \in {"start", "started"} => sdc.on
  /\ ios.pc = "started" => sdc.ctl /\ (sdc.busy \/ sdc.out)
  /\ ios.pc = "idle" /\ ios.calls > 0 /\ ~ ios.fatal =>
       IF ios.req = 0 THEN ~ sdc.out /\ ~ sdc.busy ELSE Clocked(ios.req)
  /\ stage \in Loading /\ card = 2 => Clocked(ios.req)

(***************************************************************************)
(* The parser: what it knows of the first m entries of a table.            *)
(***************************************************************************)
Apart(d, e) == d.offset + d.size <= e.offset \/ e.offset + e.size <= d.offset

Entries(im, s, m) ==
  /\ \A i \in 1 .. m : EntryAt(im, i).uuid # "null" /\ InBuffer(EntryAt(im, i), s)
  /\ \A i, j \in 1 .. m : i # j => /\ EntryAt(im, i).uuid # EntryAt(im, j).uuid
                                   /\ Apart(EntryAt(im, i), EntryAt(im, j))

Hull(im, m, lo, hi) ==
  /\ \A i \in 1 .. m : lo <= EntryAt(im, i).offset /\ EntryAt(im, i).offset + EntryAt(im, i).size <= hi
  /\ lo = Word - 1 \/ \E i \in 1 .. m : lo = EntryAt(im, i).offset
  /\ hi = 0 \/ \E i \in 1 .. m : hi = EntryAt(im, i).offset + EntryAt(im, i).size

Table(im, m, f, lay) ==
  /\ f = {k \in Kind : Holds(im, m, k)}
  /\ \A k \in Kind \ f : lay[k] = None
  /\ \A i \in 1 .. m : EntryAt(im, i).uuid \in Kind =>
       lay[EntryAt(im, i).uuid] = [offset |-> EntryAt(im, i).offset, size |-> EntryAt(im, i).size]
  /\ lay = [k \in Kind |-> lay[k]]

HeaderOK(im, s) == HeaderSize <= s /\ s <= MaxSize /\ im.magic

Scanned(im, s, m, f, lay, lo, hi) ==
  /\ HeaderOK(im, s) /\ m \in 0 .. MaxEntries
  /\ Entries(im, s, m) /\ Hull(im, m, lo, hi) /\ Table(im, m, f, lay)

Fresh == /\ n = 0 /\ found = {} /\ layout = [k \in Kind |-> None]
         /\ pstart = Word - 1 /\ pend = 0

ParseInv ==
  /\ pc \in {"header", "loop", "ok", "fail"} /\ pstart \in Int /\ pend \in Int
  /\ stage # "parse" => pc = "header"
  /\ pc = "header" => Fresh
  /\ pc \in {"loop", "ok"} => Scanned(Package, declared, n, found, layout, pstart, pend)
  /\ pc = "ok" => n < MaxEntries /\ WellFormedAt(Package, declared, n)
  /\ pc = "fail" => ~ WellFormed(Package, declared)

(***************************************************************************)
(* The inductive invariant.                                                *)
(***************************************************************************)
IInv == TypeOK /\ SectorInv /\ PackageInv /\ MmcInv /\ ParseInv

USE DEF Starting, Loading, Copying, Loaded, Leaving, Config

-----------------------------------------------------------------------------
(* The eMMC. *)

\* The divider is rounded up: the clock is not above what was asked for, and a
\* smaller divider would put it there.
LEMMA DividerUp ==
  ASSUME NEW req \in MinRate .. MaxRate
  PROVE  /\ Divider(req) \in Nat \ {0}
         /\ MaxRate <= req * Divider(req)
         /\ Divider(req) - 1 = 0 \/ MaxRate > req * (Divider(req) - 1)
<1> DEFINE x == MaxRate + req - 1
           d == x \div req
           r == x % req
           p == req * d
<1>0. req \in Nat /\ req > 0 /\ MaxRate \in Nat /\ req <= MaxRate
  BY MmcAssumption
<1>1. x \in Nat /\ x >= req
  BY <1>0
<1>2. d \in Int /\ r \in Nat /\ r < req /\ x = req * d + r
  BY <1>0, <1>1
<1>3. Divider(req) = d
  BY DEF Divider
<1> HIDE DEF d, r
<1>4. d >= 1
  <2>1. SUFFICES ASSUME d <= 0 PROVE FALSE
    BY <1>2
  <2>2. req * d <= 0
    BY <2>1, <1>0, <1>2
  <2> QED  BY <2>2, <1>0, <1>1, <1>2
<1>5. req * (d - 1) = req * d - req
  BY <1>0, <1>2
<1>6. p \in Int
  BY <1>0, <1>2
<1>7. MaxRate + req - 1 = p + r /\ req * (d - 1) = p - req
  BY <1>2, <1>5
<1> HIDE DEF p
<1>8. MaxRate <= p /\ MaxRate > p - req
  BY <1>0, <1>2, <1>6, <1>7
<1> QED  BY <1>2, <1>3, <1>4, <1>7, <1>8 DEF p

\* The steps of the eMMC's driver and controller keep the invariant of its
\* clock.
LEMMA MmcStepInv == MmcInv /\ stage = "mmc" /\ UNCHANGED <<stage, card>> /\ MmcStep => MmcInv'
<1> SUFFICES ASSUME MmcInv, stage = "mmc", UNCHANGED <<stage, card>>, MmcStep PROVE MmcInv'
  OBVIOUS
<1>0. sdc \in Sdc /\ ios \in Ios
  BY DEF MmcInv
<1>1. CASE Latch
  BY <1>0, <1>1 DEF Latch, MmcInv, Clocked, Sdc, Ios
<1>2. ASSUME NEW req \in Requests, SetIos(req) PROVE MmcInv'
  <2>1. req \in Nat /\ ios.calls + 1 \in Nat
    BY <1>0, MmcAssumption DEF Ios
  <2>2. ios' \in Ios /\ ios'.pc = "stop"
    BY <2>1, <1>0, <1>2 DEF SetIos, Ios
  <2>3. sdc' \in Sdc /\ ~ sdc'.ctl /\ sdc'.busy
    BY <1>0, <1>2 DEF SetIos, Command, Sdc
  <2> QED  BY <2>2, <2>3 DEF MmcInv
<1>3. ASSUME NEW ok \in BOOLEAN, Stopped(ok) PROVE MmcInv'
  BY <1>0, <1>3, MmcAssumption DEF Stopped, MmcInv, Sdc, Ios
<1>4. CASE Configure
  <2> DEFINE m == Divider(ios.req) - 1
  <2>1. ios.pc \in Config
    BY <1>4 DEF Configure, ModuleClock, Phase
  <2>2. ios.req \in MinRate .. MaxRate /\ m \in Int
    BY <2>1, DividerUp DEF MmcInv
  <2>3. ~ sdc.ctl /\ ~ sdc.busy /\ ~ sdc.out /\ ~ sdc.mask
    BY <2>1 DEF MmcInv
  <2>4. CASE Phase
    BY <2>2, <2>3, <2>4, <1>0 DEF Phase, MmcInv, Sdc, Ios
  <2>5. ASSUME NEW from \in Config, NEW to \in Config, NEW on \in BOOLEAN, NEW div \in Int,
               ModuleClock(from, to, on, div),
               to \in {"gate", "phase", "start"} => div = m,
               to = "start" => on, from = "clock" => to = "start", to \in {"enable", "gate", "phase", "start"},
               to = "start" => sdc.phase
        PROVE  MmcInv'
    <3>1. ios' = [ios EXCEPT !.pc = to] /\ sdc' = [sdc EXCEPT !.on = on, !.div = div]
      BY <2>5 DEF ModuleClock
    <3>2. ios' \in Ios /\ ios'.pc = to /\ ios'.req = ios.req
      BY <3>1, <1>0 DEF Ios
    <3>3. sdc' \in Sdc /\ sdc'.on = on /\ sdc'.div = div /\ sdc'.phase = sdc.phase /\ sdc'.ctl = sdc.ctl
          /\ sdc'.busy = sdc.busy /\ sdc'.out = sdc.out /\ sdc'.mask = sdc.mask
      BY <3>1, <1>0 DEF Sdc
    <3>4. Divider(ios.req)' = Divider(ios.req)
      BY <3>2
    <3> QED  BY <3>2, <3>3, <3>4, <2>2, <2>3, <2>5 DEF MmcInv
  <2>6. ios.pc = "clock" => sdc.phase
    BY DEF MmcInv
  <2> HIDE DEF m
  <2>7. \/ ModuleClock("divide", "enable", FALSE, 0) \/ ModuleClock("enable", "gate", TRUE, m)
        \/ ModuleClock("gate", "phase", FALSE, m) \/ Phase
        \/ (ModuleClock("clock", "start", TRUE, m) /\ ios.pc = "clock")
    BY <1>4 DEF Configure, ModuleClock, m
  <2>8. CASE ModuleClock("divide", "enable", FALSE, 0)
    <3>1. ios' = [ios EXCEPT !.pc = "enable"] /\ sdc' = [sdc EXCEPT !.on = FALSE, !.div = 0]
      BY <2>8 DEF ModuleClock
    <3>2. ios' \in Ios /\ ios'.pc = "enable" /\ ios'.req = ios.req
      BY <3>1, <1>0 DEF Ios
    <3>3. sdc' \in Sdc /\ sdc'.ctl = sdc.ctl /\ sdc'.busy = sdc.busy /\ sdc'.out = sdc.out
          /\ sdc'.mask = sdc.mask
      <4>1. ASSUME NEW on \in BOOLEAN, NEW div \in Int, sdc' = [sdc EXCEPT !.on = on, !.div = div]
            PROVE  sdc' \in Sdc /\ sdc'.ctl = sdc.ctl /\ sdc'.busy = sdc.busy /\ sdc'.out = sdc.out
                   /\ sdc'.mask = sdc.mask
        BY <4>1, <1>0 DEF Sdc
      <4>2. FALSE \in BOOLEAN /\ 0 \in Int
        OBVIOUS
      <4> QED  BY <3>1, <4>1, <4>2
    <3> QED  BY <3>2, <3>3, <2>2, <2>3 DEF MmcInv
  <2>9. CASE ModuleClock("enable", "gate", TRUE, m)
    BY <2>2, <2>5, <2>9
  <2>10. CASE ModuleClock("gate", "phase", FALSE, m)
    BY <2>2, <2>5, <2>10
  <2>11. CASE ModuleClock("clock", "start", TRUE, m) /\ ios.pc = "clock"
    BY <2>2, <2>5, <2>6, <2>11
  <2> QED  BY <2>4, <2>7, <2>8, <2>9, <2>10, <2>11
<1>5. CASE Start
  BY <1>0, <1>5 DEF Start, Command, MmcInv, Sdc, Ios
<1>6. CASE Started
  <2> DEFINE d == Divider(ios.req)
  <2>1. /\ ios.req \in MinRate .. MaxRate /\ ios.req # 0
        /\ sdc.div = d - 1 /\ sdc.phase /\ sdc.on /\ sdc.out
    BY <1>6, <1>0, MmcAssumption DEF MmcInv, Started, Ios
  <2>2. d \in Nat \ {0} /\ MaxRate <= ios.req * d /\ (d - 1 = 0 \/ MaxRate > ios.req * (d - 1))
        /\ MaxRate \div d \in Int
    BY <2>1, DividerUp, MmcAssumption
  <2> HIDE DEF d
  <2>3. ios' = [ios EXCEPT !.pc = "idle", !.rate = MaxRate \div d] /\ sdc' = [sdc EXCEPT !.mask = FALSE]
        /\ ~ sdc.busy
    BY <1>6 DEF Started, d
  <2>4. ios' \in Ios /\ ios'.pc = "idle" /\ ios'.req = ios.req /\ ios'.rate = MaxRate \div d
    BY <2>2, <2>3, <1>0 DEF Ios
  <2>5. sdc' \in Sdc /\ sdc'.out /\ sdc'.on /\ sdc'.phase /\ ~ sdc'.mask /\ ~ sdc'.busy /\ sdc'.div = d - 1
    BY <2>1, <2>3, <1>0 DEF Sdc
  <2>6. (d - 1) + 1 = d
    BY <2>2
  <2>7. Clocked(ios.req)'
    BY <2>2, <2>4, <2>5, <2>6 DEF Clocked
  <2> QED  BY <2>1, <2>4, <2>5, <2>7 DEF MmcInv
<1>7. CASE Timeout
  BY <1>0, <1>7 DEF Timeout, MmcInv, Sdc, Ios
<1> QED  BY <1>1, <1>2, <1>3, <1>4, <1>5, <1>6, <1>7 DEF MmcStep

-----------------------------------------------------------------------------
(* The parser's operators. *)

\* The table of contents grows with the number of its entries, and never past
\* a word.
LEMMA OffsetsGrow ==
  ASSUME NEW a \in 0 .. MaxEntries, NEW b \in 0 .. MaxEntries, a <= b
  PROVE  /\ EntryOffset(a) \in Nat /\ EntryOffset(b) \in Nat /\ EntryOffset(a) <= EntryOffset(b)
         /\ EntryOffset(b) < Word - 1
         /\ EntryOffset(a + 1) = EntryOffset(a) + EntrySize
<1>0. HeaderSize \in Nat /\ EntrySize \in Nat /\ EntrySize > 0 /\ MaxEntries \in Nat /\ Word \in Nat
      /\ HeaderSize + (MaxEntries + 1) * EntrySize < Word
  BY GeometryAssumption
<1>1. a \in Nat /\ b \in Nat /\ b <= MaxEntries
  BY <1>0
<1> DEFINE x == a * EntrySize
           y == b * EntrySize
           z == MaxEntries * EntrySize
<1>2. x \in Nat /\ y \in Nat /\ z \in Nat
  BY <1>0, <1>1
<1>3. x <= y /\ y <= z
  BY <1>0, <1>1
<1>4. (a + 1) * EntrySize = x + EntrySize /\ (MaxEntries + 1) * EntrySize = z + EntrySize
  BY <1>0, <1>1
<1> HIDE DEF x, y, z
<1>5. HeaderSize + x \in Nat /\ HeaderSize + y \in Nat /\ HeaderSize + x <= HeaderSize + y
      /\ HeaderSize + y < Word - 1
  BY <1>0, <1>2, <1>3, <1>4
<1>6. HeaderSize + (a + 1) * EntrySize = (HeaderSize + x) + EntrySize
  BY <1>0, <1>2, <1>4
<1> QED  BY <1>5, <1>6 DEF EntryOffset, x, y

\* The fields of an entry of a package are words.
LEMMA EntryTyped ==
  ASSUME NEW im \in Image, NEW i \in 1 .. MaxEntries
  PROVE  /\ EntryAt(im, i) \in Entry
         /\ EntryAt(im, i).offset \in Nat /\ EntryAt(im, i).size \in Nat
         /\ EntryAt(im, i).uuid \in Uuid
<1>1. EntryAt(im, i) \in Entry
  BY DEF EntryAt, Image
<1> QED  BY <1>1, GeometryAssumption DEF Entry, Field

\* An entry inside the buffer does not wrap around, so that the end the parser
\* computes is its end.
LEMMA EndExact ==
  ASSUME NEW e \in Entry, NEW s \in Int, s <= MaxSize, InBuffer(e, s)
  PROVE  /\ EndOf(e) = e.offset + e.size /\ e.size > 0 /\ e.offset + e.size <= s
         /\ e.offset \in Nat /\ e.size \in Nat
<1>1. e.offset \in Nat /\ e.size \in Nat /\ Word \in Nat /\ MaxSize < Word /\ MaxSize \in Nat
  BY GeometryAssumption DEF Entry, Field
<1>2. e.offset + e.size <= s /\ e.size > 0
  BY <1>1 DEF InBuffer
<1>3. e.offset + e.size \in 0 .. Word - 1
  BY <1>1, <1>2
<1> QED  BY <1>1, <1>2, <1>3 DEF EndOf

\* One more entry that passes the parser's tests.
LEMMA ScanOne ==
  ASSUME NEW im \in Image, NEW s \in Int, NEW m, NEW f, NEW lay, NEW lo \in Int, NEW hi \in Int,
         Scanned(im, s, m, f, lay, lo, hi), m < MaxEntries,
         EntryAt(im, m + 1).uuid # "null", ~ UuidSeen(im, EntryAt(im, m + 1), m),
         InBuffer(EntryAt(im, m + 1), s), ~ OverlapsPrevious(im, EntryAt(im, m + 1), m),
         NEW f2, NEW lay2, NEW lo2, NEW hi2,
         lo2 = IF EntryAt(im, m + 1).offset < lo THEN EntryAt(im, m + 1).offset ELSE lo,
         hi2 = IF EndOf(EntryAt(im, m + 1)) > hi THEN EndOf(EntryAt(im, m + 1)) ELSE hi,
         f2 = f \cup ({EntryAt(im, m + 1).uuid} \cap Kind),
         lay2 = [k \in Kind |->
                   IF EntryAt(im, m + 1).uuid = k
                     THEN [offset |-> EntryAt(im, m + 1).offset, size |-> EntryAt(im, m + 1).size]
                     ELSE lay[k]]
  PROVE  Scanned(im, s, m + 1, f2, lay2, lo2, hi2)
<1> DEFINE e(i) == EntryAt(im, i)
<1>0. m \in Nat /\ MaxEntries \in Nat /\ m \in 0 .. MaxEntries /\ HeaderOK(im, s) /\ s <= MaxSize
  BY GeometryAssumption DEF Scanned, HeaderOK
<1>1. m + 1 \in 1 .. MaxEntries /\ m + 1 \in 0 .. MaxEntries
      /\ (\A i \in 1 .. m : i \in 1 .. MaxEntries /\ i # m + 1)
      /\ (\A i \in 1 .. m + 1 : i \in 1 .. m \/ i = m + 1)
      /\ (\A i \in 1 .. m : i \in 1 .. m + 1) /\ m + 1 \in 1 .. m + 1
  BY <1>0
<1>2. \A i \in 1 .. m : e(i).uuid # "null" /\ InBuffer(e(i), s)
  BY DEF Scanned, Entries
<1>3. \A i \in 1 .. m + 1 : e(i) \in Entry /\ InBuffer(e(i), s) /\ e(i).uuid # "null"
  BY <1>1, <1>2, EntryTyped
<1>4. \A i \in 1 .. m + 1 : EndOf(e(i)) = e(i).offset + e(i).size /\ e(i).size > 0
                            /\ e(i).offset \in Nat /\ e(i).size \in Nat
  BY <1>0, <1>3, EndExact
<1>5. \A i \in 1 .. m : e(i).uuid # e(m + 1).uuid /\ Apart(e(i), e(m + 1)) /\ Apart(e(m + 1), e(i))
  <2> SUFFICES ASSUME NEW i \in 1 .. m
               PROVE  e(i).uuid # e(m + 1).uuid /\ Apart(e(i), e(m + 1)) /\ Apart(e(m + 1), e(i))
    OBVIOUS
  <2>1. e(i).uuid # e(m + 1).uuid
    BY DEF UuidSeen
  <2>2. ~ (e(m + 1).offset < EndOf(e(i)) /\ e(i).offset < EndOf(e(m + 1)))
    BY DEF OverlapsPrevious
  <2>3. i \in 1 .. m + 1 /\ m + 1 \in 1 .. m + 1
    BY <1>1
  <2> QED  BY <2>1, <2>2, <2>3, <1>4 DEF Apart
<1>6. Entries(im, s, m + 1)
  <2>1. \A i, j \in 1 .. m : i # j => e(i).uuid # e(j).uuid /\ Apart(e(i), e(j))
    BY DEF Scanned, Entries
  <2>2. \A i, j \in 1 .. m + 1 : i # j => e(i).uuid # e(j).uuid /\ Apart(e(i), e(j))
    BY <2>1, <1>1, <1>5
  <2> QED  BY <2>2, <1>3 DEF Entries
<1>7. Hull(im, m + 1, lo2, hi2)
  <2>0. Hull(im, m, lo, hi)
    BY DEF Scanned
  <2>1. lo2 \in Int /\ hi2 \in Int /\ lo2 <= lo /\ lo2 <= e(m + 1).offset
        /\ hi <= hi2 /\ e(m + 1).offset + e(m + 1).size <= hi2
    BY <1>1, <1>4
  <2>2. \A i \in 1 .. m + 1 : lo2 <= e(i).offset /\ e(i).offset + e(i).size <= hi2
    <3> SUFFICES ASSUME NEW i \in 1 .. m + 1
                 PROVE  lo2 <= e(i).offset /\ e(i).offset + e(i).size <= hi2
      OBVIOUS
    <3>0. e(i).offset \in Nat /\ e(i).size \in Nat
      BY <1>4
    <3>1. CASE i = m + 1
      BY <3>1, <2>1
    <3>2. CASE i \in 1 .. m
      <4>1. lo <= e(i).offset /\ e(i).offset + e(i).size <= hi
        BY <3>2, <2>0 DEF Hull
      <4> QED  BY <4>1, <3>0, <2>1
    <3> QED  BY <3>1, <3>2, <1>1
  <2>3. lo2 = Word - 1 \/ \E i \in 1 .. m + 1 : lo2 = e(i).offset
    BY <2>0, <1>1 DEF Hull
  <2>4. hi2 = 0 \/ \E i \in 1 .. m + 1 : hi2 = e(i).offset + e(i).size
    BY <2>0, <1>1, <1>4 DEF Hull
  <2> QED  BY <2>2, <2>3, <2>4 DEF Hull
<1>8. Table(im, m + 1, f2, lay2)
  <2>0. Table(im, m, f, lay)
    BY DEF Scanned
  <2>1. \A k \in Kind : Holds(im, m + 1, k) <=> Holds(im, m, k) \/ e(m + 1).uuid = k
    BY <1>1 DEF Holds
  <2>2. f2 = {k \in Kind : Holds(im, m + 1, k)}
    BY <2>0, <2>1 DEF Table
  <2>3. \A k \in Kind \ f2 : lay2[k] = None
    BY <2>0 DEF Table
  <2>4. \A i \in 1 .. m + 1 : e(i).uuid \in Kind =>
          lay2[e(i).uuid] = [offset |-> e(i).offset, size |-> e(i).size]
    <3> SUFFICES ASSUME NEW i \in 1 .. m + 1, e(i).uuid \in Kind
                 PROVE  lay2[e(i).uuid] = [offset |-> e(i).offset, size |-> e(i).size]
      OBVIOUS
    <3>1. CASE i = m + 1
      BY <3>1
    <3>2. CASE i \in 1 .. m
      <4>1. lay[e(i).uuid] = [offset |-> e(i).offset, size |-> e(i).size]
        BY <3>2, <2>0 DEF Table
      <4>2. e(i).uuid # e(m + 1).uuid
        BY <3>2, <1>5
      <4> QED  BY <4>1, <4>2
    <3> QED  BY <3>1, <3>2, <1>1
  <2>5. lay2 = [k \in Kind |-> lay2[k]]
    OBVIOUS
  <2> QED  BY <2>2, <2>3, <2>4, <2>5 DEF Table
<1> QED  BY <1>0, <1>1, <1>6, <1>7, <1>8 DEF Scanned

\* Behind entries the parser has accepted, a terminator it accepts is exactly
\* the end of a well-formed table, and the places it has noted are those of
\* the images.
LEMMA ScanEnd ==
  ASSUME NEW im \in Image, NEW s \in Int, NEW m, NEW f, NEW lay, NEW lo \in Int, NEW hi \in Int,
         Scanned(im, s, m, f, lay, lo, hi), m < MaxEntries, EntryAt(im, m + 1).uuid = "null"
  PROVE  WellFormedAt(im, s, m) <=>
           /\ EntryAt(im, m + 1).size = 0 /\ EntryAt(im, m + 1).flags = 0
           /\ EntryAt(im, m + 1).offset <= s /\ EntryAt(im, m + 1).offset >= EntryOffset(m + 1)
           /\ lo >= EntryOffset(m + 1) /\ hi <= EntryAt(im, m + 1).offset
           /\ Required \subseteq f /\ Loadable(im, f, lay)
<1> DEFINE e(i) == EntryAt(im, i)
           last == e(m + 1)
<1>0. m \in Nat /\ MaxEntries \in Nat /\ m \in 0 .. MaxEntries /\ HeaderOK(im, s) /\ s <= MaxSize
      /\ Entries(im, s, m) /\ Hull(im, m, lo, hi) /\ Table(im, m, f, lay)
  BY GeometryAssumption DEF Scanned, HeaderOK
<1>1. m + 1 \in 1 .. MaxEntries /\ m + 1 \in 0 .. MaxEntries /\ (\A i \in 1 .. m : i \in 1 .. MaxEntries)
  BY <1>0
<1>2. \A i \in 1 .. m : /\ e(i).uuid # "null" /\ e(i).size > 0 /\ e(i).offset + e(i).size <= s
                        /\ e(i).offset \in Nat /\ e(i).size \in Nat
  <2> SUFFICES ASSUME NEW i \in 1 .. m
               PROVE  /\ e(i).uuid # "null" /\ e(i).size > 0 /\ e(i).offset + e(i).size <= s
                      /\ e(i).offset \in Nat /\ e(i).size \in Nat
    OBVIOUS
  <2>1. e(i) \in Entry /\ e(i).uuid # "null" /\ InBuffer(e(i), s)
    BY <1>0, <1>1, EntryTyped DEF Entries
  <2> QED  BY <2>1, <1>0, EndExact
<1>3. last.offset \in Nat /\ last.size \in Nat /\ EntryOffset(m + 1) \in Nat /\ EntryOffset(m + 1) < Word - 1
  BY <1>1, EntryTyped, OffsetsGrow
<1>4. f = {k \in Kind : Holds(im, m, k)}
  BY <1>0 DEF Table
<1>5. lay = [k \in Kind |-> Place(im, m, k)]
  <2>1. ASSUME NEW k \in Kind PROVE lay[k] = Place(im, m, k)
    <3>1. CASE Holds(im, m, k)
      <4> DEFINE c == CHOOSE j \in 1 .. m : EntryAt(im, j).uuid = k
      <4>1. c \in 1 .. m /\ EntryAt(im, c).uuid = k
        BY <3>1 DEF Holds
      <4>2. Place(im, m, k) = [offset |-> EntryAt(im, c).offset, size |-> EntryAt(im, c).size]
        BY <3>1 DEF Place
      <4> HIDE DEF c
      <4> QED  BY <4>1, <4>2, <1>0 DEF Table
    <3>2. CASE ~ Holds(im, m, k)
      BY <3>2, <1>0 DEF Table, Place
    <3> QED  BY <3>1, <3>2
  <2>2. lay = [k \in Kind |-> lay[k]]
    BY <1>0 DEF Table
  <2>3. [k \in Kind |-> lay[k]] = [k \in Kind |-> Place(im, m, k)]
    BY <2>1
  <2> QED  BY <2>2, <2>3
<1>6. (\A k \in Required : Holds(im, m, k)) <=> Required \subseteq f
  BY <1>4 DEF Required, Kind
<1>7. lo >= EntryOffset(m + 1) <=> \A i \in 1 .. m : EntryOffset(m + 1) <= e(i).offset
  <2>1. ASSUME lo >= EntryOffset(m + 1), NEW i \in 1 .. m PROVE EntryOffset(m + 1) <= e(i).offset
    <3>1. lo <= e(i).offset /\ e(i).offset \in Nat
      BY <1>0, <1>2 DEF Hull
    <3> QED  BY <2>1, <3>1, <1>3
  <2>2. ASSUME \A i \in 1 .. m : EntryOffset(m + 1) <= e(i).offset PROVE lo >= EntryOffset(m + 1)
    <3>1. CASE lo = Word - 1
      BY <3>1, <1>3, GeometryAssumption
    <3>2. ASSUME NEW i \in 1 .. m, lo = e(i).offset PROVE lo >= EntryOffset(m + 1)
      BY <2>2, <3>2, <1>2, <1>3
    <3> QED  BY <3>1, <3>2, <1>0 DEF Hull
  <2> QED  BY <2>1, <2>2
<1>8. hi <= last.offset <=> \A i \in 1 .. m : e(i).offset + e(i).size <= last.offset
  <2>1. ASSUME hi <= last.offset, NEW i \in 1 .. m PROVE e(i).offset + e(i).size <= last.offset
    <3>1. e(i).offset + e(i).size <= hi /\ e(i).offset \in Nat /\ e(i).size \in Nat
      BY <1>0, <1>2 DEF Hull
    <3> QED  BY <2>1, <3>1, <1>3
  <2>2. ASSUME \A i \in 1 .. m : e(i).offset + e(i).size <= last.offset PROVE hi <= last.offset
    BY <2>2, <1>0, <1>3 DEF Hull
  <2> QED  BY <2>1, <2>2
<1>9. \A i, j \in 1 .. m : i # j =>
        /\ e(i).uuid # e(j).uuid
        /\ e(i).offset + e(i).size <= e(j).offset \/ e(j).offset + e(j).size <= e(i).offset
  BY <1>0 DEF Entries, Apart
<1>10. WellFormedAt(im, s, m) <=>
         /\ EntryOffset(m + 1) <= last.offset /\ last.offset <= s /\ last.size = 0 /\ last.flags = 0
         /\ \A i \in 1 .. m : EntryOffset(m + 1) <= e(i).offset
         /\ \A i \in 1 .. m : e(i).offset + e(i).size <= last.offset
         /\ \A k \in Required : Holds(im, m, k)
         /\ Loadable(im, f, lay)
  BY <1>2, <1>4, <1>5, <1>9 DEF WellFormedAt
<1> QED  BY <1>3, <1>6, <1>7, <1>8, <1>10

\* Entries the parser has accepted are before the end of any well-formed table.
LEMMA ScanFirst ==
  ASSUME NEW im, NEW s, NEW m \in 0 .. MaxEntries, NEW t \in 0 .. MaxEntries - 1,
         Entries(im, s, m), WellFormedAt(im, s, t)
  PROVE  /\ m <= t /\ t \in Nat /\ m \in Nat /\ m < MaxEntries /\ MaxEntries \in Nat
         /\ EntryAt(im, m + 1).uuid = "null" => m = t
<1>0. MaxEntries \in Nat /\ m \in Nat /\ t \in Nat /\ t < MaxEntries
  BY GeometryAssumption
<1>1. EntryAt(im, t + 1).uuid = "null" /\ \A i \in 1 .. t : EntryAt(im, i).uuid # "null"
  BY DEF WellFormedAt
<1>2. \A i \in 1 .. m : EntryAt(im, i).uuid # "null"
  BY DEF Entries
<1>3. ~ (t + 1 \in 1 .. m)
  BY <1>1, <1>2
<1>4. m <= t
  BY <1>0, <1>3
<1>5. EntryAt(im, m + 1).uuid = "null" => ~ (m + 1 \in 1 .. t)
  BY <1>1
<1> QED  BY <1>0, <1>4, <1>5

\* A table that ends before its terminator, or that holds an entry the parser
\* refuses, is not well-formed wherever its terminator may be.
LEMMA ScanRefuses ==
  ASSUME NEW im \in Image, NEW s \in Int, NEW m, NEW f, NEW lay, NEW lo, NEW hi,
         Scanned(im, s, m, f, lay, lo, hi),
         \/ m = MaxEntries \/ EntryOffset(m) > s \/ s - EntryOffset(m) < EntrySize
         \/ /\ EntryAt(im, m + 1).uuid # "null"
            /\ \/ UuidSeen(im, EntryAt(im, m + 1), m) \/ ~ InBuffer(EntryAt(im, m + 1), s)
               \/ OverlapsPrevious(im, EntryAt(im, m + 1), m)
  PROVE  ~ WellFormed(im, s)
<1> SUFFICES ASSUME NEW t \in 0 .. MaxEntries - 1, WellFormedAt(im, s, t) PROVE FALSE
  BY DEF WellFormed
<1> DEFINE e(i) == EntryAt(im, i)
           last == e(t + 1)
<1>0. m \in 0 .. MaxEntries /\ Entries(im, s, m) /\ s <= MaxSize
  BY DEF Scanned, HeaderOK
<1>1. m <= t /\ t \in Nat /\ m \in Nat /\ m < MaxEntries /\ MaxEntries \in Nat
  BY <1>0, ScanFirst
<1>2. t + 1 \in 0 .. MaxEntries /\ t + 1 \in 1 .. MaxEntries /\ m + 1 \in 0 .. MaxEntries /\ m + 1 <= t + 1
  BY <1>1
<1>3. EntryOffset(m) \in Nat /\ EntryOffset(t + 1) \in Nat
      /\ EntryOffset(m) + EntrySize <= EntryOffset(t + 1) /\ EntrySize \in Nat
  BY <1>0, <1>2, OffsetsGrow, GeometryAssumption
<1>4. last.offset \in Nat /\ EntryOffset(t + 1) <= last.offset /\ last.offset <= s
  BY <1>2, EntryTyped DEF WellFormedAt
<1>5. EntryOffset(m) + EntrySize <= s
  BY <1>3, <1>4
<1>6. /\ e(m + 1).uuid # "null"
      /\ UuidSeen(im, e(m + 1), m) \/ ~ InBuffer(e(m + 1), s) \/ OverlapsPrevious(im, e(m + 1), m)
  BY <1>1, <1>3, <1>5
<1>7. m # t
  BY <1>6 DEF WellFormedAt
<1>8. m + 1 \in 1 .. t /\ (\A i \in 1 .. m : i \in 1 .. t /\ i # m + 1)
  BY <1>1, <1>7
<1>9. \A i \in 1 .. t : /\ e(i).size > 0 /\ e(i).offset + e(i).size <= last.offset
                        /\ e(i) \in Entry /\ e(i).offset \in Nat /\ e(i).size \in Nat
  BY <1>1, EntryTyped DEF WellFormedAt
<1>10. \A i \in 1 .. t : InBuffer(e(i), s)
  BY <1>9, <1>4 DEF InBuffer
<1>11. \A i \in 1 .. t : EndOf(e(i)) = e(i).offset + e(i).size
  BY <1>0, <1>9, <1>10, EndExact
<1>12. PICK i \in 1 .. m : \/ e(i).uuid = e(m + 1).uuid
                           \/ e(m + 1).offset < EndOf(e(i)) /\ e(i).offset < EndOf(e(m + 1))
  BY <1>6, <1>8, <1>10 DEF UuidSeen, OverlapsPrevious
<1>13. i \in 1 .. t /\ i # m + 1
  BY <1>8
<1>14. /\ e(i).uuid # e(m + 1).uuid
       /\ e(i).offset + e(i).size <= e(m + 1).offset \/ e(m + 1).offset + e(m + 1).size <= e(i).offset
  BY <1>8, <1>13 DEF WellFormedAt
<1> QED  BY <1>8, <1>9, <1>11, <1>12, <1>13, <1>14

\* Nor is one whose first terminator the parser refuses.
LEMMA ScanRefusesEnd ==
  ASSUME NEW im, NEW s, NEW m, NEW f, NEW lay, NEW lo, NEW hi,
         Scanned(im, s, m, f, lay, lo, hi), EntryAt(im, m + 1).uuid = "null",
         ~ WellFormedAt(im, s, m)
  PROVE  ~ WellFormed(im, s)
<1> SUFFICES ASSUME NEW t \in 0 .. MaxEntries - 1, WellFormedAt(im, s, t) PROVE FALSE
  BY DEF WellFormed
<1>1. m \in 0 .. MaxEntries /\ Entries(im, s, m)
  BY DEF Scanned
<1> QED  BY <1>1, ScanFirst

\* Before the first entry nothing is found.
LEMMA ScanStart ==
  ASSUME NEW im, NEW s, HeaderOK(im, s)
  PROVE  Scanned(im, s, 0, {}, [k \in Kind |-> None], Word - 1, 0)
<1>1. 0 \in 0 .. MaxEntries /\ 1 .. 0 = {}
  BY GeometryAssumption
<1>2. Entries(im, s, 0)
  BY <1>1 DEF Entries
<1>3. Hull(im, 0, Word - 1, 0)
  BY <1>1 DEF Hull
<1>4. Table(im, 0, {}, [k \in Kind |-> None])
  BY <1>1 DEF Table, Holds
<1> QED  BY <1>1, <1>2, <1>3, <1>4 DEF Scanned

\* An accepted layout is one the copy loops can rely on.
LEMMA ScanSafe ==
  ASSUME NEW im \in Image, NEW s \in Int, NEW m, NEW f, NEW lay, NEW lo, NEW hi,
         Scanned(im, s, m, f, lay, lo, hi), m < MaxEntries, WellFormedAt(im, s, m)
  PROVE  /\ Required \subseteq f /\ (\A k \in Kind \ f : lay[k] = None)
         /\ \A k \in f : /\ lay[k].size \in 1 .. Limit[k] /\ lay[k].offset >= EntryOffset(m + 1)
                         /\ lay[k].offset + lay[k].size <= s
         /\ \A k, l \in f :
              k # l => \/ lay[k].offset + lay[k].size <= lay[l].offset
                       \/ lay[l].offset + lay[l].size <= lay[k].offset
         /\ WellFormed(im, s)
<1> DEFINE e(i) == EntryAt(im, i)
           last == e(m + 1)
<1>0. m \in Nat /\ MaxEntries \in Nat /\ m \in 0 .. MaxEntries - 1 /\ HeaderOK(im, s)
      /\ Entries(im, s, m) /\ Table(im, m, f, lay)
  BY GeometryAssumption DEF Scanned
<1>1. m + 1 \in 1 .. MaxEntries /\ (\A i \in 1 .. m : i \in 1 .. MaxEntries)
  BY <1>0
<1>2. Required \subseteq f /\ (\A k \in Kind \ f : lay[k] = None) /\ f = {k \in Kind : Holds(im, m, k)}
  BY <1>0 DEF Table, WellFormedAt, Required, Kind
<1>3. \A k \in f : \E i \in 1 .. m : e(i).uuid = k /\ lay[k] = [offset |-> e(i).offset, size |-> e(i).size]
  BY <1>0, <1>2, ZenonT(30) DEF Table, Holds
<1>4. \A i \in 1 .. m : /\ e(i).size > 0 /\ e(i).offset + e(i).size <= s
                        /\ EntryOffset(m + 1) <= e(i).offset
                        /\ e(i).offset \in Nat /\ e(i).size \in Nat
  <2>1. \A i \in 1 .. m : /\ e(i).size > 0 /\ e(i).offset + e(i).size <= last.offset
                          /\ EntryOffset(m + 1) <= e(i).offset
    BY DEF WellFormedAt
  <2>2. last.offset <= s /\ last.offset \in Nat
    BY <1>1, EntryTyped DEF WellFormedAt
  <2>3. \A i \in 1 .. m : e(i).offset \in Nat /\ e(i).size \in Nat
    BY <1>1, EntryTyped
  <2> QED  BY <2>1, <2>2, <2>3
<1>5. \A i, j \in 1 .. m : i # j => Apart(e(i), e(j))
  BY <1>0 DEF Entries
<1>6. \A k \in f : Place(im, m, k).size <= Limit[k]
  BY <1>2 DEF WellFormedAt, Loadable
<1>7. ASSUME NEW k \in f PROVE lay[k].size <= Limit[k]
  <2>1. Holds(im, m, k) /\ k \in Kind
    BY <1>2
  <2> DEFINE c == CHOOSE j \in 1 .. m : EntryAt(im, j).uuid = k
  <2>2. c \in 1 .. m /\ EntryAt(im, c).uuid = k
    BY <2>1 DEF Holds
  <2>3. Place(im, m, k) = [offset |-> EntryAt(im, c).offset, size |-> EntryAt(im, c).size]
    BY <2>1 DEF Place
  <2> HIDE DEF c
  <2>4. lay[k] = Place(im, m, k)
    BY <2>1, <2>2, <2>3, <1>0 DEF Table
  <2> QED  BY <2>4, <1>6
<1>8. \A k \in f : /\ lay[k].size \in 1 .. Limit[k] /\ lay[k].offset >= EntryOffset(m + 1)
                   /\ lay[k].offset + lay[k].size <= s
  <2> SUFFICES ASSUME NEW k \in f
               PROVE  /\ lay[k].size \in 1 .. Limit[k] /\ lay[k].offset >= EntryOffset(m + 1)
                      /\ lay[k].offset + lay[k].size <= s
    OBVIOUS
  <2>1. PICK i \in 1 .. m : e(i).uuid = k /\ lay[k] = [offset |-> e(i).offset, size |-> e(i).size]
    BY <1>3
  <2>2. lay[k].size = e(i).size /\ lay[k].offset = e(i).offset /\ Limit[k] \in Nat /\ EntryOffset(m + 1) \in Nat
    BY <2>1, <1>1, <1>2, OffsetsGrow, GeometryAssumption
  <2> QED  BY <2>2, <1>4, <1>7
<1>9. \A k, l \in f : k # l => \/ lay[k].offset + lay[k].size <= lay[l].offset
                               \/ lay[l].offset + lay[l].size <= lay[k].offset
  <2> SUFFICES ASSUME NEW k \in f, NEW l \in f, k # l
               PROVE  \/ lay[k].offset + lay[k].size <= lay[l].offset
                      \/ lay[l].offset + lay[l].size <= lay[k].offset
    OBVIOUS
  <2>1. PICK i \in 1 .. m : e(i).uuid = k /\ lay[k] = [offset |-> e(i).offset, size |-> e(i).size]
    BY <1>3
  <2>2. PICK j \in 1 .. m : e(j).uuid = l /\ lay[l] = [offset |-> e(j).offset, size |-> e(j).size]
    BY <1>3
  <2>3. Apart(e(i), e(j))
    BY <2>1, <2>2, <1>5
  <2> QED  BY <2>1, <2>2, <2>3 DEF Apart
<1>10. WellFormed(im, s)
  BY <1>0 DEF WellFormed, HeaderOK
<1> QED  BY <1>2, <1>8, <1>9, <1>10

\* get_fip_size_from_toc returns a number of bytes: a table with a terminator
\* has a first one.
LEMMA DeclaredTyped == ASSUME NEW im \in Image PROVE DeclaredSize(im, Capacity) \in Nat
<1> DEFINE T == {i \in 1 .. MaxEntries : EntryAt(im, i).uuid = "null"}
           first(i) == /\ EntryAt(im, i).uuid = "null"
                       /\ \A j \in 1 .. i - 1 : EntryAt(im, j).uuid # "null"
           m == CHOOSE i \in 1 .. MaxEntries : first(i)
<1>0. MaxEntries \in Nat
  BY GeometryAssumption
<1>1. CASE ~ im.magic \/ T = {}
  <2>1. ~ im.magic \/ \A i \in 1 .. MaxEntries : EntryAt(im, i).uuid # "null"
    BY <1>1
  <2> QED  BY <2>1 DEF DeclaredSize
<1>2. CASE im.magic /\ T # {}
  <2>1. T \subseteq Nat
    BY <1>0
  <2>2. PICK i \in T : \A j \in T : ~ (<<j, i>> \in OpToRel(<, Nat))
    BY <1>2, <2>1, NatLessThanWellFounded, WFMin
  <2>3. \A j \in T : ~ (j < i)
    BY <2>1, <2>2 DEF OpToRel
  <2>4. i \in 1 .. MaxEntries /\ first(i)
    <3>1. ASSUME NEW j \in 1 .. i - 1 PROVE EntryAt(im, j).uuid # "null"
      <4>1. j \in 1 .. MaxEntries /\ j < i
        BY <1>0
      <4> QED  BY <4>1, <2>3
    <3> QED  BY <3>1
  <2>5. m \in 1 .. MaxEntries
    <3>1. \E k \in 1 .. MaxEntries : first(k)
      BY <2>4
    <3> QED  BY <3>1
  <2>6. EntryAt(im, m).offset \in Nat
    BY <2>5, EntryTyped
  <2>7. DeclaredSize(im, Capacity) \in {0, EntryAt(im, m).offset}
    BY DEF DeclaredSize
  <2> QED  BY <2>6, <2>7
<1> QED  BY <1>1, <1>2

\* No two windows of DRAM share a page.
LEMMA WindowsDisjoint == \A r, q \in Region : r # q => ~ Meet(r, q)
BY DEF Region, Meet, Base, Pages

\* So a write to one of them leaves the others as they were.
LEMMA WriteOne ==
  ASSUME NEW r \in Region, NEW c, mem \in [Region -> Cell]
  PROVE  /\ Write(r, c)[r] = c /\ \A q \in Region \ {r} : Write(r, c)[q] = mem[q]
         /\ c \in Cell => Write(r, c) \in [Region -> Cell]
<1>1. Write(r, c) = [q \in Region |-> IF q = r THEN c ELSE mem[q]]
  BY WindowsDisjoint DEF Write
<1> QED  BY <1>1

\* The parser's copies of the operators on packages are these operators.
LEMMA ParserOps ==
  /\ Parser!Kind = Kind /\ Parser!Required = Required /\ Parser!None = None
  /\ \A i : Parser!EntryOffset(i) = EntryOffset(i)
  /\ \A im, i : Parser!EntryAt(im, i) = EntryAt(im, i)
  /\ \A e : Parser!EndOf(e) = EndOf(e)
  /\ \A e, s : Parser!InBuffer(e, s) = InBuffer(e, s)
  /\ \A im, e, m : Parser!UuidSeen(im, e, m) = UuidSeen(im, e, m)
  /\ \A im, e, m : Parser!OverlapsPrevious(im, e, m) = OverlapsPrevious(im, e, m)
  /\ \A im, f, lay : Parser!Loadable(im, f, lay) = Loadable(im, f, lay)
  /\ \A im, s : Parser!WellFormed(im, s) = WellFormed(im, s)
<1>1. Parser!Kind = Kind /\ Parser!Required = Required /\ Parser!None = None
  BY DEF Parser!Kind, Kind, Parser!Required, Required, Parser!None, None
<1>2. /\ \A i : Parser!EntryOffset(i) = EntryOffset(i)
      /\ \A im, i : Parser!EntryAt(im, i) = EntryAt(im, i)
      /\ \A e : Parser!EndOf(e) = EndOf(e)
      /\ \A e, s : Parser!InBuffer(e, s) = InBuffer(e, s)
  BY DEF Parser!EntryOffset, EntryOffset, Parser!EntryAt, EntryAt, Parser!EndOf, EndOf,
         Parser!InBuffer, InBuffer
<1>3. \A im, e, m : Parser!UuidSeen(im, e, m) = UuidSeen(im, e, m)
  BY <1>2 DEF Parser!UuidSeen, UuidSeen
<1>4. \A im, e, m : Parser!OverlapsPrevious(im, e, m) = OverlapsPrevious(im, e, m)
  BY <1>2 DEF Parser!OverlapsPrevious, OverlapsPrevious
<1>5. \A im, f, lay : Parser!Loadable(im, f, lay) = Loadable(im, f, lay)
  BY <1>1 DEF Parser!Loadable, Loadable, Parser!PayloadValid, PayloadValid
<1>6. \A im, m, k : Parser!Place(im, m, k) = Place(im, m, k) /\ Parser!Holds(im, m, k) = Holds(im, m, k)
  BY DEF Parser!Place, Place, Parser!Holds, Holds, Parser!EntryAt, EntryAt, Parser!None, None
<1>7. \A im, s, m : Parser!WellFormedAt(im, s, m) = WellFormedAt(im, s, m)
  BY <1>1, <1>2, <1>5, <1>6 DEF Parser!WellFormedAt, WellFormedAt
<1>8. \A im, s : Parser!WellFormed(im, s) = WellFormed(im, s)
  BY <1>7 DEF Parser!WellFormed, WellFormed
<1> QED  BY <1>1, <1>2, <1>3, <1>4, <1>5, <1>8

\* The steps of the parser keep what it knows of the package.
LEMMA ParseStepInv ==
  ParseInv /\ stage = "parse" /\ Package \in Image /\ declared \in Int
    /\ UNCHANGED <<stage, mem, declared>> /\ Parser!Step => ParseInv'
<1> SUFFICES ASSUME ParseInv, stage = "parse", Package \in Image, declared \in Int,
                    UNCHANGED <<stage, mem, declared>>, Parser!Step
             PROVE  ParseInv'
  OBVIOUS
<1> DEFINE im == Package
           e == EntryAt(Package, n + 1)
<1>0. Package' = Package /\ declared' = declared /\ stage' = "parse" /\ Package = mem["staging"].pkg
  BY DEF Package
<1>1. CASE Parser!Header
  <2>1. HeaderOK(Package, declared) /\ Fresh /\ pc' = "loop"
        /\ UNCHANGED <<n, found, layout, pstart, pend>>
    BY <1>0, <1>1 DEF Parser!Header, HeaderOK, ParseInv
  <2>2. Scanned(Package, declared, n, found, layout, pstart, pend)
    BY <2>1, ScanStart DEF Fresh
  <2> QED  BY <2>1, <2>2, <1>0 DEF ParseInv
<1>2. CASE Parser!HeaderBad
  <2>1. ~ WellFormed(Package, declared)
    BY <1>0, <1>2, GeometryAssumption DEF Parser!HeaderBad, WellFormed
  <2> QED  BY <2>1, <1>0, <1>2 DEF Parser!HeaderBad, Parser!Fail, ParseInv
<1>3. CASE Parser!NoEntry
  <2>1. Scanned(Package, declared, n, found, layout, pstart, pend)
    BY <1>3 DEF Parser!NoEntry, ParseInv
  <2>2. ~ WellFormed(Package, declared)
    BY <2>1, <1>0, <1>3, ScanRefuses, ParserOps DEF Parser!NoEntry
  <2> QED  BY <2>2, <1>0, <1>3 DEF Parser!NoEntry, Parser!Fail, ParseInv
<1>4. CASE Parser!EntryBad
  <2>1. Scanned(Package, declared, n, found, layout, pstart, pend)
    BY <1>4 DEF Parser!EntryBad, Parser!HaveEntry, ParseInv
  <2>2. ~ WellFormed(Package, declared)
    BY <2>1, <1>0, <1>4, ScanRefuses, ParserOps DEF Parser!EntryBad, Parser!EntryOK
  <2> QED  BY <2>2, <1>0, <1>4 DEF Parser!EntryBad, Parser!Fail, ParseInv
<1>5. CASE Parser!Terminator
  <2>1. Scanned(Package, declared, n, found, layout, pstart, pend) /\ n < MaxEntries
        /\ pstart \in Int /\ pend \in Int /\ e.uuid = "null"
    BY <1>0, <1>5, ParserOps DEF Parser!Terminator, Parser!HaveEntry, ParseInv
  <2>2. WellFormedAt(Package, declared, n) <=> Parser!TerminatorOK(e)
    BY <2>1, <1>0, ScanEnd, ParserOps DEF Parser!TerminatorOK
  <2>3. pc' = (IF Parser!TerminatorOK(e) THEN "ok" ELSE "fail")
        /\ UNCHANGED <<n, found, layout, pstart, pend>>
    BY <1>0, <1>5, ParserOps DEF Parser!Terminator
  <2>4. CASE WellFormedAt(Package, declared, n)
    BY <2>1, <2>2, <2>3, <2>4, <1>0 DEF ParseInv
  <2>5. CASE ~ WellFormedAt(Package, declared, n)
    <3>1. ~ WellFormed(Package, declared)
      BY <2>1, <2>5, ScanRefusesEnd
    <3> QED  BY <2>1, <2>2, <2>3, <2>5, <3>1, <1>0 DEF ParseInv
  <2> QED  BY <2>4, <2>5
<1>6. CASE Parser!Accept
  <2>1. Scanned(Package, declared, n, found, layout, pstart, pend) /\ n < MaxEntries
        /\ pstart \in Int /\ pend \in Int /\ pc = "loop"
    BY <1>6 DEF Parser!Accept, Parser!HaveEntry, ParseInv
  <2>2. /\ e.uuid # "null" /\ ~ UuidSeen(Package, e, n) /\ InBuffer(e, declared)
        /\ ~ OverlapsPrevious(Package, e, n)
        /\ pstart' = IF e.offset < pstart THEN e.offset ELSE pstart
    BY <1>0, <1>6, ParserOps DEF Parser!Accept, Parser!EntryOK
  <2>3. /\ pend' = IF EndOf(e) > pend THEN EndOf(e) ELSE pend
    BY <1>0, <1>6, ParserOps DEF Parser!Accept
  <2>4. /\ found' = found \cup ({e.uuid} \cap Kind)
        /\ layout' = [k \in Kind |-> IF e.uuid = k THEN [offset |-> e.offset, size |-> e.size]
                                                   ELSE layout[k]]
        /\ n' = n + 1 /\ pc' = pc
    BY <1>0, <1>6, ParserOps DEF Parser!Accept
  <2>5. Scanned(Package, declared, n + 1, found', layout', pstart', pend')
    BY <2>1, <2>2, <2>3, <2>4, ScanOne
  <2>6. pstart' \in Int /\ pend' \in Int
    <3>1. n + 1 \in 1 .. MaxEntries /\ declared <= MaxSize
      BY <2>1, GeometryAssumption DEF Scanned, HeaderOK
    <3>2. e \in Entry
      BY <3>1, EntryTyped
    <3>3. e.offset \in Nat /\ EndOf(e) \in Int
      BY <3>1, <3>2, <2>2, EndExact
    <3> QED  BY <3>3, <2>1, <2>2, <2>3
  <2> QED  BY <2>1, <2>4, <2>5, <2>6, <1>0 DEF ParseInv
<1> QED  BY <1>1, <1>2, <1>3, <1>4, <1>5, <1>6 DEF Parser!Step

-----------------------------------------------------------------------------
(* The main flow. *)

\* A behaviour starts with the invariant.
LEMMA InitIInv == Init => IInv
<1> SUFFICES ASSUME Init PROVE IInv
  OBVIOUS
<1>1. TypeOK
  <2>1. Junk \in Cell
    BY DEF Junk, Cell
  <2>2. mem \in [Region -> Cell]
    BY <2>1 DEF Init
  <2>3. stage = "board" /\ declared = 0 /\ dirty = {} /\ scp = FALSE /\ dtb = FALSE
    BY DEF Init
  <2>4. scp \in BOOLEAN /\ dtb \in BOOLEAN
    BY <2>3
  <2>5. dirty \subseteq Region /\ declared \in Int
    BY <2>3
  <2> QED  BY <2>2, <2>3, <2>4, <2>5 DEF TypeOK
<1>2. SectorInv /\ PackageInv
  BY DEF Init, SectorInv, PackageInv
<1>3. MmcInv
  <2>1. PICK run \in BOOLEAN :
          sdc = [ctl |-> run, mask |-> FALSE, busy |-> FALSE, out |-> run, on |-> run,
                 div |-> 0, phase |-> FALSE]
    BY DEF Init, MmcInit
  <2>2. ios = [pc |-> "idle", req |-> 0, fatal |-> FALSE, rate |-> 0, calls |-> 0] /\ stage = "board"
    BY DEF Init, MmcInit
  <2>3. sdc \in Sdc /\ ios \in Ios
    BY <2>1, <2>2 DEF Sdc, Ios
  <2> QED  BY <2>2, <2>3 DEF MmcInv
<1>4. ParseInv
  BY ParserOps, GeometryAssumption DEF Init, Parser!Init, ParseInv, Fresh
<1> QED  BY <1>1, <1>2, <1>3, <1>4 DEF IInv

\* What the medium returns is a package, of known geometry.
LEMMA MediaTyped ==
  ASSUME NEW t \in {Primary, Backup}, NEW im \in Media[t]
  PROVE  im \in Images /\ im \in Image /\ DeclaredSize(im, Capacity) \in Nat
BY DeclaredTyped, Boot0Assumption, ImagesAssumption

\* The sector that is being read holds a package.
LEMMA SectorTyped ==
  SectorInv /\ stage \in Loading \cup Copying \cup Loaded => sector \in {Primary, Backup}
BY DEF SectorInv

\* The types, step by step.
LEMMA TypeKept == IInv /\ Next => TypeOK'
<1> SUFFICES ASSUME IInv, Next PROVE TypeOK'
  OBVIOUS
<1>0. TypeOK /\ SectorInv /\ PackageInv
  BY DEF IInv
<1>1. CASE BoardInit \/ ClockInit \/ FelFlag \/ Dram \/ LateInit \/ MmcIos \/ MmcReady \/ Parse
           \/ NoDtb \/ ClearEnv \/ Left \/ CopyScp
  BY <1>0, <1>1 DEF BoardInit, ClockInit, FelFlag, Dram, LateInit, MmcIos, MmcReady, Parse, NoDtb,
       ClearEnv, Left, CopyScp, After, TypeOK, hw, load, dev, vars
<1>2. CASE ReadToc \/ ReadError \/ ReadImage
  <2>1. \A im \in Media[sector] : im \in Images /\ DeclaredSize(im, Capacity) \in Nat
    BY <1>0, <1>2, SectorTyped, MediaTyped DEF ReadToc, ReadError, ReadImage
  <2>2. Junk \in Cell /\ \A im \in Images : Whole(im, "fip") \in Cell
    BY DEF Junk, Whole, Cell
  <2>3. \A c \in Cell : Write("staging", c) \in [Region -> Cell]
    BY <1>0, WriteOne DEF TypeOK, Region
  <2>4. mem' \in [Region -> Cell]
    BY <2>1, <2>2, <2>3, <1>2 DEF ReadToc, ReadError, ReadImage
  <2>5. declared' \in Int /\ UNCHANGED <<dirty, scp, dtb>> /\ stage' \in {"toc", "image", "parse", "error"}
    BY <2>1, <1>0, <1>2 DEF ReadToc, ReadError, ReadImage, Reject, NextSector, TypeOK
  <2> QED  BY <2>4, <2>5, <1>0 DEF TypeOK
<1>3. CASE Parsed
  BY <1>0, <1>3 DEF Parsed, Reject, NextSector, TypeOK
<1>4. ASSUME NEW k \in Kind, Copy(k) PROVE TypeOK'
  <2>1. sector \in {Primary, Backup} /\ Package \in Media[sector]
    BY <1>0, <1>4, SectorTyped DEF Copy, Kind, PackageInv
  <2>2. Whole(Package, k) \in Cell
    BY <2>1, MediaTyped DEF Whole, Cell
  <2>3. k \in Region /\ mem' \in [Region -> Cell]
    BY <2>2, <1>0, <1>4, WriteOne DEF TypeOK, Copy, Kind, Region
  <2>4. stage' \in {"bl33", "hw_config", "scp_bl2", "patch"}
    BY <1>4 DEF Copy, After, Kind
  <2> QED  BY <2>3, <2>4, <1>0, <1>4 DEF TypeOK, Copy
<1>5. ASSUME NEW k \in Kind, CopyError(k) PROVE TypeOK'
  BY <1>0, <1>5 DEF CopyError, TypeOK
<1>6. ASSUME NEW r \in Region, NEW b \in BOOLEAN, mem' = [mem EXCEPT ![r].patched = b]
      PROVE  mem' \in [Region -> Cell]
  <2>1. mem[r] \in Cell
    BY <1>0 DEF TypeOK
  <2>2. [mem[r] EXCEPT !.patched = b] \in Cell
    BY <2>1 DEF Cell
  <2> QED  BY <2>2, <1>0, <1>6 DEF TypeOK
<1>7. ASSUME NEW ok \in BOOLEAN, UpdateDram(ok) PROVE TypeOK'
  BY <1>0, <1>6, <1>7 DEF UpdateDram, TypeOK, Region
<1>8. CASE PatchMonitor
  BY <1>0, <1>6, <1>8 DEF PatchMonitor, TypeOK, Region
<1>9. CASE RunHandoff
  <2>1. sector \in {Primary, Backup} /\ Package \in Media[sector]
    BY <1>0, <1>9, SectorTyped DEF RunHandoff, PackageInv
  <2>2. Whole(Package, "stub") \in Cell
    BY <2>1, MediaTyped DEF Whole, Cell
  <2> QED  BY <2>2, <1>0, <1>9, WriteOne DEF TypeOK, RunHandoff, Region
<1> QED  BY <1>1, <1>2, <1>3, <1>4, <1>5, <1>7, <1>8, <1>9 DEF Next

\* Which packages were given up, step by step.
LEMMA SectorKept == IInv /\ Next => SectorInv'
<1> SUFFICES ASSUME IInv, Next PROVE SectorInv'
  OBVIOUS
<1>0. TypeOK /\ SectorInv /\ Primary \in Nat \ {0} /\ Backup \in Nat
  BY Boot0Assumption DEF IInv
<1>1. CASE BoardInit \/ ClockInit \/ FelFlag \/ Dram \/ LateInit \/ MmcIos \/ MmcReady \/ Parse
           \/ NoDtb \/ ClearEnv \/ Left \/ CopyScp \/ PatchMonitor \/ RunHandoff \/ ReadImage
  BY <1>0, <1>1 DEF BoardInit, ClockInit, FelFlag, Dram, LateInit, MmcIos, MmcReady, Parse, NoDtb,
       ClearEnv, Left, CopyScp, After, PatchMonitor, RunHandoff, ReadImage, SectorInv, hw, load, vars
<1>2. ASSUME stage \in Loading, Reject PROVE SectorInv'
  BY <1>0, <1>2 DEF Reject, NextSector, SectorInv, Second
<1>3. CASE ReadToc \/ ReadError \/ Parsed
  BY <1>0, <1>2, <1>3 DEF ReadToc, ReadError, Parsed, SectorInv
<1>4. ASSUME NEW k \in Kind, Copy(k) PROVE SectorInv'
  <2>1. stage' \in {"bl33", "hw_config", "scp_bl2", "patch"}
    BY <1>4 DEF Copy, After, Kind
  <2> QED  BY <2>1, <1>0, <1>4 DEF Copy, Kind, SectorInv
<1>5. ASSUME NEW k \in Kind, CopyError(k) PROVE SectorInv'
  BY <1>0, <1>5 DEF CopyError, Kind, SectorInv
<1>6. ASSUME NEW ok \in BOOLEAN, UpdateDram(ok) PROVE SectorInv'
  BY <1>0, <1>6 DEF UpdateDram, SectorInv
<1> QED  BY <1>1, <1>3, <1>4, <1>5, <1>6 DEF Next

\* What is in memory, step by step.
LEMMA PackageKept == IInv /\ Next => PackageInv'
<1> SUFFICES ASSUME IInv, Next PROVE PackageInv'
  OBVIOUS
<1>0. TypeOK /\ SectorInv /\ PackageInv /\ ParseInv /\ mem \in [Region -> Cell]
  BY DEF IInv, TypeOK
<1>1. TypeOK'
  BY TypeKept
<1>2. CASE BoardInit \/ ClockInit \/ FelFlag \/ Dram \/ LateInit \/ MmcIos \/ MmcReady \/ Parse
           \/ ReadToc \/ ReadError \/ Parsed \/ ClearEnv \/ Left
  BY <1>0, <1>2 DEF BoardInit, ClockInit, FelFlag, Dram, LateInit, MmcIos, MmcReady, Parse, ReadToc,
       ReadError, Parsed, Reject, NextSector, ClearEnv, Left, PackageInv, Has, Package, hw, load, vars
<1>3. CASE ReadImage
  <2>1. PICK im \in Media[sector] : mem' = Write("staging", Whole(im, "fip"))
    BY <1>3 DEF ReadImage
  <2>2. mem'["staging"] = Whole(im, "fip")
    BY <2>1, <1>0, WriteOne DEF Region
  <2>3. Package' = im /\ mem'["staging"].kind = "fip"
    BY <2>2 DEF Package, Whole
  <2> QED  BY <2>3, <1>0, <1>3 DEF ReadImage, PackageInv
<1>4. ASSUME NEW k \in Kind, Copy(k) PROVE PackageInv'
  <2>1. k \in {"bl31", "bl33", "hw_config"} /\ stage = k /\ mem' = Write(k, Whole(Package, k))
        /\ (k = "bl31" => WellFormed(Package, fip_size)) /\ dtb' = (dtb \/ k = "hw_config")
        /\ UNCHANGED <<sector, fip_size, used_sector>> /\ stage' = After(k)
    BY <1>4 DEF Copy, CopyStart, Kind
  <2>2. k \in Region /\ mem'[k] = Whole(Package, k)
        /\ mem'["staging"] = mem["staging"] /\ \A q \in Region \ {k} : mem'[q] = mem[q]
    BY <2>1, <1>0, WriteOne DEF Region
  <2>3. Package' = Package
    BY <2>2 DEF Package
  <2>7. mem'[k].pkg = Package' /\ mem'[k].kind = k /\ ~ mem'[k].patched
    BY <2>2, <2>3 DEF Whole
  <2>4. CASE k = "bl31"
    BY <2>1, <2>2, <2>3, <2>7, <2>4, <1>0 DEF PackageInv, After, Has
  <2>5. CASE k = "bl33"
    BY <2>1, <2>2, <2>3, <2>7, <2>5, <1>0 DEF PackageInv, After, Has, Region
  <2>6. CASE k = "hw_config"
    BY <2>1, <2>2, <2>3, <2>7, <2>6, <1>0 DEF PackageInv, After, Has, Region
  <2> QED  BY <2>1, <2>4, <2>5, <2>6
<1>5. ASSUME NEW k \in Kind, CopyError(k) PROVE PackageInv'
  BY <1>0, <1>5 DEF CopyError, PackageInv
<1>6. CASE CopyScp \/ NoDtb
  BY <1>0, <1>6 DEF CopyScp, NoDtb, After, PackageInv, Has, Package, load
<1>7. ASSUME NEW ok \in BOOLEAN, UpdateDram(ok) PROVE PackageInv'
  <2>1. mem' = [mem EXCEPT !["hw_config"].patched = ok] /\ stage = "patch" /\ stage' = "handoff_prepare"
        /\ dtb /\ dtb' = ok /\ UNCHANGED <<sector, fip_size, used_sector, scp>>
    BY <1>7 DEF UpdateDram
  <2>2. mem'["hw_config"] = [mem["hw_config"] EXCEPT !.patched = ok]
        /\ \A q \in Region \ {"hw_config"} : mem'[q] = mem[q]
    BY <2>1, <1>0 DEF Region
  <2>4. Package' = Package /\ mem'["staging"] = mem["staging"] /\ mem'["bl31"] = mem["bl31"]
        /\ mem'["bl33"] = mem["bl33"]
    BY <2>2 DEF Package, Region
  <2>5. mem["hw_config"] \in Cell
    BY <1>0 DEF Region
  <2>6. mem'["hw_config"].pkg = mem["hw_config"].pkg /\ mem'["hw_config"].kind = mem["hw_config"].kind
        /\ mem'["hw_config"].patched = ok
    BY <2>2, <2>5 DEF Cell
  <2> QED  BY <2>1, <2>4, <2>6, <1>0 DEF PackageInv, Has
<1>8. CASE PatchMonitor
  <2>1. mem' = [mem EXCEPT !["bl31"].patched = TRUE] /\ stage = "handoff_prepare" /\ stage' = "run_handoff"
        /\ UNCHANGED <<sector, fip_size, used_sector, scp, dtb>>
    BY <1>8 DEF PatchMonitor
  <2>2. mem'["bl31"] = [mem["bl31"] EXCEPT !.patched = TRUE]
        /\ \A q \in Region \ {"bl31"} : mem'[q] = mem[q]
    BY <2>1, <1>0 DEF Region
  <2>4. Package' = Package /\ mem'["staging"] = mem["staging"] /\ mem'["hw_config"] = mem["hw_config"]
        /\ mem'["bl33"] = mem["bl33"]
    BY <2>2 DEF Package, Region
  <2>5. mem["bl31"] \in Cell
    BY <1>0 DEF Region
  <2>6. mem'["bl31"].pkg = mem["bl31"].pkg /\ mem'["bl31"].kind = mem["bl31"].kind
        /\ mem'["bl31"].patched
    BY <2>2, <2>5 DEF Cell
  <2> QED  BY <2>1, <2>4, <2>6, <1>0 DEF PackageInv, Has
<1>9. CASE RunHandoff
  <2>1. mem' = Write("stub", Whole(Package, "stub")) /\ stage = "run_handoff" /\ stage' = "handoff"
        /\ UNCHANGED <<sector, fip_size, used_sector, scp, dtb>>
    BY <1>9 DEF RunHandoff
  <2>2. dirty' = dirty \ ({"stub", "bl31", "bl33"} \cup (IF dtb THEN {"hw_config"} ELSE {}))
    BY <1>9 DEF RunHandoff
  <2>3. mem'["stub"] = Whole(Package, "stub") /\ \A q \in Region \ {"stub"} : mem'[q] = mem[q]
    BY <2>1, <1>0, WriteOne DEF Region
  <2>4. Package' = Package /\ mem'["staging"] = mem["staging"] /\ mem'["hw_config"] = mem["hw_config"]
        /\ mem'["bl33"] = mem["bl33"] /\ mem'["bl31"] = mem["bl31"] /\ mem'["stub"].kind = "stub"
    BY <2>3 DEF Package, Region, Whole
  <2> QED  BY <2>1, <2>2, <2>4, <1>0 DEF PackageInv, Has
<1> QED  BY <1>2, <1>3, <1>4, <1>5, <1>6, <1>7, <1>8, <1>9 DEF Next

\* The eMMC's clock, step by step.
LEMMA MmcKept == IInv /\ Next => MmcInv'
<1> SUFFICES ASSUME IInv, Next PROVE MmcInv'
  OBVIOUS
<1>0. MmcInv /\ stage \in Starting \cup Loading \cup Copying \cup Loaded \cup Leaving
  BY DEF IInv, TypeOK
<1>1. CASE MmcIos
  BY <1>0, <1>1, MmcStepInv DEF MmcIos
<1>2. ASSUME UNCHANGED <<sdc, ios>>, stage' \in Loading /\ card' = 2 => Clocked(ios.req) PROVE MmcInv'
  BY <1>0, <1>2 DEF MmcInv, Clocked
<1>3. ASSUME UNCHANGED <<sdc, ios, card>>, stage' \in Loading => stage \in Loading PROVE MmcInv'
  <2>1. stage' \in Loading /\ card' = 2 => Clocked(ios.req)
    BY <1>0, <1>3 DEF MmcInv
  <2> QED  BY <1>2, <1>3, <2>1
<1>4. CASE MmcReady
  <2>1. UNCHANGED <<sdc, ios, card>>
    BY <1>4 DEF MmcReady, dev
  <2>2. ASSUME stage' \in Loading, card' = 2 PROVE Clocked(ios.req)
    <3>1. ios.pc = "idle" /\ ios.calls > 0 /\ ~ ios.fatal /\ sdc.out
      BY <1>4, <2>1, <2>2 DEF MmcReady
    <3> QED  BY <3>1, <1>0 DEF MmcInv
  <2> QED  BY <1>2, <2>1, <2>2
<1>5. CASE LateInit
  BY <1>2, <1>5 DEF LateInit, mmc
<1>6. CASE BoardInit \/ ClockInit \/ FelFlag \/ Dram
  BY <1>3, <1>6 DEF BoardInit, ClockInit, FelFlag, Dram, dev
<1>7. CASE ReadToc \/ ReadError \/ ReadImage \/ Parse \/ Parsed
  BY <1>3, <1>7 DEF ReadToc, ReadError, ReadImage, Parse, Parsed, dev, mmc
<1>8. ASSUME NEW k \in Kind, Copy(k) \/ CopyError(k) PROVE MmcInv'
  BY <1>3, <1>8 DEF Copy, CopyError, After, Kind, dev
<1>9. CASE CopyScp \/ NoDtb \/ PatchMonitor \/ RunHandoff \/ ClearEnv \/ Left
  BY <1>3, <1>9 DEF CopyScp, NoDtb, PatchMonitor, RunHandoff, ClearEnv, Left, After, dev, vars
<1>10. ASSUME NEW ok \in BOOLEAN, UpdateDram(ok) PROVE MmcInv'
  BY <1>3, <1>10 DEF UpdateDram, dev
<1> QED  BY <1>1, <1>4, <1>5, <1>6, <1>7, <1>8, <1>9, <1>10 DEF Next

\* What the parser knows, step by step: outside of sunxi_fip_parse, nothing.
LEMMA ParseKept == IInv /\ Next => ParseInv'
<1> SUFFICES ASSUME IInv, Next PROVE ParseInv'
  OBVIOUS
<1>0. ParseInv /\ TypeOK /\ SectorInv /\ PackageInv
  BY DEF IInv
<1>1. CASE Parse
  <2>1. stage = "parse" /\ UNCHANGED <<stage, mem, declared>> /\ Parser!Step
    BY <1>1 DEF Parse, load
  <2>2. sector \in {Primary, Backup} /\ Package \in Media[sector]
    BY <2>1, <1>0, SectorTyped DEF PackageInv
  <2>3. Package \in Image /\ declared \in Int
    BY <2>2, <1>0, MediaTyped DEF TypeOK
  <2> QED  BY <2>1, <2>3, <1>0, ParseStepInv
<1>2. CASE Parsed
  <2>1. pc' = "header" /\ Fresh'
    BY <1>2, ParserOps DEF Parsed, Parser!Return, Fresh
  <2>2. pstart' \in Int /\ pend' \in Int
    BY <2>1, GeometryAssumption DEF Fresh
  <2> QED  BY <2>1, <2>2 DEF ParseInv
<1>3. ASSUME UNCHANGED parser, stage # "parse" PROVE ParseInv'
  BY <1>0, <1>3 DEF ParseInv, Fresh, parser
<1>4. CASE BoardInit \/ ClockInit \/ FelFlag \/ Dram \/ LateInit \/ MmcIos \/ MmcReady
  BY <1>3, <1>4 DEF BoardInit, ClockInit, FelFlag, Dram, LateInit, MmcIos, MmcReady, dev
<1>5. CASE ReadToc \/ ReadError \/ ReadImage
  BY <1>3, <1>5 DEF ReadToc, ReadError, ReadImage, dev
<1>6. ASSUME NEW k \in Kind, Copy(k) \/ CopyError(k) PROVE ParseInv'
  BY <1>3, <1>6 DEF Copy, CopyError, Kind, dev
<1>7. CASE CopyScp \/ NoDtb \/ PatchMonitor \/ RunHandoff \/ ClearEnv \/ Left
  BY <1>3, <1>7 DEF CopyScp, NoDtb, PatchMonitor, RunHandoff, ClearEnv, Left, dev, vars, parser
<1>8. ASSUME NEW ok \in BOOLEAN, UpdateDram(ok) PROVE ParseInv'
  BY <1>3, <1>8 DEF UpdateDram, dev
<1> QED  BY <1>1, <1>2, <1>4, <1>5, <1>6, <1>7, <1>8 DEF Next

\* Steps that change nothing keep the invariant.
LEMMA StutterKept == IInv /\ UNCHANGED vars => IInv'
<1> SUFFICES ASSUME IInv, UNCHANGED vars PROVE IInv'
  OBVIOUS
<1> USE DEF vars, IInv
<1>1. TypeOK'
  BY DEF TypeOK
<1>2. SectorInv'
  BY DEF SectorInv
<1>3. PackageInv'
  BY DEF PackageInv, Has, Package
<1>4. MmcInv'
  BY DEF MmcInv, Clocked
<1>5. ParseInv'
  BY DEF ParseInv, Fresh, Package
<1> QED  BY <1>1, <1>2, <1>3, <1>4, <1>5

-----------------------------------------------------------------------------
(***************************************************************************)
(* The invariant holds in every state boot0 reaches: what is in memory at  *)
(* each stage of load_fip_images, what sunxi_fip_parse knows after each    *)
(* entry, and the eMMC's clock after each register write.                  *)
(***************************************************************************)
THEOREM Boot0Inductive == Spec => []IInv
<1>1. IInv /\ [Next]_vars => IInv'
  BY TypeKept, SectorKept, PackageKept, MmcKept, ParseKept, StutterKept DEF IInv
<1> QED  BY <1>1, InitIInv, PTL DEF Spec

(***************************************************************************)
(* boot0 jumps to the stub with the images of one well-formed package, all *)
(* in memory and patched, or enters FEL with no package left to try        *)
(* (load_fip_images, run_fip_handoff).                                     *)
(***************************************************************************)
THEOREM Boot0LoadsPackage == Spec => []LoadsPackage
<1>1. IInv => HandoffConsistent
  <2> SUFFICES ASSUME IInv, stage = "handoff" PROVE HandoffConsistent
    BY DEF HandoffConsistent
  <2>0. PackageInv /\ mem \in [Region -> Cell]
    BY DEF IInv, TypeOK
  <2>1. scp /\ mem["staging"].kind = "fip" /\ WellFormed(Package, fip_size) /\ used_sector = sector
        /\ Package \in Media[sector] /\ mem["stub"].kind = "stub"
        /\ dirty \cap {"stub", "bl31", "bl33"} = {} /\ (dtb => "hw_config" \notin dirty)
    BY <2>0 DEF PackageInv
  <2>2. Has("bl31", "bl31", TRUE) /\ Has("bl33", "bl33", FALSE) /\ (dtb => Has("hw_config", "hw_config", TRUE))
    BY <2>0 DEF PackageInv, Has
  <2>3. ASSUME NEW r \in Region, NEW k, NEW p \in BOOLEAN, Has(r, k, p)
        PROVE  mem[r] = [pkg |-> Package, kind |-> k, patched |-> p]
    <3>1. mem[r] \in Cell /\ mem[r].pkg = Package /\ mem[r].kind = k /\ mem[r].patched = p
      BY <2>0, <2>3 DEF Has, Cell
    <3> QED  BY <3>1 DEF Cell
  <2>4. mem["bl31"] = [pkg |-> Package, kind |-> "bl31", patched |-> TRUE]
    BY <2>2, <2>3 DEF Region
  <2>5. mem["bl33"] = Whole(Package, "bl33")
    BY <2>2, <2>3 DEF Region, Whole
  <2>6. dtb => mem["hw_config"] = [pkg |-> Package, kind |-> "hw_config", patched |-> TRUE]
    BY <2>2, <2>3 DEF Region
  <2> QED  BY <2>1, <2>4, <2>5, <2>6 DEF HandoffConsistent
<1>2. IInv => BackupTried
  BY DEF IInv, SectorInv, BackupTried
<1>3. IInv => LoadsPackage
  BY <1>1, <1>2 DEF LoadsPackage
<1> QED  BY <1>3, Boot0Inductive, PTL

(***************************************************************************)
(* sunxi_fip_parse accepts the well-formed packages and no others, for     *)
(* tables and words of any size, and every image of a layout it accepts    *)
(* lies in the buffer, in its load window and apart from the others,       *)
(* although the parser adds modulo 2^64.                                   *)
(***************************************************************************)
THEOREM Boot0ParserExact == Spec => []ParserExact
<1>1. IInv => ParserExact
  <2> SUFFICES ASSUME IInv PROVE ParserExact
    OBVIOUS
  <2>0. TypeOK /\ SectorInv /\ PackageInv /\ ParseInv /\ Package = mem["staging"].pkg
    BY DEF IInv, Package
  <2>1. CASE pc = "ok"
    <3>1. stage = "parse" /\ Scanned(Package, declared, n, found, layout, pstart, pend)
          /\ n < MaxEntries /\ WellFormedAt(Package, declared, n)
      BY <2>0, <2>1 DEF ParseInv
    <3>2. Package \in Image /\ declared \in Int
      BY <3>1, <2>0, SectorTyped, MediaTyped DEF PackageInv, TypeOK
    <3>3. Parser!AcceptedIsSafe
      BY <3>1, <3>2, ScanSafe, ParserOps DEF Parser!AcceptedIsSafe
    <3>4. WellFormed(Package, declared)
      BY <3>1, <3>2, ScanSafe
    <3> QED  BY <2>0, <2>1, <3>3, <3>4, ParserOps DEF ParserExact, Parser!ParserExact
  <2>2. CASE pc = "fail"
    BY <2>0, <2>2, ParserOps DEF ParserExact, Parser!ParserExact, Parser!AcceptedIsSafe, ParseInv
  <2>3. CASE pc \notin {"ok", "fail"}
    BY <2>3 DEF ParserExact, Parser!ParserExact, Parser!AcceptedIsSafe
  <2> QED  BY <2>1, <2>2, <2>3
<1> QED  BY <1>1, Boot0Inductive, PTL

(***************************************************************************)
(* a7s_mmc2_set_ios: for every rate the MMC core may ask for, the eMMC     *)
(* sees no clock while it changes, then one that is not too fast and no    *)
(* slower than it must be; boot0 reads packages from it only then.         *)
(***************************************************************************)
THEOREM Boot0EmmcClocked == Spec => []EmmcClocked
<1>1. IInv => EmmcClocked
  BY DEF IInv, MmcInv, EmmcClocked, CardClocked
<1> QED  BY <1>1, Boot0Inductive, PTL
=============================================================================
