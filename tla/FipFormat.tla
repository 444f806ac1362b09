------------------------------ MODULE FipFormat ------------------------------
(***************************************************************************)
(* FIP packages as sunxi_fip.c sees them: the entries of the table of      *)
(* contents, the tests the parser makes on one entry and on one payload,   *)
(* and the size scan of get_fip_size_from_toc.  Offsets and sizes of an    *)
(* entry are words of Word = 2^64 values and are added modulo Word, while  *)
(* an image is at most MaxSize bytes long.                                 *)
(***************************************************************************)
EXTENDS Integers

CONSTANTS
  HeaderSize, EntrySize,   \* FIP_HEADER_SIZE, FIP_ENTRY_SIZE
  MaxEntries,              \* FIP_MAX_TOC_ENTRIES
  MaxSize,                 \* SUNXI_FIP_MAX_SIZE
  Word,                    \* 2^64
  Limit, MinSize,          \* load window and least size of each image kind
  SectorSize,              \* FIP_SECTOR_SIZE
  Images                   \* packages on the medium

Kind == {"scp_bl2", "bl31", "bl33", "hw_config"}
Required == {"scp_bl2", "bl31", "bl33"}      \* FIP_FOUND_REQUIRED
Uuid == Kind \cup {"null", "other1", "other2"}
Field == 0 .. Word - 1
Entry == [uuid : Uuid, offset : Field, size : Field, flags : Field]

(***************************************************************************)
(* A buffer: the header's magic, the words at the entries' places, and     *)
(* whether the payload of each kind carries the signature its validator    *)
(* looks for (bl33: the target of its first branch, -1 if there is none).  *)
(***************************************************************************)
Image == [magic : BOOLEAN, toc : [1 .. MaxEntries -> Entry],
          signed : [Kind \ {"bl33"} -> BOOLEAN], target : Int]

ASSUME GeometryAssumption ==
  /\ HeaderSize \in Nat /\ EntrySize \in Nat \ {0} /\ MaxEntries \in Nat /\ MaxSize \in Nat
  /\ HeaderSize + (MaxEntries + 1) * EntrySize < Word /\ MaxSize < Word /\ Word \in Nat
  /\ SectorSize \in Nat \ {0}
  /\ Limit \in [Kind -> Nat] /\ MinSize \in [Kind -> Nat \ {0}]

ASSUME ImagesAssumption == Images \subseteq Image

None == [offset |-> 0, size |-> 0]

-----------------------------------------------------------------------------
EntryAt(im, i) == im.toc[i]
EntryOffset(i) == HeaderSize + i * EntrySize      \* of entry i + 1
EndOf(e) == (e.offset + e.size) % Word            \* u64 addition

\* mutant: the end of the payload is computed first, modulo 2^64
InBufferWrapped(e, s) == e.size # 0 /\ EndOf(e) <= s

\* entry_in_buffer
InBuffer(e, s) == e.size # 0 /\ e.offset <= s /\ e.size <= s - e.offset

\* entry_overlaps_previous
OverlapsPrevious(im, e, m) ==
  \E i \in 1 .. m : /\ e.offset < EndOf(EntryAt(im, i))
                    /\ EntryAt(im, i).offset < EndOf(e)

\* entry_uuid_seen
UuidSeen(im, e, m) == \E i \in 1 .. m : EntryAt(im, i).uuid = e.uuid

\* scp_bl2_is_valid, bl31_is_valid, bl33_is_valid, hw_config_is_valid
PayloadValid(im, k, l) ==
  /\ l.size >= MinSize[k]
  /\ k = "scp_bl2" => l.offset % 4 = 0
  /\ IF k = "bl33" THEN im.target >= 0 /\ im.target + 4 <= l.size ELSE im.signed[k]

\* layout_is_loadable, and hw_config_is_valid when there is a HW_CONFIG
Loadable(im, f, lay) ==
  /\ \A k \in Kind : lay[k].size <= Limit[k]
  /\ \A k \in Required \cup (f \cap {"hw_config"}) : PayloadValid(im, k, lay[k])

(***************************************************************************)
(* get_fip_size_from_toc: the size the first terminator declares, or 0 if  *)
(* the scan fails.  The rounding up to sectors is modulo 2^64.             *)
(***************************************************************************)
RoundUp(d) == LET r == (d + SectorSize - 1) % Word IN r - (r % SectorSize)

DeclaredSize(im, capacity) ==
  IF ~ im.magic \/ \A i \in 1 .. MaxEntries : EntryAt(im, i).uuid # "null"
    THEN 0
    ELSE LET m == CHOOSE i \in 1 .. MaxEntries :
                    /\ EntryAt(im, i).uuid = "null"
                    /\ \A j \in 1 .. i - 1 : EntryAt(im, j).uuid # "null"
             e == EntryAt(im, m)
         IN  IF \/ e.size # 0 \/ e.flags # 0
                \/ e.offset < EntryOffset(m) \/ e.offset > MaxSize
                \/ RoundUp(e.offset) < e.offset \/ RoundUp(e.offset) > capacity
               THEN 0 ELSE e.offset

(***************************************************************************)
(* The reference definition of a well-formed package: m entries and a      *)
(* terminator, no UUID twice, the payloads disjoint and between the table  *)
(* of contents and the declared end, the required images present and valid.*)
(***************************************************************************)
Holds(im, m, k) == \E i \in 1 .. m : EntryAt(im, i).uuid = k
Place(im, m, k) ==
  IF Holds(im, m, k)
    THEN LET i == CHOOSE j \in 1 .. m : EntryAt(im, j).uuid = k
         IN  [offset |-> EntryAt(im, i).offset, size |-> EntryAt(im, i).size]
    ELSE None

WellFormedAt(im, s, m) ==
  LET e(i) == EntryAt(im, i)
      last == e(m + 1)
  IN  /\ EntryOffset(m + 1) <= last.offset /\ last.offset <= s
      /\ last.uuid = "null" /\ last.size = 0 /\ last.flags = 0
      /\ \A i \in 1 .. m :
           /\ e(i).uuid # "null" /\ e(i).size > 0
           /\ EntryOffset(m + 1) <= e(i).offset /\ e(i).offset + e(i).size <= last.offset
      /\ \A i, j \in 1 .. m : i # j =>
           /\ e(i).uuid # e(j).uuid
           /\ e(i).offset + e(i).size <= e(j).offset \/ e(j).offset + e(j).size <= e(i).offset
      /\ \A k \in Required : Holds(im, m, k)
      /\ Loadable(im, {k \in Kind : Holds(im, m, k)}, [k \in Kind |-> Place(im, m, k)])

WellFormed(im, s) ==
  /\ HeaderSize <= s /\ s <= MaxSize /\ im.magic
  /\ \E m \in 0 .. MaxEntries - 1 : WellFormedAt(im, s, m)

=============================================================================
