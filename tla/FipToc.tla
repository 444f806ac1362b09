------------------------------- MODULE FipToc -------------------------------
(***************************************************************************)
(* sunxi_fip_parse (sunxi_fip.c): one pass over the table of contents of a *)
(* FIP image in the staging buffer.  Offsets and sizes of an entry are     *)
(* words of Word = 2^64 values and the parser adds them modulo Word, while *)
(* the image is at most MaxSize bytes long.  One action per outcome of a   *)
(* loop iteration.                                                         *)
(***************************************************************************)
EXTENDS FipFormat

VARIABLES
  image, size,     \* the arguments of sunxi_fip_parse
  pc,
  n,               \* entry_count
  found, layout,
  pstart, pend     \* payload_start, payload_end

Init ==
  /\ pc = "header" /\ n = 0
  /\ found = {} /\ layout = [k \in Kind |-> None]
  /\ pstart = Word - 1 /\ pend = 0

-----------------------------------------------------------------------------
Fail == pc' = "fail" /\ UNCHANGED <<image, size, n, found, layout, pstart, pend>>

Header ==
  /\ pc = "header"
  /\ HeaderSize <= size /\ size <= MaxSize /\ image.magic
  /\ pc' = "loop"
  /\ UNCHANGED <<image, size, n, found, layout, pstart, pend>>

HeaderBad ==
  /\ pc = "header"
  /\ size < HeaderSize \/ size > MaxSize \/ ~ image.magic
  /\ Fail

\* the next entry's bytes are inside the buffer
HaveEntry ==
  /\ pc = "loop" /\ n < MaxEntries
  /\ EntryOffset(n) <= size /\ size - EntryOffset(n) >= EntrySize

NoEntry ==
  /\ pc = "loop"
  /\ n = MaxEntries \/ EntryOffset(n) > size \/ size - EntryOffset(n) < EntrySize
  /\ Fail

\* the all-zero UUID: its offset is the declared size of the package
TerminatorOK(e) ==
  /\ e.size = 0 /\ e.flags = 0
  /\ e.offset <= size /\ e.offset >= EntryOffset(n + 1)
  /\ pstart >= EntryOffset(n + 1) /\ pend <= e.offset
  /\ Required \subseteq found
  /\ Loadable(image, found, layout)

Terminator ==
  /\ HaveEntry
  /\ EntryAt(image, n + 1).uuid = "null"
  /\ pc' = IF TerminatorOK(EntryAt(image, n + 1)) THEN "ok" ELSE "fail"
  /\ UNCHANGED <<image, size, n, found, layout, pstart, pend>>

EntryOK(e) ==
  ~ UuidSeen(image, e, n) /\ InBuffer(e, size) /\ ~ OverlapsPrevious(image, e, n)

EntryBad ==
  /\ HaveEntry
  /\ EntryAt(image, n + 1).uuid # "null"
  /\ ~ EntryOK(EntryAt(image, n + 1))
  /\ Fail

Accept ==
  /\ HaveEntry
  /\ LET e == EntryAt(image, n + 1)
     IN  /\ e.uuid # "null"
         /\ EntryOK(e)
         /\ pstart' = IF e.offset < pstart THEN e.offset ELSE pstart
         /\ pend' = IF EndOf(e) > pend THEN EndOf(e) ELSE pend
         /\ found' = found \cup ({e.uuid} \cap Kind)
         /\ layout' = [k \in Kind |-> IF e.uuid = k THEN [offset |-> e.offset, size |-> e.size]
                                                    ELSE layout[k]]
  /\ n' = n + 1
  /\ UNCHANGED <<image, size, pc>>

Step == Header \/ HeaderBad \/ NoEntry \/ Terminator \/ EntryBad \/ Accept

\* the parser's variables are local: the next call starts afresh
Return ==
  /\ pc \in {"ok", "fail"}
  /\ pc' = "header" /\ n' = 0 /\ found' = {} /\ layout' = [k \in Kind |-> None]
  /\ pstart' = Word - 1 /\ pend' = 0

-----------------------------------------------------------------------------
(***************************************************************************)
(* What the copy loops of sunxi_fip_copy_images rely on: every image of an *)
(* accepted layout is a non-empty range of bytes behind the table of       *)
(* contents and inside the buffer, fits its load window, and shares no     *)
(* byte with another image.  The sums here are those of integers: a TOC    *)
(* whose offset + size wraps around 2^64 must not get through.             *)
(***************************************************************************)
AcceptedIsSafe ==
  pc = "ok" =>
    /\ Required \subseteq found
    /\ \A k \in Kind \ found : layout[k] = None
    /\ \A k \in found :
         /\ layout[k].size \in 1 .. Limit[k]
         /\ layout[k].offset >= EntryOffset(n + 1)
         /\ layout[k].offset + layout[k].size <= size
    /\ \A k, l \in found :
         k # l => \/ layout[k].offset + layout[k].size <= layout[l].offset
                  \/ layout[l].offset + layout[l].size <= layout[k].offset

(***************************************************************************)
(* The parser accepts exactly the well-formed packages, whatever the size  *)
(* an earlier read of the medium declared, and what it accepts is safe.    *)
(***************************************************************************)
ParserExact ==
  /\ AcceptedIsSafe
  /\ pc = "ok" => WellFormed(image, size)
  /\ pc = "fail" => ~ WellFormed(image, size)
=============================================================================
