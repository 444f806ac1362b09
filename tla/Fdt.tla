--------------------------------- MODULE Fdt ---------------------------------
(***************************************************************************)
(* The readers of libfdt (fdt.c, fdt_ro.c, fdt_addresses.c): pure          *)
(* functions of a flattened device tree.                                   *)
(*                                                                         *)
(* A blob is a record of its header fields and its three blocks.  The      *)
(* structure block is the sequence of its 32-bit words, at the offsets     *)
(* 0, 1, ... (the byte offset divided by FDT_TAGSIZE); a node's name, a    *)
(* name of the strings block and a string in a property's value take one   *)
(* word each.  Results are offsets, or negative error codes as in the C.   *)
(***************************************************************************)
EXTENDS Integers, Sequences

CONSTANTS
  WordSpace,       \* 2^32: the words of the structure block are below it
  Name,            \* node names, numbers beside the tags
  NoUnit,          \* a node's name without its unit address
  AliasPath        \* the path that a word of an alias names

ASSUME NamesAssumption ==
  /\ WordSpace \in Nat \ {0}
  /\ Name \subseteq Nat /\ NoUnit \in [Name -> Name]
  /\ DOMAIN AliasPath \subseteq Int

\* the tags of the structure block
FDT_BEGIN_NODE == 1
FDT_END_NODE   == 2
FDT_PROP       == 3
FDT_NOP        == 4
FDT_END        == 9

Err ==
  [NOTFOUND |-> -1, EXISTS |-> -2, NOSPACE |-> -3, BADOFFSET |-> -4, BADPATH |-> -5,
   BADPHANDLE |-> -6, BADSTATE |-> -7, TRUNCATED |-> -8, BADMAGIC |-> -9, BADVERSION |-> -10,
   BADSTRUCTURE |-> -11, BADLAYOUT |-> -12, INTERNAL |-> -13, BADNCELLS |-> -14,
   BADVALUE |-> -15]

\* names of properties that the readers look for themselves
Phandle == 201
LinuxPhandle == 202
Status == 203
Compatible == 204
AddressCells == 205
SizeCells == 206
Aliases == 301            \* the node /aliases
Disabled == 401           \* the string "disabled"
Unterminated == 402       \* a word of a string that does not end in it

\* struct fdt_header and the blocks it describes; sizes in words
Blob ==
  [magic : {"fdt", "sw", "bad"}, version : Nat, comp : Nat, total : Nat,
   off_rsv : Nat, off_struct : Nat, off_strings : Nat,
   rsv : Seq(Nat \X Nat), st : Seq(Nat), strs : Seq(Nat)]

-----------------------------------------------------------------------------
(* fdt.c                                                                    *)

fdt_check_header(b) ==
  CASE b.magic = "fdt" -> IF b.version < 16 \/ b.comp > 17 THEN Err.BADVERSION ELSE 0
    [] b.magic = "sw"  -> IF Len(b.st) = 0 THEN Err.BADSTATE ELSE 0
    [] b.magic = "bad" -> Err.BADMAGIC

\* fdt_offset_ptr: may words off .. off + len - 1 be read?  Before version
\* 17 the header does not say where the block ends.
fdt_offset_ptr(b, off, len) == b.version >= 17 => off + len <= Len(b.st)

\* word at offset off
At(b, off) == b.st[off + 1]

Token(tag, next) == [tag |-> tag, next |-> next]

\* where a token that begins at off ends; 0: there is no such token, or its
\* length cannot be read
TokenEnd(b, off, tag) ==
  CASE tag = FDT_BEGIN_NODE -> off + 2
    [] tag = FDT_PROP -> IF fdt_offset_ptr(b, off + 1, 1) THEN off + 3 + At(b, off + 1) ELSE 0
    [] tag \in {FDT_END, FDT_END_NODE, FDT_NOP} -> off + 1
    [] OTHER -> 0

TokenIf(ok, tag, end) == IF ok THEN Token(tag, end) ELSE Token(FDT_END, Err.BADSTRUCTURE)
Inside(b, off, end) == end # 0 /\ fdt_offset_ptr(b, off, end - off)
TokenAt(b, off, tag, end) == TokenIf(Inside(b, off, end), tag, end)

\* mutant: the value of a property is not known to end inside the block
NextTagUnchecked(b, off) ==
  IF ~ fdt_offset_ptr(b, off, 1) THEN Token(FDT_END, Err.TRUNCATED)
  ELSE TokenIf(TokenEnd(b, off, At(b, off)) # 0, At(b, off), TokenEnd(b, off, At(b, off)))

\* the token at off and the offset behind it; FDT_END and an error when the
\* block ends before the token does
fdt_next_tag(b, off) ==
  IF ~ fdt_offset_ptr(b, off, 1) THEN Token(FDT_END, Err.TRUNCATED)
  ELSE TokenAt(b, off, At(b, off), TokenEnd(b, off, At(b, off)))

\* behind the token t at off, if it is a tag
Behind(off, t, tag) == IF off < 0 \/ t.tag # tag THEN Err.BADOFFSET ELSE t.next

fdt_check_node_offset(b, off) == Behind(off, fdt_next_tag(b, off), FDT_BEGIN_NODE)
fdt_check_prop_offset(b, off) == Behind(off, fdt_next_tag(b, off), FDT_PROP)

\* what a function returns behind a check of the header or of an offset
After(err, result) == IF err < 0 THEN err ELSE result

\* where a loop over nodes is
Place == [off : Int, depth : Int]
Reached(off, depth) == [off |-> off, depth |-> depth]

\* the loop of fdt_next_node, at a token; counted: the caller passes a depth
Walk(b, counted) ==
  LET walk[r \in [off : Nat, depth : Int]] ==
        LET t == fdt_next_tag(b, r.off)
        IN  IF t.tag = FDT_BEGIN_NODE THEN Reached(r.off, r.depth + 1)
            ELSE IF t.tag = FDT_END
                   THEN Reached(IF t.next >= 0 \/ (t.next = Err.TRUNCATED /\ ~ counted)
                                  THEN Err.NOTFOUND ELSE t.next, r.depth)
            ELSE IF t.tag = FDT_END_NODE /\ counted /\ r.depth = 0 THEN Reached(t.next, -1)
            ELSE walk[Reached(t.next, IF t.tag = FDT_END_NODE THEN r.depth - 1 ELSE r.depth)]
  IN  walk

WalkFrom(b, off, depth, counted) ==
  IF off < 0 THEN Reached(Err.BADOFFSET, depth) ELSE Walk(b, counted)[Reached(off, depth)]

fdt_next_node(b, off, depth, counted) ==
  WalkFrom(b, IF off < 0 THEN 0 ELSE fdt_check_node_offset(b, off), depth, counted)

NextNode(b, off) == fdt_next_node(b, off, 0, FALSE).off        \* depth NULL

IfDepth1(r) == IF r.off < 0 \/ r.depth # 1 THEN Err.NOTFOUND ELSE r.off

fdt_first_subnode(b, off) == IfDepth1(fdt_next_node(b, off, 0, TRUE))

\* past the nodes below a sibling
PastDeeper(b) ==
  LET past[r \in Place] ==
        IF r.off >= 0 /\ r.depth > 1 THEN past[fdt_next_node(b, r.off, r.depth, TRUE)] ELSE r
  IN  past

fdt_next_subnode(b, off) == IfDepth1(PastDeeper(b)[fdt_next_node(b, off, 1, TRUE)])

\* _fdt_find_string: the place of s in the table, 0 if it has none
fdt_find_string(b, s) ==
  IF \A i \in 1 .. Len(b.strs) : b.strs[i] # s THEN 0
  ELSE CHOOSE i \in 1 .. Len(b.strs) : b.strs[i] = s /\ \A j \in 1 .. i - 1 : b.strs[j] # s

-----------------------------------------------------------------------------
(* fdt_ro.c: nodes                                                          *)


\* _fdt_nodename_eq; 0 is the empty name, of which memcmp compares no bytes
fdt_nodename_eq(b, off, s) ==
  /\ s # 0
  /\ fdt_offset_ptr(b, off + 1, 1)
  /\ \/ At(b, off + 1) = s
     \/ NoUnit[s] = s /\ NoUnit[At(b, off + 1)] = s

\* an unfinished blob keeps its strings below the end of the buffer and
\* counts their offsets from there
fdt_string(b, stroff) == b.strs[1 + (((IF b.magic = "sw" THEN Len(b.strs) ELSE 0) + stroff) % WordSpace)]

fdt_get_mem_rsv(b, n) == b.rsv[n + 1]

fdt_num_mem_rsv(b) ==
  CHOOSE i \in 0 .. Len(b.rsv) - 1 : b.rsv[i + 1][2] = 0 /\ \A j \in 1 .. i : b.rsv[j][2] # 0

SubnodeFrom(b, name) ==
  LET from[r \in Place] ==
        IF r.depth < 0 THEN Err.NOTFOUND
        ELSE IF r.off < 0 \/ (r.depth = 1 /\ fdt_nodename_eq(b, r.off, name)) THEN r.off
        ELSE from[fdt_next_node(b, r.off, r.depth, TRUE)]
  IN  from

fdt_subnode_offset(b, off, name) ==
  After(fdt_check_header(b), SubnodeFrom(b, name)[Reached(off, 0)])

fdt_get_name(b, off) ==
  After(fdt_check_header(b), After(fdt_check_node_offset(b, off), At(b, off + 1)))

-----------------------------------------------------------------------------
(* fdt_ro.c: properties                                                     *)

\* _nextprop
nextprop(b) ==
  LET from[off \in Nat] ==
        LET t == fdt_next_tag(b, off)
        IN  IF t.tag = FDT_NOP THEN from[t.next]
            ELSE IF t.tag = FDT_PROP THEN off
            ELSE IF t.tag # FDT_END THEN Err.NOTFOUND
            ELSE IF t.next >= 0 THEN Err.BADSTRUCTURE ELSE t.next
  IN  from

PropertyBehind(b, off) == After(off, nextprop(b)[off])

fdt_first_property_offset(b, off) == PropertyBehind(b, fdt_check_node_offset(b, off))
fdt_next_property_offset(b, off) == PropertyBehind(b, fdt_check_prop_offset(b, off))

\* a property: its offset, or the error that *lenp holds when there is none
fdt_get_property_by_offset(b, off) ==
  IF fdt_check_prop_offset(b, off) < 0 THEN Err.BADOFFSET ELSE off

PropLen(b, off) == At(b, off + 1)
PropName(b, off) == fdt_string(b, At(b, off + 2))
PropData(b, off) == SubSeq(b.st, off + 4, off + 3 + PropLen(b, off))

PropertyFrom(b, name) ==
  LET from[off \in Int] ==
        IF off < 0 THEN off
        ELSE IF fdt_get_property_by_offset(b, off) < 0 THEN Err.INTERNAL
        ELSE IF PropName(b, off) = name THEN off
        ELSE from[fdt_next_property_offset(b, off)]
  IN  from

\* fdt_get_property_namelen
fdt_get_property(b, node, name) == PropertyFrom(b, name)[fdt_first_property_offset(b, node)]

\* fdt_getprop_namelen, fdt_getprop: [len |-> error] is the NULL it returns
ValueAt(b, p) ==
  IF p < 0 THEN [len |-> p, data |-> <<>>] ELSE [len |-> PropLen(b, p), data |-> PropData(b, p)]
fdt_getprop(b, node, name) == ValueAt(b, fdt_get_property(b, node, name))

fdt_getprop_by_offset(b, off) ==
  IF fdt_get_property_by_offset(b, off) < 0 THEN [len |-> Err.BADOFFSET, name |-> 0, data |-> <<>>]
  ELSE [len |-> PropLen(b, off), name |-> PropName(b, off), data |-> PropData(b, off)]

\* number of cells read, and the cells
CellsRead(len) == IF len <= 0 THEN Err.INTERNAL ELSE len
fdt_getprop_u32(b, node, name) == CellsRead(fdt_getprop(b, node, name).len)

CountRead(len, count) ==
  IF len < 0 THEN Err.NOTFOUND ELSE IF len # count THEN Err.BADLAYOUT ELSE 0
fdt_get_u32_array(b, node, name, count) == CountRead(fdt_getprop(b, node, name).len, count)

StringRead(len) == IF len < 0 THEN -1 ELSE len
fdt_getprop_string(b, node, name) == StringRead(fdt_getprop(b, node, name).len)

\* no status, and a status of which nothing differs from "disabled", is disabled
Enabled(v) == v.len > 0 /\ v.data[1] # Disabled
fdt_get_status(b, node) == IF Enabled(fdt_getprop(b, node, Status)) THEN 1 ELSE 0

CellOr(v, other) == IF v.len = 1 THEN v.data[1] ELSE other
fdt_get_phandle(b, node) ==
  CellOr(fdt_getprop(b, node, Phandle), CellOr(fdt_getprop(b, node, LinuxPhandle), 0))

CellCount(v, least) ==
  IF v.len < 0 THEN 2
  ELSE IF v.len # 1 \/ v.data[1] < least \/ v.data[1] > 4 THEN Err.BADNCELLS ELSE v.data[1]

fdt_address_cells(b, node) == CellCount(fdt_getprop(b, node, AddressCells), 1)
fdt_size_cells(b, node) == CellCount(fdt_getprop(b, node, SizeCells), 0)

-----------------------------------------------------------------------------
(* fdt_ro.c: string lists                                                   *)

\* the last word of the string that begins at word i of a list, 0 if the
\* list ends first
StringEnd(list, i) ==
  IF \A j \in i .. Len(list) : list[j] = Unterminated THEN 0
  ELSE CHOOSE j \in i .. Len(list) :
         list[j] # Unterminated /\ \A k \in i .. j - 1 : list[k] = Unterminated

\* the loops below are at the string that begins at word i of the list
ContainsFrom(list, s) ==
  LET from[i \in Nat] ==
        /\ i <= Len(list)
        /\ list[i] = s \/ (StringEnd(list, i) # 0 /\ from[StringEnd(list, i) + 1])
  IN  from

fdt_stringlist_contains(list, s) == ContainsFrom(list, s)[1]

CountFrom(list) ==
  LET from[i \in Nat, count \in Nat] ==
        IF i > Len(list) THEN count
        ELSE IF StringEnd(list, i) = 0 THEN Err.BADVALUE
        ELSE from[StringEnd(list, i) + 1, count + 1]
  IN  from

CountIn(v) == After(v.len, CountFrom(v.data)[1, 0])
fdt_stringlist_count(b, node, name) == CountIn(fdt_getprop(b, node, name))

SearchFrom(list, s) ==
  LET from[i \in Nat, idx \in Nat] ==
        IF i > Len(list) THEN Err.NOTFOUND
        ELSE IF StringEnd(list, i) = 0 THEN Err.BADVALUE
        ELSE IF StringEnd(list, i) = i /\ list[i] = s THEN idx
        ELSE from[StringEnd(list, i) + 1, idx + 1]
  IN  from

SearchIn(v, s) == After(v.len, SearchFrom(v.data, s)[1, 0])
fdt_stringlist_search(b, node, name, s) == SearchIn(fdt_getprop(b, node, name), s)

\* the words of string idx, or an error
GetFrom(list) ==
  LET from[i \in Nat, idx \in Nat] ==
        IF i > Len(list) THEN <<Err.NOTFOUND>>
        ELSE IF StringEnd(list, i) = 0 THEN <<Err.BADVALUE>>
        ELSE IF idx = 0 THEN SubSeq(list, i, StringEnd(list, i))
        ELSE from[StringEnd(list, i) + 1, idx - 1]
  IN  from

GetIn(v, idx) == IF v.len < 0 THEN <<v.len>> ELSE GetFrom(v.data)[1, idx]
fdt_stringlist_get(b, node, name, idx) == GetIn(fdt_getprop(b, node, name), idx)

CompatibleIn(v, s) == After(v.len, IF fdt_stringlist_contains(v.data, s) THEN 0 ELSE 1)
fdt_node_check_compatible(b, node, s) == CompatibleIn(fdt_getprop(b, node, Compatible), s)

-----------------------------------------------------------------------------
(* fdt_ro.c: paths, ancestors and searches                                  *)

Descend(b) ==
  LET down[off \in Int, path \in Seq(Nat)] ==
        IF off < 0 \/ path = <<>> THEN off
        ELSE down[fdt_subnode_offset(b, off, Head(path)), Tail(path)]
  IN  down

\* fdt_path_offset of an absolute path, and of a path that begins with an alias
fdt_path_offset(b, path) == After(fdt_check_header(b), Descend(b)[0, path])

\* fdt_get_alias_namelen: the path an alias stands for, in a 0- or 1-element
\* sequence
AliasIn(v) == IF v.len < 1 THEN <<>> ELSE <<AliasPath[v.data[1]]>>
AliasAt(b, node, alias) == IF node < 0 THEN <<>> ELSE AliasIn(fdt_getprop(b, node, alias))
fdt_get_alias(b, alias) == AliasAt(b, fdt_path_offset(b, <<Aliases>>), alias)

BehindAlias(b, alias, path) ==
  IF alias = <<>> THEN Err.BADPATH ELSE Descend(b)[fdt_path_offset(b, alias[1]), path]
AliasOffset(b, alias, path) == After(fdt_check_header(b), BehindAlias(b, fdt_get_alias(b, alias), path))

\* the loops of fdt_get_path and fdt_supernode_atdepth_offset end without
\* having met the node
NotMet(off) == IF off = Err.NOTFOUND \/ off >= 0 THEN Err.BADOFFSET
               ELSE IF off = Err.BADOFFSET THEN Err.BADSTRUCTURE ELSE off

\* characters in the buffer: a name has one, and every component its '/'
PathLen(names) == IF names = <<>> THEN 0 ELSE 2 * Len(names) - 1

\* p at depth, and one component more
Kept(names, depth) == SubSeq(names, 1, IF Len(names) > depth THEN depth ELSE Len(names))
Extended(kept, depth, name, buflen) ==
  IF Len(kept) >= depth /\ PathLen(Append(kept, 0)) <= buflen THEN Append(kept, name) ELSE kept

\* the loop of fdt_get_path, at the node r.off with the path so far
PathTo(names, depth) ==
  IF Len(names) < depth + 1 THEN [err |-> Err.NOSPACE, names |-> <<>>] ELSE [err |-> 0, names |-> Tail(names)]

PathFrom(b, node, buflen) ==
  LET from[r \in Place, names \in Seq(Nat)] ==
        LET more == Extended(Kept(names, r.depth), r.depth, At(b, r.off + 1), buflen)
        IN  IF r.off < 0 \/ r.off > node THEN [err |-> NotMet(r.off), names |-> <<>>]
            ELSE IF r.off = node THEN PathTo(more, r.depth)
            ELSE from[fdt_next_node(b, r.off, r.depth, TRUE), more]
  IN  from

PathIn(b, node, buflen, header) ==
  IF header # 0 THEN [err |-> header, names |-> <<>>]
  ELSE IF buflen < 2 THEN [err |-> Err.NOSPACE, names |-> <<>>]
  ELSE PathFrom(b, node, buflen)[Reached(0, 0), <<>>]
fdt_get_path(b, node, buflen) == PathIn(b, node, buflen, fdt_check_header(b))

\* [off, depth]: the supernode and *nodedepth
SupernodeFrom(b, node, at) ==
  LET from[r \in Place, super \in Int] ==
        LET here == IF r.depth = at THEN r.off ELSE super
        IN  IF r.off < 0 \/ r.off > node THEN Reached(NotMet(r.off), 0)
            ELSE IF r.off # node THEN from[fdt_next_node(b, r.off, r.depth, TRUE), here]
            ELSE Reached(IF at > r.depth THEN Err.NOTFOUND ELSE here, r.depth)
  IN  from

SupernodeIn(b, node, at, header) ==
  IF header # 0 THEN Reached(header, 0)
  ELSE IF at < 0 THEN Reached(Err.NOTFOUND, 0)
  ELSE SupernodeFrom(b, node, at)[Reached(0, 0), Err.INTERNAL]
fdt_supernode_atdepth_offset(b, node, at) == SupernodeIn(b, node, at, fdt_check_header(b))

DepthIn(r) == IF r.off = 0 THEN r.depth ELSE IF r.off < 0 THEN r.off ELSE Err.INTERNAL
fdt_node_depth(b, node) == DepthIn(fdt_supernode_atdepth_offset(b, node, 0))

ParentIn(b, node, depth) == After(depth, fdt_supernode_atdepth_offset(b, node, depth - 1).off)
fdt_parent_offset(b, node) == ParentIn(b, node, fdt_node_depth(b, node))

\* the firmware's memcmp of no bytes is never 0
ByPropFrom(b, name, data) ==
  LET from[off \in Int] ==
        IF off < 0 \/ (data # <<>> /\ fdt_getprop(b, off, name) = [len |-> Len(data), data |-> data])
          THEN off ELSE from[NextNode(b, off)]
  IN  from

fdt_node_offset_by_prop_value(b, start, name, data) ==
  After(fdt_check_header(b), ByPropFrom(b, name, data)[NextNode(b, start)])

ByPhandleFrom(b, p) ==
  LET from[off \in Int] ==
        IF off < 0 \/ fdt_get_phandle(b, off) = p THEN off ELSE from[NextNode(b, off)]
  IN  from

fdt_node_offset_by_phandle(b, p) ==
  IF p \in {0, -1} THEN Err.BADPHANDLE
  ELSE After(fdt_check_header(b), ByPhandleFrom(b, p)[NextNode(b, -1)])

ByCompatibleFrom(b, s) ==
  LET from[off \in Int] ==
        LET err == fdt_node_check_compatible(b, off, s)
        IN  IF off < 0 \/ err = 0 THEN off
            ELSE IF err < 0 /\ err # Err.NOTFOUND THEN err
            ELSE from[NextNode(b, off)]
  IN  from

fdt_node_offset_by_compatible(b, start, s) ==
  After(fdt_check_header(b), ByCompatibleFrom(b, s)[NextNode(b, start)])
=============================================================================
