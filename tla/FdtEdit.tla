------------------------------- MODULE FdtEdit -------------------------------
(***************************************************************************)
(* The writers of libfdt: a client builds a tree front to back (fdt_sw.c), *)
(* then edits it at random (fdt_rw.c) or in place (fdt_wip.c).  Each call  *)
(* is one action, and may fail.                                            *)
(*                                                                         *)
(* Beside the blob runs the tree that the calls that succeeded describe:   *)
(* its nodes in preorder, each with its depth, name and properties.        *)
(***************************************************************************)
EXTENDS Fdt, FiniteSets

CONSTANTS
  Buffers,         \* sizes of the buffers a client passes
  Names,           \* names it gives to nodes
  Props, Values,   \* properties and values it sets
  Reserves,        \* entries it adds to the reserve map
  MaxNodes,        \* nodes of a tree it builds
  Given            \* blobs from elsewhere, with the trees they hold

ASSUME ClientAssumption ==
  /\ Buffers \subseteq Nat /\ Names \subseteq Name \ {0} /\ Props \subseteq Nat
  /\ Values \subseteq Seq(Nat) /\ Reserves \subseteq Nat \X (Nat \ {0}) /\ MaxNodes \in Nat

VARIABLES
  b,        \* the blob
  cap,      \* the size of the buffer it is in
  tree,     \* what the calls say the blob holds
  maps,     \* ... and its reserve map says
  open,     \* how many fdt_begin_node wait for their fdt_end_node;
            \* -1: neither the reserve map is finished nor a node begun
  astray    \* what the client did that the library lets pass: "shrunk", a
            \* resize to less than the structure block needs; "early", a node
            \* begun before the reserve map was finished

fdtVars == <<b, cap, tree, maps, open, astray>>

HeaderWords == 10          \* sizeof(struct fdt_header)
RsvStart == 12             \* ... padded to sizeof(struct fdt_reserve_entry)
RsvWords == 4              \* sizeof(struct fdt_reserve_entry)

Node(depth, name) == [depth |-> depth, name |-> name, props |-> <<>>]
Prop(name, data) == [name |-> name, data |-> data]
InsertAt(s, i, t) == SubSeq(s, 1, i) \o t \o SubSeq(s, i + 1, Len(s))

\* a call: its result, the blob it leaves, the tree it means to leave
Call(r, t) ==
  /\ b' = r.b
  /\ tree' = IF r.err < 0 THEN tree ELSE t

Ret(err, blob) == [err |-> err, b |-> blob]

NoBlob == [magic |-> "bad", version |-> 17, comp |-> 16, total |-> 0, off_rsv |-> 0,
           off_struct |-> 0, off_strings |-> 0, rsv |-> <<>>, st |-> <<>>, strs |-> <<>>]

\* a blob from elsewhere is in its buffer and reserves nothing; its strings may
\* come before its structure block
ASSUME GivenAssumption ==
  \A g \in Given :
    /\ g.b \in Blob /\ g.b.magic = "fdt" /\ g.b.off_strings + Len(g.b.strs) <= g.b.total
    /\ g.b.rsv # <<>> /\ g.b.rsv[1][2] = 0
    /\ g.b.off_strings >= g.b.off_struct =>
         /\ g.b.off_rsv >= HeaderWords /\ g.b.off_rsv + RsvWords <= g.b.off_struct
         /\ g.b.off_struct + Len(g.b.st) <= g.b.off_strings

InitFdt ==
  /\ astray = {}
  /\ \/ b = NoBlob /\ cap = 0 /\ tree = <<>> /\ maps = <<>> /\ open = -1
     \/ \E g \in Given : b = g.b /\ cap = g.b.total /\ tree = g.tree /\ maps = <<>> /\ open = 0

-----------------------------------------------------------------------------
(* fdt_sw.c                                                                 *)

fdt_create(size) ==
  IF size < HeaderWords THEN Ret(Err.NOSPACE, b)
  ELSE Ret(0, [NoBlob EXCEPT !.magic = "sw", !.total = size, !.off_rsv = RsvStart,
                             !.off_struct = RsvStart, !.off_strings = size])

Create(size) ==
  /\ b.magic = "bad"
  /\ cap' = size
  /\ Call(fdt_create(size), <<>>)
  /\ UNCHANGED <<maps, open, astray>>

Needs(blob) == blob.off_struct + Len(blob.st) + Len(blob.strs)

\* the structure block once the strings are copied to the end of a buffer of
\* the given size, over the words that are there
Overlaid(blob, size) ==
  LET place(i) == blob.off_struct + i - (size - Len(blob.strs))
  IN  [i \in DOMAIN blob.st |->
         IF place(i) \in 1 .. Len(blob.strs) THEN blob.strs[place(i)] ELSE blob.st[i]]

\* in place; the structure block is not asked for
fdt_resize(blob, size) ==
  IF blob.off_struct + Len(blob.strs) > size THEN Ret(Err.NOSPACE, blob)
  ELSE Ret(0, [blob EXCEPT !.st = Overlaid(blob, size), !.off_strings = size, !.total = size])

Resize(size) ==
  /\ b.magic = "sw"
  /\ Call(fdt_resize(b, size), tree)
  /\ \/ /\ fdt_resize(b, size).err < 0
        /\ UNCHANGED <<cap, astray>>
     \/ /\ fdt_resize(b, size).err = 0
        /\ cap' = size
        /\ astray' = IF Needs(b) > size THEN astray \cup {"shrunk"} ELSE astray
  /\ UNCHANGED <<maps, open>>

ReserveEntry(blob, e) ==
  CASE Len(blob.st) # 0 -> Ret(Err.BADSTATE, blob)
    [] Len(blob.st) = 0 /\ blob.off_struct + RsvWords > blob.total -> Ret(Err.NOSPACE, blob)
    [] OTHER -> Ret(0, [blob EXCEPT !.rsv = Append(@, e), !.off_struct = @ + RsvWords])

\* an entry behind the one that ends the map is not in it
AddReserve(e) ==
  /\ b.magic = "sw"
  /\ Call(ReserveEntry(b, e), tree)
  /\ maps' = IF ReserveEntry(b, e).err < 0 \/ open # -1 THEN maps ELSE Append(maps, e)
  /\ UNCHANGED <<cap, open, astray>>

FinishReserve ==
  /\ b.magic = "sw"
  /\ Call(ReserveEntry(b, <<0, 0>>), tree)
  /\ open' = IF ReserveEntry(b, <<0, 0>>).err < 0 THEN open ELSE 0
  /\ UNCHANGED <<cap, maps, astray>>

\* _fdt_grab_space and the words written to it.  What is left is an int and is
\* compared as a size_t: when there is less than nothing, everything fits.
Grab(blob, words) ==
  LET left == blob.total - blob.off_struct - Len(blob.strs)
  IN  IF left >= 0 /\ Len(blob.st) + Len(words) > left
        THEN Ret(Err.NOSPACE, blob)
        ELSE Ret(0, [blob EXCEPT !.st = @ \o words])

\* a tree has one root, without a name
BeginNode(n) ==
  /\ b.magic = "sw" /\ Len(tree) < MaxNodes
  /\ IF b.st = <<>> THEN n = 0 ELSE n # 0 /\ open > 0
  /\ \E r \in {Grab(b, <<FDT_BEGIN_NODE, n>>)}, depth \in {IF open > 0 THEN open ELSE 0} :
       /\ Call(r, Append(tree, Node(depth, n)))
       /\ open' = IF r.err < 0 THEN open ELSE depth + 1
       /\ astray' = IF r.err = 0 /\ open = -1 THEN astray \cup {"early"} ELSE astray
  /\ UNCHANGED <<cap, maps>>

EndNode ==
  /\ b.magic = "sw" /\ open > 0
  /\ Call(Grab(b, <<FDT_END_NODE>>), tree)
  /\ open' = IF Grab(b, <<FDT_END_NODE>>).err < 0 THEN open ELSE open - 1
  /\ UNCHANGED <<cap, maps, astray>>

\* _fdt_find_add_string of fdt_sw.c: 0 when there is no room
SwString(blob, s) ==
  CASE fdt_find_string(blob, s) # 0 -> Ret(fdt_find_string(blob, s) - 1 - Len(blob.strs), blob)
    [] fdt_find_string(blob, s) = 0
       /\ blob.total - Len(blob.strs) - 1 < blob.off_struct + Len(blob.st) -> Ret(0, blob)
    [] OTHER -> Ret(- Len(blob.strs) - 1, [blob EXCEPT !.strs = <<s>> \o @])

fdt_property(blob, name, data) ==
  LET s == SwString(blob, name)
  IN  IF s.err = 0 THEN Ret(Err.NOSPACE, blob)
      ELSE Grab(s.b, <<FDT_PROP, Len(data), s.err % WordSpace>> \o data)

\* properties come before subnodes
Property(name, data) ==
  /\ b.magic = "sw" /\ open > 0 /\ tree[Len(tree)].depth = open - 1
  /\ \A p \in 1 .. Len(tree[Len(tree)].props) : tree[Len(tree)].props[p].name # name
  /\ Call(fdt_property(b, name, data),
          [tree EXCEPT ![Len(tree)].props = Append(@, Prop(name, data))])
  /\ UNCHANGED <<cap, maps, open, astray>>

\* the walk of fdt_finish: the offsets of all PROP tokens of a blob, and what
\* the token that ends it returned
PropsFrom(blob) ==
  LET from[off \in Nat] ==
        LET t == fdt_next_tag(blob, off)
        IN  IF t.tag = FDT_END THEN {} ELSE from[t.next] \cup (IF t.tag = FDT_PROP THEN {off} ELSE {})
  IN  from

TokensEnd(blob) ==
  LET from[off \in Nat] ==
        LET t == fdt_next_tag(blob, off) IN IF t.tag = FDT_END THEN t.next ELSE from[t.next]
  IN  from

\* the string table moves down behind the structure block, and the offsets
\* of the names, so far counted from its end, are counted from its start
fdt_finish(blob) ==
  LET g == Grab(blob, <<FDT_END>>)
      top == g.b.off_struct + Len(g.b.st)
      names == {off + 3 : off \in PropsFrom(g.b)[0]}
      end == TokensEnd(g.b)[0]
      moved == [g.b EXCEPT !.off_strings = top,
                           !.st = [i \in DOMAIN @ |-> IF i \in names THEN (@[i] + Len(g.b.strs)) % WordSpace ELSE @[i]]]
  IN  IF g.err < 0 THEN g
      ELSE IF end < 0 THEN Ret(end, moved)
      ELSE Ret(0, [moved EXCEPT !.magic = "fdt", !.total = top + Len(g.b.strs)])

Finish ==
  /\ b.magic = "sw" /\ open = 0 /\ Len(b.st) > 0
  /\ Call(fdt_finish(b), tree)
  /\ UNCHANGED <<cap, maps, open, astray>>

-----------------------------------------------------------------------------
(* fdt_rw.c                                                                 *)

MemRsvSize(blob) == (fdt_num_mem_rsv(blob) + 1) * RsvWords

fdt_blocks_misordered(blob, rsvsize) ==
  \/ blob.off_rsv < HeaderWords
  \/ blob.off_struct < blob.off_rsv + rsvsize
  \/ blob.off_strings < blob.off_struct + Len(blob.st)
  \/ blob.total < blob.off_strings + Len(blob.strs)

fdt_rw_check_header(blob) ==
  CASE fdt_check_header(blob) # 0 -> fdt_check_header(blob)
    [] fdt_check_header(blob) = 0 /\ blob.version < 17 -> Err.BADVERSION
    [] fdt_check_header(blob) = 0 /\ blob.version >= 17 /\ fdt_blocks_misordered(blob, RsvWords) -> Err.BADLAYOUT
    [] OTHER -> 0

DataSize(blob) == blob.off_strings + Len(blob.strs)

\* mutant: whether there is room is not asked
SpliceUnchecked(blob, p, old, new) == IF p + old > DataSize(blob) THEN Err.BADOFFSET ELSE 0

\* _fdt_splice: may the old words at p be replaced by new ones?
fdt_splice(blob, p, old, new) ==
  IF p + old > DataSize(blob) THEN Err.BADOFFSET
  ELSE IF DataSize(blob) - old + new > blob.total THEN Err.NOSPACE ELSE 0

\* _fdt_splice_mem_rsv: the entries from n on, old of them replaced by new
SpliceRsv(blob, n, old, new) ==
  LET e == fdt_splice(blob, blob.off_rsv + n * RsvWords, old * RsvWords, Len(new) * RsvWords)
      delta == (Len(new) - old) * RsvWords
  IN  IF e < 0 THEN Ret(e, blob)
      ELSE Ret(0, [blob EXCEPT !.rsv = SubSeq(@, 1, n) \o new \o SubSeq(@, n + old + 1, Len(@)),
                               !.off_struct = @ + delta, !.off_strings = @ + delta])

\* _fdt_splice_struct and what its callers then write in the gap
SpliceStruct(blob, off, old, new) ==
  LET e == fdt_splice(blob, blob.off_struct + off, old, Len(new))
  IN  IF e < 0 THEN Ret(e, blob)
      ELSE Ret(0, [blob EXCEPT !.st = SubSeq(@, 1, off) \o new \o SubSeq(@, off + old + 1, Len(@)),
                               !.off_strings = @ + Len(new) - old])

\* _fdt_find_add_string of fdt_rw.c, with _fdt_splice_string
RwString(blob, s) ==
  LET e == fdt_splice(blob, DataSize(blob), 0, 1)
  IN  CASE fdt_find_string(blob, s) # 0 -> Ret(fdt_find_string(blob, s) - 1, blob)
        [] fdt_find_string(blob, s) = 0 /\ e < 0 -> Ret(e, blob)
        [] OTHER -> Ret(Len(blob.strs), [blob EXCEPT !.strs = Append(@, s)])

\* after the header check of every function of fdt_rw.c, which makes a blob of
\* a later version one of version 17
Checked(blob, r) ==
  IF fdt_rw_check_header(blob) # 0 THEN Ret(fdt_rw_check_header(blob), blob)
  ELSE Ret(r.err, [r.b EXCEPT !.version = 17])

fdt_add_mem_rsv(e) == Checked(b, SpliceRsv(b, fdt_num_mem_rsv(b), 0, <<e>>))

fdt_del_mem_rsv(n) ==
  Checked(b, IF n >= fdt_num_mem_rsv(b) THEN Ret(Err.NOTFOUND, b) ELSE SpliceRsv(b, n, 1, <<>>))

fdt_set_name(node, name) ==
  Checked(b, IF fdt_get_name(b, node) < 0 THEN Ret(fdt_get_name(b, node), b)
             ELSE SpliceStruct(b, node + 1, 1, <<name>>))

\* _fdt_resize_property of the property at p, and the value its caller copies
WithLen(r, p, len) == IF r.err < 0 THEN r ELSE Ret(0, [r.b EXCEPT !.st[p + 2] = len])
ResizeAt(p, data) ==
  IF p < 0 THEN Ret(p, b) ELSE WithLen(SpliceStruct(b, p + 3, PropLen(b, p), data), p, Len(data))

ResizeProperty(node, name, data) ==
  ResizeAt(fdt_get_property(b, node, name), data)

\* _fdt_add_property: the name stays in the table when the splice fails
AddAt(off, s, data) ==
  IF off < 0 THEN Ret(off, b)
  ELSE IF s.err < 0 THEN s
  ELSE SpliceStruct(s.b, off, 0, <<FDT_PROP, Len(data), s.err>> \o data)

AddProperty(node, name, data) ==
  AddAt(fdt_check_node_offset(b, node), RwString(b, name), data)

\* unless the error is that there is none
IfAbsent(r, add) == IF r.err = Err.NOTFOUND THEN add ELSE r

fdt_setprop(node, name, data) ==
  Checked(b, IfAbsent(ResizeProperty(node, name, data), AddProperty(node, name, data)))

AppendAt(p, data, add) == IF p >= 0 THEN ResizeAt(p, PropData(b, p) \o data) ELSE add

fdt_appendprop(node, name, data) ==
  Checked(b, AppendAt(fdt_get_property(b, node, name), data, AddProperty(node, name, data)))

DelAt(p) == IF p < 0 THEN Ret(p, b) ELSE SpliceStruct(b, p, 3 + PropLen(b, p), <<>>)

fdt_delprop(node, name) == Checked(b, DelAt(fdt_get_property(b, node, name)))

\* the offset behind the properties of a node
AfterProps(blob) ==
  LET from[off \in Nat] ==
        LET t == fdt_next_tag(blob, off)
        IN  IF t.tag \in {FDT_PROP, FDT_NOP} THEN from[t.next] ELSE off
  IN  from

\* fdt_add_subnode_namelen; the C returns the new node's offset
fdt_add_subnode(parent, name) ==
  LET o == fdt_subnode_offset(b, parent, name)
  IN  Checked(b, IF o >= 0 THEN Ret(Err.EXISTS, b)
                 ELSE IF o # Err.NOTFOUND THEN Ret(o, b)
                 ELSE SpliceStruct(b, AfterProps(b)[fdt_next_tag(b, parent).next], 0,
                                   <<FDT_BEGIN_NODE, name, FDT_END_NODE>>))

NodeEndFrom(blob) ==
  LET from[r \in Place] ==
        IF r.off < 0 \/ r.depth < 0 THEN r.off ELSE from[fdt_next_node(blob, r.off, r.depth, TRUE)]
  IN  from

\* _fdt_node_end_offset (fdt_wip.c)
fdt_node_end_offset(blob, node) == NodeEndFrom(blob)[Reached(node, 0)]

fdt_del_node(node) ==
  LET end == fdt_node_end_offset(b, node)
  IN  Checked(b, IF end < 0 THEN Ret(end, b) ELSE SpliceStruct(b, node, end - node, <<>>))

\* _fdt_packblocks: the blocks one behind the other
Packed(blob) ==
  LET top == HeaderWords + MemRsvSize(blob)
  IN  [blob EXCEPT !.off_rsv = HeaderWords, !.off_struct = top,
                   !.off_strings = top + Len(blob.st),
                   !.rsv = SubSeq(@, 1, fdt_num_mem_rsv(blob) + 1)]

\* where the structure block ends; before version 17 it is walked through
StructEnd(blob) == IF blob.version >= 17 THEN Len(blob.st) ELSE TokensEnd(blob)[0]

\* overlap: the new buffer is the one the tree is in
fdt_open_into(blob, size, overlap) ==
  LET p == Packed(blob)
      newsize == DataSize(p)
  IN  CASE fdt_check_header(blob) # 0 -> Ret(fdt_check_header(blob), blob)
        [] fdt_check_header(blob) = 0 /\ StructEnd(blob) < 0 -> Ret(StructEnd(blob), blob)
        [] fdt_check_header(blob) = 0 /\ StructEnd(blob) >= 0 /\ ~ fdt_blocks_misordered(blob, MemRsvSize(blob)) ->
             IF blob.total > size THEN Ret(Err.NOSPACE, blob)
             ELSE Ret(0, [blob EXCEPT !.version = 17, !.total = size])
        [] OTHER ->
             IF size < newsize \/ (overlap /\ blob.total + newsize > size) THEN Ret(Err.NOSPACE, blob)
             ELSE Ret(0, [p EXCEPT !.version = 17, !.comp = 16, !.total = size])

fdt_pack == Checked(b, Ret(0, [Packed(b) EXCEPT !.total = DataSize(Packed(b))]))

\* a call on the blob that the one before it left, if that succeeded
Then(r, F(_)) == IF r.err < 0 THEN r ELSE F(r.b)

\* fdt_create_empty_tree (fdt_empty_tree.c)
EmptyTree(size) ==
  LET Reserve(blob) == ReserveEntry(blob, <<0, 0>>)
      Begin(blob) == Grab(blob, <<FDT_BEGIN_NODE, 0>>)
      End(blob) == Grab(blob, <<FDT_END_NODE>>)
      Open(blob) == fdt_open_into(blob, size, TRUE)
  IN  Then(Then(Then(Then(Then(fdt_create(size), Reserve), Begin), End), fdt_finish), Open)

-----------------------------------------------------------------------------
(* The client's calls on a finished tree                                    *)

\* offset of the k-th node, as fdt_next_node finds it
NthNode(blob, k) ==
  LET nth[i \in Nat] == IF i = 0 THEN -1 ELSE NextNode(blob, nth[i - 1]) IN nth[k]

\* calls on a finished blob that went astray are not in the model: they read
\* words that were overwritten, or a reserve map without an end
Finished == b.magic = "fdt" /\ astray = {}
PropAt(k, name) == {p \in 1 .. Len(tree[k].props) : tree[k].props[p].name = name}
\* the nodes below node k, which follow it
Below(k) == {j \in k + 1 .. Len(tree) : \A i \in k + 1 .. j : tree[i].depth > tree[k].depth}
Without(s, dead) == SelectSeq([i \in 1 .. Len(s) |-> [at |-> i, it |-> s[i]]], LAMBDA x : x.at \notin dead)
Keep(s, dead) == [i \in 1 .. Len(Without(s, dead)) |-> Without(s, dead)[i].it]

SetTo(k, name, data) ==
  IF PropAt(k, name) = {}
    THEN [tree EXCEPT ![k].props = <<Prop(name, data)>> \o @]
    ELSE LET p == CHOOSE q \in PropAt(k, name) : TRUE IN [tree EXCEPT ![k].props[p].data = data]
Old(k, name) == IF PropAt(k, name) = {} THEN <<>>
                ELSE tree[k].props[CHOOSE q \in PropAt(k, name) : TRUE].data

\* a step that fails leaves the unfinished blob of those before it
CreateEmptyTree(size) ==
  /\ b.magic = "bad"
  /\ \E r \in {EmptyTree(size)} :
       /\ b' = r.b
       /\ tree' = IF r.b.st = <<>> THEN tree ELSE <<Node(0, 0)>>
       /\ cap' = IF r.b.magic = "bad" THEN cap ELSE size
       /\ open' = IF r.b.rsv = <<>> THEN open ELSE IF Len(r.b.st) = 2 THEN 1 ELSE 0
  /\ UNCHANGED <<maps, astray>>

OpenInto(size, overlap) ==
  /\ Finished
  /\ Call(fdt_open_into(b, size, overlap), tree)
  /\ cap' = IF fdt_open_into(b, size, overlap).err < 0 THEN cap ELSE size
  /\ UNCHANGED <<maps, open, astray>>

Pack ==
  /\ Finished
  /\ Call(fdt_pack, tree)
  /\ UNCHANGED <<cap, maps, open, astray>>

\* fdt_move to a smaller buffer and back: a copy
Move(size) ==
  /\ b.magic = "fdt"
  /\ Call(Ret(IF b.total > size THEN Err.NOSPACE ELSE 0, b), tree)
  /\ cap' = IF b.total > size THEN cap ELSE size
  /\ UNCHANGED <<maps, open, astray>>

AddMemRsv(e) ==
  /\ Finished
  /\ Call(fdt_add_mem_rsv(e), tree)
  /\ maps' = IF fdt_add_mem_rsv(e).err < 0 THEN maps ELSE Append(maps, e)
  /\ UNCHANGED <<cap, open, astray>>

DelMemRsv(n) ==
  /\ Finished
  /\ Call(fdt_del_mem_rsv(n), tree)
  /\ maps' = IF fdt_del_mem_rsv(n).err < 0 THEN maps
             ELSE SubSeq(maps, 1, n) \o SubSeq(maps, n + 2, Len(maps))
  /\ UNCHANGED <<cap, open, astray>>

EditNode(k) ==
  \E off \in {NthNode(b, k)} \cap Nat :
      \/ \E n \in Names :
           \/ k > 1 /\ Call(fdt_set_name(off, n), [tree EXCEPT ![k].name = n])
           \/ Call(fdt_add_subnode(off, n), InsertAt(tree, k, <<Node(tree[k].depth + 1, n)>>))
      \/ k > 1 /\ Call(fdt_del_node(off), Keep(tree, {k} \cup Below(k)))
      \/ \E p \in Props, v \in Values :
           \/ Call(fdt_setprop(off, p, v), SetTo(k, p, v))
           \/ Len(Old(k, p)) < 2 /\ Call(fdt_appendprop(off, p, v), SetTo(k, p, Old(k, p) \o v))
      \/ \E p \in Props :
           Call(fdt_delprop(off, p), [tree EXCEPT ![k].props = Keep(@, PropAt(k, p))])

\* fdt_wip.c: words written over what is at an offset
Over(at, new) == [b EXCEPT !.st = SubSeq(@, 1, at) \o new \o SubSeq(@, at + Len(new) + 1, Len(@))]
Nops(n) == [i \in 1 .. n |-> FDT_NOP]

fdt_setprop_inplace(node, name, data) ==
  LET p == fdt_get_property(b, node, name)
  IN  IF p < 0 THEN Ret(p, b)
      ELSE IF PropLen(b, p) # Len(data) THEN Ret(Err.NOSPACE, b) ELSE Ret(0, Over(p + 3, data))

\* mutant: the value of the property is left
NopPropertyValueLeft(node, name) ==
  LET p == fdt_get_property(b, node, name)
  IN  IF p < 0 THEN Ret(p, b) ELSE Ret(0, Over(p, Nops(3)))

fdt_nop_property(node, name) ==
  LET p == fdt_get_property(b, node, name)
  IN  IF p < 0 THEN Ret(p, b) ELSE Ret(0, Over(p, Nops(3 + PropLen(b, p))))

fdt_nop_node(node) ==
  LET end == fdt_node_end_offset(b, node)
  IN  IF end < 0 THEN Ret(end, b) ELSE Ret(0, Over(node, Nops(end - node)))

Inplace(k) ==
  \E off \in {NthNode(b, k)} \cap Nat :
      \/ \E p \in Props, v \in Values : Call(fdt_setprop_inplace(off, p, v), SetTo(k, p, v))
      \/ \E p \in Props :
           Call(fdt_nop_property(off, p), [tree EXCEPT ![k].props = Keep(@, PropAt(k, p))])
      \/ k > 1 /\ Call(fdt_nop_node(off), Keep(tree, {k} \cup Below(k)))

Edit ==
  /\ Finished
  /\ \E k \in 1 .. Len(tree) : EditNode(k) \/ Inplace(k)
  /\ UNCHANGED <<cap, maps, open, astray>>

NextFdt ==
  \/ \E size \in Buffers : Create(size) \/ Resize(size) \/ CreateEmptyTree(size) \/ Move(size)
  \/ \E size \in Buffers, overlap \in BOOLEAN : OpenInto(size, overlap)
  \/ \E e \in Reserves : AddReserve(e) \/ AddMemRsv(e)
  \/ FinishReserve \/ EndNode \/ Finish \/ Pack \/ Edit
  \/ \E n \in Names \cup {0} : BeginNode(n)
  \/ \E p \in Props, v \in Values : Property(p, v)
  \/ \E n \in 0 .. 1 : DelMemRsv(n)

SpecFdt == InitFdt /\ [][NextFdt]_fdtVars
-----------------------------------------------------------------------------
(* The tree as the iterators of the library show it                         *)

ReadProps ==
  LET from[off \in Int] ==
        IF off < 0 THEN <<>>
        ELSE <<Prop(fdt_getprop_by_offset(b, off).name, fdt_getprop_by_offset(b, off).data)>>
             \o from[fdt_next_property_offset(b, off)]
  IN  from

ReadFrom ==
  LET from[r \in Place] ==
        IF r.off < 0 \/ r.depth < 0 THEN <<>>
        ELSE <<[depth |-> r.depth, name |-> fdt_get_name(b, r.off),
                props |-> ReadProps[fdt_first_property_offset(b, r.off)]]>>
             \o from[fdt_next_node(b, r.off, r.depth, TRUE)]
  IN  from

\* what can be read is what was written
Readable == b.magic = "fdt" /\ "shrunk" \notin astray

\* ... is the tree the calls describe
IteratorsAgree == Readable => ReadFrom[Reached(NextNode(b, -1), 0)] = tree

\* the reserve map has exactly the entries added to it
ReservesKept ==
  /\ fdt_num_mem_rsv(b) = Len(maps)
  /\ \A i \in 1 .. Len(maps) : fdt_get_mem_rsv(b, i - 1) = maps[i]

(***************************************************************************)
(* The blocks of a blob do not overlap and do not leave the buffer,        *)
(* whatever the calls put in or took out, in the unfinished state with the *)
(* strings at the buffer's end as well; and the reserve map has exactly    *)
(* the entries added to it.  Two things the client may do, and is not      *)
(* told of, break this: a fdt_resize that asks for less than the           *)
(* structure block needs, and nodes in a buffer shorter than the padded    *)
(* header.  After the first no call but another resize succeeds, and a     *)
(* tree that is finished is in its buffer again.                           *)
(***************************************************************************)
BlocksFit ==
  /\ b.magic # "bad" /\ cap >= RsvStart => b.total <= cap
  /\ b.magic = "sw" /\ cap >= RsvStart =>
       /\ b.off_struct + Len(b.strs) <= b.total
       /\ "shrunk" \in astray \/ Needs(b) <= b.total
  /\ b.magic = "fdt" => DataSize(b) <= b.total
  /\ b.magic = "fdt" /\ b.off_strings >= b.off_struct => b.off_struct + Len(b.st) <= b.off_strings
  /\ Finished => ReservesKept
  /\ Finished /\ b.off_strings >= b.off_struct =>
       b.off_rsv >= HeaderWords /\ b.off_rsv + RsvWords * (Len(maps) + 1) <= b.off_struct

-----------------------------------------------------------------------------
(* Reference definitions of the lookups, on the tree                        *)

Kids(k) == {j \in Below(k) : tree[j].depth = tree[k].depth + 1}
Named(j, n) == tree[j].name = n \/ (NoUnit[n] = n /\ NoUnit[tree[j].name] = n)
First(S) == IF S = {} THEN 0 ELSE CHOOSE i \in S : \A j \in S : i <= j
KidNamed(k, n) == First({j \in Kids(k) : Named(j, n)})
ParentOf(k) == CHOOSE j \in 1 .. k - 1 : k \in Kids(j)
PathOf(k) ==
  LET to[j \in Nat] == IF j = 1 THEN <<>> ELSE Append(to[ParentOf(j)], tree[j].name) IN to[k]
AtPath(k, path) ==
  LET at[j \in Nat, p \in Seq(Nat)] ==
        IF p = <<>> \/ j = 0 THEN j ELSE at[KidNamed(j, Head(p)), Tail(p)]
  IN  at[k, path]

\* offset of node k, NOTFOUND for 0
Off(k) == IF k = 0 THEN Err.NOTFOUND ELSE NthNode(b, k)
Has(k, name, data) == \E p \in PropAt(k, name) : tree[k].props[p].data = data
CellIn(k, name) == IF PropAt(k, name) # {} /\ Len(Old(k, name)) = 1 THEN Old(k, name)[1] ELSE 0
HandleOf(k) == IF CellIn(k, Phandle) # 0 THEN CellIn(k, Phandle) ELSE CellIn(k, LinuxPhandle)
\* the words at which strings of a list begin
Begins(d) == {i \in DOMAIN d : i = 1 \/ d[i - 1] # Unterminated}
Strings(k) == {Old(k, Compatible)[i] : i \in Begins(Old(k, Compatible))}
Ended(d) == d = <<>> \/ d[Len(d)] # Unterminated
Before(d, i) == Cardinality({j \in Begins(d) : j < i})
Cells(k, name, least) ==
  IF PropAt(k, name) = {} THEN 2
  ELSE IF Len(Old(k, name)) = 1 /\ Old(k, name)[1] \in least .. 4 THEN Old(k, name)[1]
  ELSE Err.BADNCELLS

\* typed reads of the properties of node k
ValuesAgree(k) ==
  LET off == Off(k)
      st == Old(k, Status)
  IN  /\ fdt_get_status(b, off) = (IF st # <<>> /\ st[1] # Disabled THEN 1 ELSE 0)
      /\ fdt_address_cells(b, off) = Cells(k, AddressCells, 1)
      /\ fdt_size_cells(b, off) = Cells(k, SizeCells, 0)
      /\ \A p \in {tree[k].props[i].name : i \in 1 .. Len(tree[k].props)} :
           LET d == Old(k, p) IN
           /\ fdt_stringlist_count(b, off, p) = (IF Ended(d) THEN Cardinality(Begins(d)) ELSE Err.BADVALUE)
           /\ \A i \in Begins(d) :
                d[i] # Unterminated => /\ fdt_stringlist_get(b, off, p, Before(d, i)) = <<d[i]>>
                                       /\ fdt_stringlist_search(b, off, p, d[i])
                                            = Before(d, First({j \in Begins(d) : d[j] = d[i]}))
           /\ fdt_getprop_u32(b, off, p) = (IF d = <<>> THEN Err.INTERNAL ELSE Len(d))
           /\ fdt_get_u32_array(b, off, p, 1) = (IF Len(d) = 1 THEN 0 ELSE Err.BADLAYOUT)
           /\ fdt_getprop_string(b, off, p) = Len(d)
           /\ \A a \in DOMAIN AliasPath :
                PathOf(k) = <<Aliases>> /\ d = <<a>> =>
                  \A n \in Names :
                    LET j == AtPath(1, AliasPath[a])
                    IN  AliasOffset(b, p, <<n>>) = Off(IF j = 0 THEN 0 ELSE KidNamed(j, n))

\* every lookup agrees with its definition on the tree: children by name
\* with and without unit address, paths there and back, parents, depths
\* and siblings, properties, and the searches by property, phandle and
\* compatible string, which return the first match in tree order; an empty
\* value is never found.  A buffer one character too short for a path is
\* refused.
LookupsAgree ==
  Readable =>
    /\ \A k \in 1 .. Len(tree) :
         LET off == Off(k) IN
         /\ \A n \in Name : fdt_subnode_offset(b, off, n) = Off(KidNamed(k, n))
         /\ fdt_path_offset(b, PathOf(k)) = Off(AtPath(1, PathOf(k)))
         /\ fdt_get_path(b, off, 2 * Len(PathOf(k)) + 2) = [err |-> 0, names |-> PathOf(k)]
         /\ fdt_get_path(b, off, 2 * Len(PathOf(k))).err = Err.NOSPACE
         /\ fdt_node_depth(b, off) = tree[k].depth
         /\ fdt_parent_offset(b, off) = (IF k = 1 THEN Err.NOTFOUND ELSE Off(ParentOf(k)))
         /\ fdt_first_subnode(b, off) = Off(First(Kids(k)))
         /\ k > 1 => fdt_next_subnode(b, off) = Off(First({j \in Kids(ParentOf(k)) : j > k}))
         /\ \A p \in Props : /\ fdt_getprop(b, off, p).data = Old(k, p)
                             /\ (fdt_getprop(b, off, p).len < 0) = (PropAt(k, p) = {})
         /\ \A p \in Props, v \in Values :
              fdt_node_offset_by_prop_value(b, off, p, v)
                = Off(First({j \in k + 1 .. Len(tree) : v # <<>> /\ Has(j, p, v)}))
         /\ \A s \in {v[1] : v \in Values \ {<<>>}} :
              fdt_node_offset_by_compatible(b, off, s)
                = Off(First({j \in k + 1 .. Len(tree) : s \in Strings(j)}))
    /\ \A k \in 1 .. Len(tree) : ValuesAgree(k)
    /\ \A h \in {v[1] : v \in Values \ {<<>>}} :
         fdt_node_offset_by_phandle(b, h) = Off(First({k \in 1 .. Len(tree) : HandleOf(k) = h}))


(***************************************************************************)
(* A structure block cut short anywhere shows nothing that the whole block *)
(* does not have: a property that is found ends inside it, and a child     *)
(* that is found is the child the whole block has; the rest is an error.   *)
(***************************************************************************)
CutIsSafe ==
  Finished /\ b.version >= 17 =>
    \A n \in 0 .. Len(b.st) - 1 :
      LET cut == [b EXCEPT !.st = SubSeq(@, 1, n)]
      IN  /\ \A off \in 0 .. n - 1 :
               fdt_get_property_by_offset(cut, off) >= 0 => off + 3 + PropLen(cut, off) <= n
          /\ \A name \in Name :
               LET o == fdt_subnode_offset(cut, 0, name)
               IN  o = fdt_subnode_offset(b, 0, name)
                   \/ o \in {Err.TRUNCATED, Err.BADSTRUCTURE, Err.BADOFFSET}
=============================================================================
