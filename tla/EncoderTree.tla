----------------------------- MODULE EncoderTree -----------------------------
(***************************************************************************)
(* The tree of encoder states of a frame (kvz_encoder_state_init), the     *)
(* jobs that encode its leaves (encoder_state_encode), and the access unit *)
(* that is put together from the streams of the leaves                     *)
(* (kvz_encoder_state_write_bitstream).                                    *)
(*                                                                         *)
(* The picture is divided into tiles, slices and, with --wpp, rows.  LCUs  *)
(* are numbered in tile scan.  A node of the tree is a record of its type, *)
(* the type of its parent, its slice (first and last LCU), its tile and    *)
(* its row; the children follow from these.  An access unit is a sequence  *)
(* of NAL units, of slice headers, and of LCUs with the bits that are      *)
(* written after them.                                                     *)
(* Operators named Wrong... are plausible mistakes in the definition that  *)
(* follows them and are not part of the specification.                     *)
(***************************************************************************)
EXTENDS FiniteSets, TileGrid

CONSTANTS
  Geometries,  (* the configurations: records                              *)
  MaxFrames,   (* bound: frames that are encoded                           *)
  OwfFrames    (* frames that may be encoded at once, owf + 1              *)

VARIABLES
  geo,       (* the configuration, and the grid of tiles                   *)
  tree,      (* the encoder states of a frame                              *)
  leaves,    (* its leaves, with their LCUs and how they are encoded       *)
  started,   (* for each frame that was started, whether it is an IRAP     *)
  coded,     (* the LCUs <<frame, leaf, i>> that have been encoded         *)
  contexts,  (* for each WPP row of a frame, where its contexts are from   *)
  units      (* the access units that have been written                    *)
encoderVars == <<geo, tree, leaves, started, coded, contexts, units>>

Fresh  == -1             (* contexts as initialised                       *)
NoTree == [kids |-> <<>>]

NumLcus == geo.w * geo.h

-----------------------------------------------------------------------------
(* Slices and the geometry of LCUs: encoder.c, encoder_state-geometry.c.   *)

(* slice_addresses_in_ts: a slice per tile, or those of the configuration. *)
SliceStarts ==
  IF "tiles" \in geo.slices
    THEN {RsToTs(geo, Boundary(geo.rows, j) * geo.w + Boundary(geo.cols, i)) :
            i \in 1..Len(geo.cols), j \in 1..Len(geo.rows)}
  ELSE geo.sliceStarts
AtSliceStart(ts) == ts = 0 \/ ts \in SliceStarts
AtSliceEnd(ts)   == ts = NumLcus - 1 \/ ts + 1 \in SliceStarts
AtTileStart(ts)  == ts = 0 \/ geo.tileId[ts - 1] # geo.tileId[ts]
AtTileEnd(ts)    == ts = NumLcus - 1 \/ geo.tileId[ts + 1] # geo.tileId[ts]
EndFrom(at, End(_)) ==
  CHOOSE e \in at..(NumLcus - 1) : End(e) /\ \A k \in at..(e - 1) : ~End(k)

Column(ts) == geo.toRs[ts] % geo.w
Row(ts)    == geo.toRs[ts] \div geo.w
LastColumn(n, ts) ==
  \/ Column(ts) = n.tile.x + n.tile.w - 1
  \/ ts = n.slice[2]
LastRow(n, ts) ==
  \/ Row(ts) = n.tile.y + n.tile.h - 1
  \/ Row(ts) = Row(n.slice[2])
  \/ geo.toRs[ts] + geo.w > geo.toRs[n.slice[2]]

-----------------------------------------------------------------------------
(* The tree: kvz_encoder_state_init.                                       *)

Tile(id) ==
  LET i == (id % Len(geo.cols)) + 1   j == (id \div Len(geo.cols)) + 1
      x == Boundary(geo.cols, i)      y == Boundary(geo.rows, j)
  IN [id |-> id, x |-> x, y |-> y, w |-> geo.cols[i], h |-> geo.rows[j],
      off |-> RsToTs(geo, y * geo.w + x)]
WholeTile == [id |-> 0, x |-> 0, y |-> 0, w |-> geo.w, h |-> geo.h, off |-> 0]
MainState ==
  [type |-> "main", parent |-> "none", slice |-> <<0, NumLcus - 1>>, tile |-> WholeTile, row |-> 0]

TileRange(n) == <<n.tile.off, n.tile.off + n.tile.w * n.tile.h - 1>>
RangeOf(n)   == IF n.type = "slice" THEN n.slice ELSE TileRange(n)
AllowsTile(n)  == n.type = "main" \/ (n.type = "slice" /\ n.parent # "tile")
AllowsSlice(n) == n.type = "main" \/ (n.type = "tile" /\ n.parent # "slice")
AllowsRows(n)  ==
  /\ geo.wpp
  /\ \/ n.type = "slice" /\ (n.slice[2] + 1 - n.slice[1]) \div n.tile.w > 1
     \/ n.type = "tile" /\ n.tile.h > 1

(* The slices and tiles from LCU at on: the larger one comes first.        *)
RECURSIVE PartsFrom(_, _)
PartsFrom(n, at) ==
  IF at > RangeOf(n)[2] THEN <<>>
  ELSE LET tile     == AllowsTile(n) /\ AtTileStart(at)
           slice    == AllowsSlice(n) /\ AtSliceStart(at)
           child    == [n EXCEPT !.parent = n.type]
           first(endTile, endSlice) ==
             IF slice /\ (~tile \/ endSlice >= endTile)
               THEN <<[child EXCEPT !.type = "slice", !.slice = <<at, endSlice>>]>>
             ELSE IF tile THEN <<[child EXCEPT !.type = "tile", !.tile = Tile(geo.tileId[at])]>>
             ELSE <<>>
           parts(endTile, endSlice) ==
             first(endTile, endSlice) \o PartsFrom(n, Max({endTile, endSlice}) + 1)
       IN parts(IF tile THEN EndFrom(at, AtTileEnd) ELSE at,
                IF slice THEN EndFrom(at, AtSliceEnd) ELSE at)
Parts(n) == IF AllowsTile(n) \/ AllowsSlice(n) THEN PartsFrom(n, RangeOf(n)[1]) ELSE <<>>
Children(n) ==
  LET rows == [i \in 1..Cardinality({Row(ts) : ts \in RangeOf(n)[1]..RangeOf(n)[2]}) |->
                 [n EXCEPT !.type = "row", !.parent = n.type, !.row = i - 1]]
      children(parts) == IF AllowsRows(n) /\ parts = <<>> THEN rows ELSE parts
  IN IF n.type = "row" THEN <<>> ELSE children(Parts(n))
RECURSIVE Built(_)
Built(n) ==
  LET parent(children) == [kids |-> [i \in 1..Len(children) |-> Built(children[i])]] @@ n
  IN parent(Children(n))

RECURSIVE Nodes(_)
Nodes(n)  == <<n>> \o FlattenSeq([i \in 1..Len(n.kids) |-> Nodes(n.kids[i])])
IsLeaf(n) == n.kids = <<>>
LeavesOf(n) == SelectSeq(Nodes(n), IsLeaf)

(* lcu_order: the LCUs of a leaf.                                          *)
LcuOrder(n) ==
  LET rows  == IF n.type = "row" THEN <<n.row, n.row>> ELSE <<0, n.tile.h - 1>>
      first == Max({n.slice[1], n.tile.off + rows[1] * n.tile.w})
      last  == Min({n.slice[2], n.tile.off + (rows[2] + 1) * n.tile.w - 1})
  IN [i \in 1..(last - first + 1) |-> first + i - 1]

(* Rows are only for what can have no other children (an assertion), and a *)
(* slice of several of them begins at the edge of its tile.                *)
RowsOk(n) ==
  n.kids # <<>> /\ n.kids[1].type = "row" =>
    /\ ~(AllowsSlice(n) \/ AllowsTile(n))
    /\ Column(RangeOf(n)[1]) = n.tile.x \/ Len(n.kids) = 1

(* "Validate the structure": no encoder is opened if it is not valid.      *)
StructureOk(root) ==
  \A i \in 1..Len(Nodes(root)) : LET n == Nodes(root)[i] IN
    /\ RowsOk(n)
    /\ n.type = "tile" => TileRange(n)[1] >= n.slice[1] /\ TileRange(n)[2] <= n.slice[2]
    /\ n.type = "slice" => n.slice[1] >= TileRange(n)[1] /\ n.slice[2] <= TileRange(n)[2]

-----------------------------------------------------------------------------
(* encoder_state_encode: a leaf is encoded by the caller, by a job of its  *)
(* own or together with others below the last split of the tree, or by a   *)
(* job for each LCU of a WPP row.                                          *)

RECURSIVE IsChain(_)
IsChain(n) == IsLeaf(n) \/ (Len(n.kids) = 1 /\ IsChain(n.kids[1]))
LastSplit(n) == Len(n.kids) > 1 /\ \A i \in 1..Len(n.kids) : IsChain(n.kids[i])

(* How each leaf below n is encoded, and below which split.                *)
RECURSIVE Modes(_, _)
Modes(n, mode) ==
  IF IsLeaf(n) THEN <<mode>>
  ELSE FlattenSeq([i \in 1..Len(n.kids) |->
         Modes(n.kids[i],
               IF ~LastSplit(n) THEN mode
               ELSE [by |-> IF n.kids[i].type = "row" THEN "lcus" ELSE "job", split |-> RangeOf(n)])])
LeafRecords(root) ==
  LET modes == Modes(root, [by |-> "caller", split |-> <<>>])
  IN [l \in 1..Len(modes) |-> [lcus |-> LcuOrder(LeavesOf(root)[l])] @@ modes[l] @@ LeavesOf(root)[l]]
AllLcus(f, l) == {f} \X {l} \X (1..Len(leaves[l].lcus))

(* The row before, of a leaf that is a row.                                *)
Above(l) == IF leaves[l].row = 0 THEN {} ELSE {l - 1}

(* The jobs of a frame.  A tile waits for all tiles of the frame before,   *)
(* unless it is an intra picture.                                          *)
LeafDeps(f, l) ==
  IF f = 1 \/ started[f] THEN {}
  ELSE UNION {AllLcus(f - 1, k) : k \in {k \in DOMAIN leaves : leaves[k].split = leaves[l].split}}
WrongLcuDeps(f, l, i) ==
  {<<f, l, i - 1>> : j \in IF i = 1 THEN {} ELSE {1}} \cup {<<f, k, i>> : k \in Above(l)}
LcuDeps(f, l, i) ==
  {<<f, l, i - 1>> : j \in IF i = 1 THEN {} ELSE {1}}
  \cup {<<f, k, Min({i + 1, Len(leaves[k].lcus)})>> : k \in Above(l)}

EncoderInit ==
  /\ \E g \in Geometries :
       LET grid == [cols |-> TileSizes(g.tileCols, g.colSplit, g.w),
                    rows |-> TileSizes(g.tileRows, g.rowSplit, g.h)] @@ g
           toRs == TsToRs(grid)
       IN geo = [toRs |-> toRs, tileId |-> TileIds(grid, toRs)] @@ grid
  /\ tree = NoTree /\ leaves = <<>>
  /\ started = <<>> /\ coded = {} /\ contexts = <<>> /\ units = <<>>

(* kvz_encoder_state_init *)
InitStates ==
  /\ tree = NoTree
  /\ tree' = Built(MainState)
  /\ StructureOk(tree')
  /\ leaves' = LeafRecords(tree')
  /\ UNCHANGED <<geo, started, coded, contexts, units>>

(* kvz_encode_one_frame; with WPP the model encodes one frame, as the jobs *)
(* of several are those of Wavefront.                                      *)
StartFrame ==
  /\ tree # NoTree /\ Len(started) < (IF geo.wpp THEN 1 ELSE MaxFrames)
  /\ Len(started) - Len(units) < OwfFrames
  /\ \E irap \in BOOLEAN : (started = <<>> => irap) /\ started' = Append(started, irap)
  /\ LET f == Len(started')
     IN /\ coded' = coded \cup UNION {AllLcus(f, l) : l \in {l \in DOMAIN leaves : leaves[l].by = "caller"}}
        /\ contexts' = Append(contexts, [l \in DOMAIN leaves |-> Fresh])
  /\ UNCHANGED <<geo, tree, leaves, units>>

EncodeLeaf(f, l) ==
  /\ leaves[l].by = "job" /\ <<f, l, 1>> \notin coded /\ LeafDeps(f, l) \subseteq coded
  /\ coded' = coded \cup AllLcus(f, l)
  /\ UNCHANGED <<geo, tree, leaves, started, contexts, units>>

(* "Wavefronts need the context to be copied to the next row"              *)
EncodeLcu(f, l, i) ==
  /\ leaves[l].by = "lcus" /\ <<f, l, i>> \notin coded /\ LcuDeps(f, l, i) \subseteq coded
  /\ coded' = coded \cup {<<f, l, i>>}
  /\ contexts' = [contexts EXCEPT ![f] = [k \in DOMAIN @ |->
                     IF i = 2 /\ k \in DOMAIN leaves /\ l \in Above(k) THEN leaves[l].lcus[i] ELSE @[k]]]
  /\ UNCHANGED <<geo, tree, leaves, started, units>>

-----------------------------------------------------------------------------
(* The access unit: encoder_state-bitstream.c and the end of               *)
(* encoder_state_worker_encode_lcu.                                        *)

Nal(type, long) == [kind |-> "nal", type |-> type, long |-> long]

EndsSegment(n, ts) ==
  IF "wpp" \in geo.slices THEN LastColumn(n, ts)
  ELSE /\ LastColumn(n, ts) /\ LastRow(n, ts)
       /\ "tiles" \in geo.slices \/ n.tile.id = Len(geo.cols) * Len(geo.rows) - 1
EndsSubstream(n, ts) == LastColumn(n, ts) /\ (geo.wpp \/ LastRow(n, ts))
LcuBits(n, ts) ==
  [kind |-> "lcu", ts |-> ts, ends |-> EndsSegment(n, ts),
   subset |-> EndsSubstream(n, ts) /\ ~EndsSegment(n, ts), closed |-> EndsSubstream(n, ts)]

(* Entry points: all leaves below are counted.                             *)
WrongNumLeaves(n) == Len(SelectSeq(n.kids, IsLeaf))
NumLeaves(n) == Len(LeavesOf(n))
SliceHeader(n, independent) ==
  LET first == n.slice[1] = 0 /\ ~("wpp" \in geo.slices /\ n.row > 0)
      row   == IF "wpp" \in geo.slices THEN n.row * n.tile.w ELSE 0
  IN [kind |-> "header", first |-> first, independent |-> independent,
      address |-> IF first THEN 0 ELSE geo.toRs[n.slice[1]] + row,
      offsets |-> IF geo.wpp \/ geo.tileCols > 1 \/ geo.tileRows > 1
                    THEN (IF IsLeaf(n) THEN 1 ELSE NumLeaves(n)) - 1 ELSE 0]

RECURSIVE Stream(_)
Stream(n) ==
  LET header(i) == IF n.kids[i].type = "slice" THEN <<SliceHeader(n.kids[i], TRUE)>>
                   ELSE IF n.kids[i].type = "row" /\ "wpp" \in geo.slices /\ i > 1
                     THEN <<SliceHeader(n.kids[i], FALSE)>>
                   ELSE <<>>
  IN IF IsLeaf(n) THEN [i \in 1..Len(LcuOrder(n)) |-> LcuBits(n, LcuOrder(n)[i])]
     ELSE FlattenSeq([i \in 1..Len(n.kids) |-> header(i) \o Stream(n.kids[i])])

(* encoder_state_must_write_vps; vpsPeriod is that of encoder_control: the *)
(* option times the intra period, or -1.                                   *)
MustWriteVps(f) ==
  geo.vpsPeriod >= 0 /\ (f = 1 \/ (geo.vpsPeriod > 0 /\ (f - 1) % geo.vpsPeriod = 0))

(* The first NAL unit has a long start code; slice headers as well, if they*)
(* are the first.                                                          *)
AccessUnit(f) ==
  LET first == f = 1
      aud   == IF geo.aud THEN <<Nal("aud", TRUE)>> ELSE <<>>
      sets  == IF MustWriteVps(f) THEN <<Nal("vps", TRUE), Nal("sps", TRUE), Nal("pps", TRUE)>> ELSE <<>>
      info  == IF first /\ geo.info THEN <<Nal("prefix", aud \o sets = <<>>)>> ELSE <<>>
      field == IF geo.fields THEN <<Nal("prefix", aud \o sets \o info = <<>>)>> ELSE <<>>
      front == aud \o sets \o info \o field
      hash  == IF geo.hash THEN <<Nal("suffix", FALSE)>> ELSE <<>>
      body  == Stream(tree)
  IN front \o <<Nal("vcl", front = <<>>)>> \o body \o hash

(* The bitstream job waits for the jobs of leaves, for the last LCU of each*)
(* row, and for the bitstream of the frame before.                         *)
StreamDeps(f) ==
  UNION {IF leaves[l].by = "lcus" THEN {<<f, l, Len(leaves[l].lcus)>>} ELSE AllLcus(f, l) :
           l \in DOMAIN leaves}
WriteBitstream ==
  LET f == Len(units) + 1 IN
  /\ f <= Len(started) /\ StreamDeps(f) \subseteq coded
  /\ units' = Append(units, AccessUnit(f))
  /\ UNCHANGED <<geo, tree, leaves, started, coded, contexts>>

(* All frames are written, or the encoder was not opened.                  *)
EncoderDone ==
  /\ \/ Len(units) = (IF geo.wpp THEN 1 ELSE MaxFrames)
     \/ tree = NoTree /\ ~StructureOk(Built(MainState))
  /\ UNCHANGED encoderVars

EncoderNext ==
  \/ InitStates \/ StartFrame \/ WriteBitstream \/ EncoderDone
  \/ \E f \in 1..Len(started), l \in DOMAIN leaves :
       EncodeLeaf(f, l) \/ \E i \in 1..Len(leaves[l].lcus) : EncodeLcu(f, l, i)
EncoderSpec == EncoderInit /\ [][EncoderNext]_encoderVars

-----------------------------------------------------------------------------
(* Properties.                                                             *)

(* What a decoder relies on in an access unit (clauses 7.3.8.1, 7.4.2.4 and*)
(* 9.3.1).                                                                 *)
Coded(unit) == SelectSeq(unit, LAMBDA e : e.kind # "nal")
NewTileOrRow(ts) ==
  \/ AtTileStart(ts)
  \/ geo.wpp /\ Column(ts) = Tile(geo.tileId[ts]).x
SegmentStarts(list) == {k \in 1..Len(list) : list[k].kind = "header"}
SegmentEnd(list, k) == Min({Len(list)} \cup {j - 1 : j \in {j \in SegmentStarts(list) : j > k}})

(* LCUs follow one another in tile scan; each has a bit that says whether  *)
(* its segment ends, and a substream ends where a tile or a WPP row does.  *)
LcusDecode(list) ==
  LET lcus == SelectSeq(list, LAMBDA e : e.kind = "lcu")
      next(k) == k = Len(list) \/ list[k + 1].kind = "header"
  IN /\ [i \in 1..Len(lcus) |-> lcus[i].ts] = [i \in 1..NumLcus |-> i - 1]
     /\ \A k \in 1..Len(list) : list[k].kind = "lcu" =>
          LET e == list[k] IN
          /\ e.ends = next(k) /\ e.closed = (e.ends \/ e.subset)
          /\ ~e.ends => e.subset = NewTileOrRow(e.ts + 1)
(* The address of a segment is that of its first LCU.                      *)
AddressesMatch(list) ==
  \A k \in SegmentStarts(list) :
    /\ list[k].first = (k = 1)
    /\ list[k].address = geo.toRs[list[k + 1].ts]
(* There is an entry point for each substream but the first.               *)
EntriesMatch(list) ==
  \A k \in SegmentStarts(list) :
    list[k].offsets = Cardinality({j \in (k + 1)..SegmentEnd(list, k) : list[j].subset})
(* NAL units come in the order that starts an access unit.                 *)
Rank(type) == CHOOSE r \in 1..7 : type = <<"aud", "vps", "sps", "pps", "prefix", "vcl", "suffix">>[r]
NalsInOrder(unit) ==
  LET nals == SelectSeq(unit, LAMBDA e : e.kind = "nal")
  IN /\ nals[1].long
     /\ \A k \in 2..Len(nals) : Rank(nals[k - 1].type) <= Rank(nals[k].type)

(* A decoder finds every LCU of the picture once, in the order of the tile *)
(* scan, and the ends of tiles, rows, substreams and segments where it     *)
(* expects them, whatever the division of the picture.  With --slices=wpp  *)
(* the first segment of a slice announces the substreams of all the others.*)
SegmentsDecode ==
  \A f \in 1..Len(units) :
    /\ NalsInOrder(units[f])
    /\ LcusDecode(Coded(units[f])) /\ AddressesMatch(Coded(units[f]))
    /\ "wpp" \notin geo.slices => EntriesMatch(Coded(units[f]))

(* "--slices tiles+wpp: Do both" (src/src/cli.c:524): segments of rows in  *)
(* tiles have the address of their first LCU.                              *)
RowsOfTilesAddressed == \A f \in 1..Len(units) : AddressesMatch(Coded(units[f]))

(* "Add dependancy to each child in the previous frame" (src/src/          *)
(* encoderstate.c:922): when a tile is encoded, so are all tiles of all    *)
(* frames since the last intra picture, to which it may refer; when the    *)
(* bitstream is written all LCUs have been encoded; and a row that is      *)
(* encoded with WPP starts with the contexts that a decoder takes over:    *)
(* those after the second LCU of the row above, if its tile has one.       *)
LastIrap(f) == Max({k \in 1..f : started[k]})
JobsWait ==
  /\ \A f \in 1..Len(started), l \in DOMAIN leaves :
       /\ leaves[l].by = "job"
       /\ <<f, l, 1>> \notin coded /\ LeafDeps(f, l) \subseteq coded
       => \A r \in LastIrap(f)..(f - 1), k \in DOMAIN leaves : AllLcus(r, k) \subseteq coded
  /\ \A f \in 1..Len(units), l \in DOMAIN leaves : AllLcus(f, l) \subseteq coded
  /\ \A f \in 1..Len(started), l \in DOMAIN leaves :
       LET n == leaves[l] IN
       <<f, l, 1>> \in coded =>
         contexts[f][l] = IF n.type = "row" /\ n.row > 0 /\ n.tile.w > 1
                            THEN n.lcus[1] + 1 - n.tile.w ELSE Fresh
=============================================================================
