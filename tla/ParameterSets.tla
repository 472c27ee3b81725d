----------------------------- MODULE ParameterSets -----------------------------
(***************************************************************************)
(* The parameter sets, SEI messages and slice headers that                 *)
(* src/src/encoder_state-bitstream.c writes, with the scaling lists of     *)
(* scalinglist.c.  Each is a sequence of elements <<name, descriptor,      *)
(* value>>; fields of 32 bits hold small numbers.  The profile, level and  *)
(* other fields that are constants are written as they are.                *)
(*                                                                         *)
(* The second half is a decoder: the syntax tables of the standard, and    *)
(* what it derives from them.  Entries of a table are <<name, descriptor,  *)
(* condition>>; an element is present if another has the value that the    *)
(* condition names, and 0 otherwise.  Operators named Wrong... are         *)
(* plausible mistakes in the definition that follows them.                 *)
(***************************************************************************)
EXTENDS FiniteSets, TileGrid

CONSTANTS
  EncoderConfigs,  (* the encoder_control_t's: records                     *)
  FrameChoices(_)  (* the frames that a configuration may lead to          *)

VARIABLES
  enc,    (* state->encoder_control                                        *)
  frame   (* state->frame, or <<>> before the first frame                  *)
headerVars == <<enc, frame>>

UE     == 0    (* the descriptors; a number n is u(n)                       *)
SE     == -1
STRUCT == -2   (* scaling_list_data() is one element                        *)
U(name, value, n) == << <<name, n, value>> >>
Ue(name, value)   == << <<name, UE, value>> >>
Se(name, value)   == << <<name, SE, value>> >>
When(cond, elements) == IF cond THEN elements ELSE <<>>
Each(n, elements(_)) == FlattenSeq([i \in 1..n |-> elements(i)])
Bit(b) == IF b THEN 1 ELSE 0
Larger(a, b) == IF a > b THEN a ELSE b
Constants(name, n, values) == Each(Len(values), LAMBDA i : U(name, values[i], n))

-----------------------------------------------------------------------------
(* Scaling lists: coefficients in raster order, and the DC of large ones.  *)

ListNum  == <<6, 6, 6, 2>>
ListSize == <<16, 64, 64, 64>>
Diagonal(n) ==
  SortSeq([i \in 1..(n * n) |-> <<(i - 1) % n, (i - 1) \div n>>],
          LAMBDA p, q : p[1] + p[2] < q[1] + q[2] \/ (p[1] + p[2] = q[1] + q[2] /\ p[1] < q[1]))
ScanRaster == [k \in {4, 8} |-> [i \in 1..(k * k) |-> k * Diagonal(k)[i][2] + Diagonal(k)[i][1] + 1]]
ListScan(size) == ScanRaster[IF size = 1 THEN 4 ELSE 8]

IntraDefault == <<
  16,16,16,16,17,18,21,24, 16,16,16,16,17,19,22,25, 16,16,17,18,20,22,25,29,
  16,16,18,21,24,27,31,36, 17,17,20,24,30,35,41,47, 18,19,22,27,35,44,54,65,
  21,22,25,31,41,54,70,88, 24,25,29,36,47,65,88,115>>
InterDefault == <<
  16,16,16,16,17,18,20,24, 16,16,16,17,18,20,24,25, 16,16,17,18,20,24,25,28,
  16,17,18,20,24,25,28,33, 17,18,20,24,25,28,33,41, 18,20,24,25,28,33,41,54,
  20,24,25,28,33,41,54,71, 24,25,28,33,41,54,71,91>>
DefaultList(size, list) ==
  IF size = 1 THEN [i \in 1..16 |-> 16]
  ELSE IF list > ListNum[size] \div 2 THEN InterDefault ELSE IntraDefault

(* The factor of a coefficient of a block, as kvz_scalinglist_process sets *)
(* it for an inverse scale of 1; an absent DC is 16.                       *)
Factor(size, coeffs, dc, x, y) ==
  LET ratio == IF size <= 2 THEN 1 ELSE 2^(size - 2)
      side  == IF size = 1 THEN 4 ELSE 8
  IN IF ratio > 1 /\ x = 0 /\ y = 0 THEN (IF dc = 0 THEN 16 ELSE dc)
     ELSE coeffs[side * (y \div ratio) + x \div ratio + 1]
EncoderFactor(size, list, x, y) ==
  CASE enc.scaling = "off"     -> 16
    [] enc.scaling = "default" -> Factor(size, DefaultList(size, list), 0, x, y)
    [] enc.scaling = "custom"  -> Factor(size, enc.lists[size][list].coeffs, enc.lists[size][list].dc, x, y)

(* The list that a list is predicted from: the default one (itself), or an *)
(* earlier one; 0 if there is none.  Eight coefficients are compared.      *)
PredList(size, list) ==
  LET own == enc.lists[size][list]
      pred(i) == IF i = list THEN DefaultList(size, i) ELSE enc.lists[size][i].coeffs
      same == {i \in 1..list : /\ SubSeq(pred(i), 1, 8) = SubSeq(own.coeffs, 1, 8)
                               /\ size < 3 \/ own.dc = enc.lists[size][i].dc}
  IN CHOOSE i \in same \cup {0} : \A j \in same : j <= i

Delta8(now, before) ==
  LET d == now - before IN IF d > 127 THEN d - 256 ELSE IF d < -128 THEN d + 256 ELSE d
ScalingList(size, list) ==
  LET own  == enc.lists[size][list]
      pred == PredList(size, list)
      coef(i) == own.coeffs[ListScan(size)[i]]
      before(i) == IF i > 1 THEN coef(i - 1) ELSE IF size >= 3 THEN own.dc ELSE 8
  IN U("pred_mode_flag", Bit(pred = 0), 1)
     \o IF pred # 0 THEN Ue("pred_matrix_id_delta", list - pred)
        ELSE When(size >= 3, Se("dc_coef_minus8", own.dc - 8))
             \o Each(ListSize[size], LAMBDA i : Se("delta_coef", Delta8(coef(i), before(i))))
ScalingLists == [size \in 1..4 |-> [list \in 1..ListNum[size] |-> ScalingList(size, list)]]

-----------------------------------------------------------------------------
(* The sets.                                                               *)

Ptl ==
  U("profile_space", 0, 2) \o U("tier", Bit(enc.highTier), 1)
  \o U("profile_idc", IF enc.bitdepth = 8 THEN 1 ELSE 2, 5)
  \o Constants("compatibility", 1, [i \in 1..32 |-> Bit(i \in 2..3)])  (* flags 1 and 2: 3 << 29 *)
  \o U("progressive", 1, 1) \o U("interlaced", Bit(enc.interlaced), 1)
  \o U("non_packed", 0, 1) \o U("frame_only", 0, 1) \o Constants("reserved", 22, <<0, 0>>)
  \o U("level_idc", 3 * enc.level, 8)
  \o Constants("sub_layer_present", 1, <<0, 0>>) \o Constants("reserved_2bits", 2, [i \in 1..7 |-> 0])

Vps ==
  U("vps_id", 0, 4) \o U("vps_reserved", 3, 2) \o U("vps_layers", 0, 6) \o U("max_sub_layers_minus1", 1, 3)
  \o U("temporal_nesting", 0, 1) \o U("vps_ffff", 65535, 16) \o Ptl \o U("ordering_info_present", 0, 1)
  \o Ue("max_dec_pic_buffering_minus1", 1) \o Ue("num_reorder", 0) \o Ue("max_latency", 0)
  \o U("max_layer_id", 0, 6) \o Ue("num_op_sets_minus1", 0) \o U("timing_info_present", 0, 1)
  \o U("extension", 0, 1)

Sar == << <<1, 1>>, <<12, 11>>, <<10, 11>>, <<16, 11>>, <<40, 33>>, <<24, 11>>, <<20, 11>>, <<32, 11>>,
          <<80, 33>>, <<18, 11>>, <<15, 11>>, <<64, 33>>, <<160, 99>>, <<4, 3>>, <<3, 2>>, <<2, 1>> >>
Vui ==
  LET v    == enc.vui
      idc  == IF v.sar \in ToSet(Sar) THEN CHOOSE i \in 1..16 : Sar[i] = v.sar ELSE 255
      sar  == v.sar[1] > 0 /\ v.sar[2] > 0
      desc == v.colour # <<2, 2, 2>>
      type == v.format # 5 \/ v.fullRange # 0 \/ desc
  IN U("sar_present", Bit(sar), 1)
     \o When(sar, U("sar_idc", idc, 8)
                  \o When(idc = 255, U("sar_width", v.sar[1], 16) \o U("sar_height", v.sar[2], 16)))
     \o U("overscan_present", Bit(v.overscan > 0), 1) \o When(v.overscan > 0, U("overscan", v.overscan - 1, 1))
     \o U("signal_type_present", Bit(type), 1)
     \o When(type, U("video_format", v.format, 3) \o U("full_range", v.fullRange, 1)
                   \o U("colour_present", Bit(desc), 1)
                   \o When(desc, U("primaries", v.colour[1], 8) \o U("transfer", v.colour[2], 8)
                                 \o U("matrix", v.colour[3], 8)))
     \o U("chroma_loc_present", Bit(v.chromaLoc > 0), 1)
     \o When(v.chromaLoc > 0, Ue("chroma_loc_top", v.chromaLoc) \o Ue("chroma_loc_bottom", v.chromaLoc))
     \o U("neutral_chroma", 0, 1) \o U("field_seq", Bit(enc.interlaced), 1)
     \o U("frame_field_info", Bit(enc.interlaced), 1) \o U("default_window", 0, 1)
     \o U("timing_present", Bit(enc.framerate # <<0, 0>>), 1)
     \o When(enc.framerate # <<0, 0>>,
             U("units_in_tick", enc.framerate[2], 32)
             \o U("time_scale", enc.framerate[1] * (IF enc.interlaced THEN 2 ELSE 1), 32)
             \o U("poc_timing", 0, 1) \o U("hrd", 0, 1))
     \o U("restriction", 0, 1)

SpsExtension ==
  LET present == enc.implicitRdpcm /\ enc.lossless
  IN U("extension_present", Bit(present), 1)
     \o When(present, Constants("extension_flags", 1, <<1, 0, 0>>) \o U("extension_5bits", 0, 5)
                      \o Constants("range_flags", 1, <<0, 0, 1, 0, 0, 0, 0, 0, 0>>))

Cropped == enc.width # enc.realWidth \/ enc.height # enc.realHeight
ChromaIdc == CASE enc.csp = "400" -> 0 [] enc.csp = "420" -> 1 [] enc.csp = "444" -> 3
Sps ==
  U("sps_vps_id", 0, 4) \o U("max_sub_layers_minus1", 1, 3) \o U("temporal_nesting", 0, 1) \o Ptl
  \o Ue("sps_id", 0) \o Ue("chroma_format_idc", ChromaIdc)
  \o When(enc.csp = "444", U("separate_planes", 0, 1))
  \o Ue("pic_width", enc.width) \o Ue("pic_height", enc.height) \o U("window", Bit(Cropped), 1)
  \o When(Cropped, Ue("window_left", 0) \o Ue("window_right", (enc.width - enc.realWidth) \div 2)
                   \o Ue("window_top", 0) \o Ue("window_bottom", (enc.height - enc.realHeight) \div 2))
  \o Ue("depth_luma", enc.bitdepth - 8) \o Ue("depth_chroma", enc.bitdepth - 8)
  \o Ue("poc_lsb_minus4", 1) \o U("ordering_info_present", 0, 1)
  \o Ue("max_dec_pic_buffering_minus1", IF enc.lowDelay THEN enc.refFrames ELSE enc.refFrames + enc.gopLen)
  \o Ue("num_reorder", IF enc.lowDelay THEN 0 ELSE enc.gopLen) \o Ue("max_latency", 0)
  \o Ue("min_cb", 0) \o Ue("diff_cb", 3) \o Ue("min_tb", 0) \o Ue("diff_tb", 3)
  \o Ue("tr_depth_inter", enc.trDepthInter) \o Ue("tr_depth_intra", enc.trDepthIntra)
  \o U("scaling_enabled", Bit(enc.scaling # "off"), 1)
  \o When(enc.scaling # "off", U("scaling_data", Bit(enc.scaling = "custom"), 1))
  \o When(enc.scaling = "custom", << <<"scaling_lists", STRUCT, ScalingLists>> >>)
  \o U("amp", Bit(enc.amp), 1) \o U("sao", Bit(enc.sao), 1) \o U("pcm", 0, 1) \o Ue("num_rps", 0)
  \o U("long_term", 0, 1) \o U("tmvp", Bit(enc.tmvp), 1) \o U("strong_smoothing", 0, 1)
  \o U("vui_present", 1, 1) \o Vui \o SpsExtension

ColWidths  == TileSizes(enc.tileCols, enc.colSplit, enc.lcuCols)
RowHeights == TileSizes(enc.tileRows, enc.rowSplit, enc.lcuRows)
Tiles      == enc.tileCols > 1 \/ enc.tileRows > 1
Uniform    == enc.colSplit = <<>> /\ enc.rowSplit = <<>>

(* "If tiles and slices = tiles is enabled, signal QP in the slice header" *)
QpInSlice == enc.slices = "tiles" /\ Tiles
Pps ==
  Ue("pps_id", 0) \o Ue("pps_sps_id", 0) \o U("dependent_slices", Bit(enc.slices = "wpp"), 1)
  \o U("output_flag_present", 0, 1) \o U("extra_bits", 0, 3) \o U("sign_hiding", Bit(enc.signhide), 1)
  \o U("cabac_init_present", 0, 1) \o Ue("num_l0_minus1", 0) \o Ue("num_l1_minus1", 0)
  \o Se("init_qp", IF QpInSlice THEN 0 ELSE enc.qp - 26)
  \o U("constrained_intra", 0, 1) \o U("transform_skip", Bit(enc.trskip), 1)
  \o U("cu_qp_delta", Bit(enc.maxQpDeltaDepth >= 0), 1)
  \o When(enc.maxQpDeltaDepth >= 0, Ue("cu_qp_delta_depth", enc.maxQpDeltaDepth))
  \o Se("cb_offset", 0) \o Se("cr_offset", 0) \o U("slice_chroma_offsets", 0, 1)
  \o U("weighted_pred", 0, 1) \o U("weighted_bipred", 0, 1) \o U("transquant_bypass", Bit(enc.lossless), 1)
  \o U("tiles", Bit(Tiles), 1) \o U("sync", Bit(enc.wpp), 1)
  \o When(Tiles,
       Ue("columns_minus1", Len(ColWidths) - 1) \o Ue("rows_minus1", Len(RowHeights) - 1)
       \o U("uniform", Bit(Uniform), 1)
       \o When(~Uniform,
            Each(Len(ColWidths) - 1, LAMBDA i : Ue("column_width", ColWidths[i] - 1))
            \o Each(Len(RowHeights) - 1, LAMBDA i : Ue("row_height", RowHeights[i] - 1)))
       \o U("filter_across_tiles", 0, 1))
  \o U("filter_across_slices", 0, 1) \o U("deblocking_control", 1, 1) \o U("deblocking_override", 0, 1)
  \o U("deblocking_disabled", Bit(~enc.deblock.enable), 1)
  \o When(enc.deblock.enable, Se("beta_offset", enc.deblock.beta) \o Se("tc_offset", enc.deblock.tc))
  \o U("pps_scaling_data", 0, 1) \o U("lists_modification", 0, 1) \o Ue("parallel_merge", 0)
  \o U("header_extension", 0, 1) \o U("pps_extension", 0, 1)

(* encoder_state_write_picture_timing_sei_message: a byte with its padding.*)
PicStruct ==
  CASE frame.interlacing = 0 -> 0
    [] frame.interlacing = 1 -> IF frame.num % 2 = 1 THEN 2 ELSE 1
    [] frame.interlacing = 2 -> IF frame.num % 2 = 1 THEN 1 ELSE 2
PicTiming ==
  U("payload_type", 1, 8) \o U("payload_size", 1, 8) \o U("pic_struct", PicStruct, 4)
  \o U("source_scan", Bit(frame.interlacing = 0), 2) \o U("duplicate", 0, 1) \o U("padding", 1, 1)
(* add_checksum: the hash of a colour is a number of 4 or 16 bytes.        *)
NumColors == IF enc.csp = "400" THEN 1 ELSE 3
HashBytes == IF enc.hash = "md5" THEN 16 ELSE 4
HashSei ==
  U("payload_type", 132, 8) \o U("payload_size", 1 + NumColors * HashBytes, 8)
  \o U("hash_type", IF enc.hash = "md5" THEN 0 ELSE 2, 8)
  \o Each(NumColors, LAMBDA c :
       IF enc.hash = "md5" THEN Each(16, LAMBDA b : U("hash", frame.hash[c], 8))
       ELSE U("hash", frame.hash[c], 32))

-----------------------------------------------------------------------------
(* The slice header.  frame.neg and frame.pos are the distances to the     *)
(* reference pictures, nearest first, as PictureOrder determines them;     *)
(* segment says which segment of the picture it is.                        *)

IsIdr  == frame.pictype \in {19, 20}
CeilLog2(n) == CHOOSE k \in 0..20 : 2^k >= n /\ (k = 0 \/ 2^(k - 1) < n)
Distances(name, used, list) ==
  Each(Len(list), LAMBDA j :
         Ue(name, IF enc.gopLen > 0 THEN list[j] - (IF j > 1 THEN list[j - 1] ELSE 0) - 1 ELSE 0)
         \o U(used, Bit(~frame.irap), 1))
WrongSliceQp == frame.qp - enc.qp
SliceQpDelta == frame.qp - (IF QpInSlice THEN 26 ELSE enc.qp)
IndependentHeader ==
  LET neg == Len(frame.neg)
      pos == Len(frame.pos)
  IN Ue("slice_type", CASE frame.slice = "B" -> 0 [] frame.slice = "P" -> 1 [] frame.slice = "I" -> 2)
     \o When(~IsIdr,
          U("poc_lsb", frame.poc % 32, 5) \o U("rps_in_sps", 0, 1) \o Ue("num_negative", neg)
          \o Ue("num_positive", pos) \o Distances("delta_s0", "used_s0", frame.neg)
          \o Distances("delta_s1", "used_s1", frame.pos)
          \o When(enc.tmvp, U("slice_tmvp", Bit(neg > 0), 1)))
     \o When(enc.sao, U("sao_luma", 1, 1) \o When(enc.csp # "400", U("sao_chroma", 1, 1)))
     \o When(frame.slice # "I",
          U("override", 1, 1) \o Ue("slice_l0_minus1", Larger(0, frame.refLX[1] - 1))
          \o When(frame.slice = "B", Ue("slice_l1_minus1", Larger(0, frame.refLX[2] - 1)) \o U("mvd_l1_zero", 0, 1))
          \o When(enc.tmvp /\ neg > 0,
               When(frame.slice = "B", U("collocated_from_l0", 1, 1)) \o When(neg > 1, Ue("collocated_idx", 0)))
          \o Ue("merge_cands", 0))
     \o Se("slice_qp", SliceQpDelta)

EntryPoints(lengths) ==
  LET offsets == Len(lengths) - 1
      longest == FoldLeft(Larger, 0, lengths)
      bits    == CHOOSE k \in 1..20 : 2^k > longest /\ 2^(k - 1) <= longest
  IN When(Tiles \/ enc.wpp,
       Ue("num_entry_points", offsets)
       \o When(offsets > 0, Ue("offset_len_minus1", bits - 1)
                            \o Each(offsets, LAMBDA i : U("entry_point", lengths[i] - 1, bits))))

SliceHeader(segment) ==
  LET first == segment.address = 0
  IN U("first_segment", Bit(first), 1) \o When(frame.pictype \in 16..23, U("no_output_of_prior", 0, 1))
     \o Ue("slice_pps_id", 0)
     \o When(~first,
          When(enc.slices = "wpp", U("dependent", Bit(~segment.independent), 1))
          \o U("segment_address", segment.address, CeilLog2(enc.lcuCols * enc.lcuRows)))
     \o When(segment.independent, IndependentHeader) \o EntryPoints(segment.lengths)

-----------------------------------------------------------------------------
(* What is encoded: frames of one configuration, in any order.             *)
HeadersInit == enc \in EncoderConfigs /\ frame = <<>>
NewFrame == frame = <<>> /\ frame' \in FrameChoices(enc) /\ UNCHANGED enc
HeadersDone == frame # <<>> /\ UNCHANGED headerVars
HeadersNext == NewFrame \/ HeadersDone
HeadersSpec == HeadersInit /\ [][HeadersNext]_headerVars

-----------------------------------------------------------------------------
(* A decoder: the tables of clause 7.3.  A decoder that reads a sequence   *)
(* of elements by a table finds all of them, and nothing else, exactly if  *)
(* they are the entries of the table whose conditions their values meet.   *)

Always == <<>>
Is(name, value) == <<name, value>>
Plain(name, kind) == << <<name, kind, Always>> >>
Repeat(times, entries) == FlattenSeq([i \in 1..times |-> entries])

All(syntax, name) ==
  LET found == SelectSeq(syntax, LAMBDA e : e[1] = name) IN [i \in 1..Len(found) |-> found[i][3]]
Val(syntax, name) == LET all == All(syntax, name) IN IF all = <<>> THEN 0 ELSE all[1]
Reads(syntax, table) ==
  LET present(e) == e[3] = Always \/ (e[3] # Always /\ All(syntax, e[3][1]) # <<>>
                                                     /\ Val(syntax, e[3][1]) = e[3][2])
      read == SelectSeq(table, present)
  IN /\ Len(read) = Len(syntax)
     /\ \A i \in 1..Len(read) : syntax[i][1] = read[i][1] /\ syntax[i][2] = read[i][2]

PtlTable ==
  << <<"profile_space", 2, Always>>, <<"tier", 1, Always>>, <<"profile_idc", 5, Always>> >>
  \o Repeat(32, Plain("compatibility", 1))
  \o << <<"progressive", 1, Always>>, <<"interlaced", 1, Always>>, <<"non_packed", 1, Always>>,
        <<"frame_only", 1, Always>> >> \o Repeat(2, Plain("reserved", 22)) \o << <<"level_idc", 8, Always>> >>
  \o Repeat(2, Plain("sub_layer_present", 1)) \o Repeat(7, Plain("reserved_2bits", 2))
VpsTable ==
  << <<"vps_id", 4, Always>>, <<"vps_reserved", 2, Always>>, <<"vps_layers", 6, Always>>,
     <<"max_sub_layers_minus1", 3, Always>>, <<"temporal_nesting", 1, Always>>, <<"vps_ffff", 16, Always>> >>
  \o PtlTable
  \o << <<"ordering_info_present", 1, Always>>, <<"max_dec_pic_buffering_minus1", UE, Always>>,
        <<"num_reorder", UE, Always>>, <<"max_latency", UE, Always>>, <<"max_layer_id", 6, Always>>,
        <<"num_op_sets_minus1", UE, Always>>, <<"timing_info_present", 1, Always>>, <<"extension", 1, Always>> >>
SpsTable1 ==
  << <<"sps_vps_id", 4, Always>>, <<"max_sub_layers_minus1", 3, Always>>, <<"temporal_nesting", 1, Always>> >>
  \o PtlTable
  \o << <<"sps_id", UE, Always>>, <<"chroma_format_idc", UE, Always>>,
        <<"separate_planes", 1, Is("chroma_format_idc", 3)>>, <<"pic_width", UE, Always>>,
        <<"pic_height", UE, Always>>, <<"window", 1, Always>>, <<"window_left", UE, Is("window", 1)>>,
        <<"window_right", UE, Is("window", 1)>>, <<"window_top", UE, Is("window", 1)>>,
        <<"window_bottom", UE, Is("window", 1)>>, <<"depth_luma", UE, Always>>,
        <<"depth_chroma", UE, Always>>, <<"poc_lsb_minus4", UE, Always>>,
        <<"ordering_info_present", 1, Always>>, <<"max_dec_pic_buffering_minus1", UE, Always>>,
        <<"num_reorder", UE, Always>>, <<"max_latency", UE, Always>>, <<"min_cb", UE, Always>>,
        <<"diff_cb", UE, Always>>, <<"min_tb", UE, Always>>, <<"diff_tb", UE, Always>>,
        <<"tr_depth_inter", UE, Always>>, <<"tr_depth_intra", UE, Always>>,
        <<"scaling_enabled", 1, Always>>, <<"scaling_data", 1, Is("scaling_enabled", 1)>> >>
SpsTable2 ==
  << <<"amp", 1, Always>>, <<"sao", 1, Always>>, <<"pcm", 1, Always>>, <<"num_rps", UE, Always>>,
     <<"long_term", 1, Always>>, <<"tmvp", 1, Always>>, <<"strong_smoothing", 1, Always>>,
     <<"vui_present", 1, Always>>, <<"sar_present", 1, Always>>, <<"sar_idc", 8, Is("sar_present", 1)>>,
     <<"sar_width", 16, Is("sar_idc", 255)>>, <<"sar_height", 16, Is("sar_idc", 255)>>,
     <<"overscan_present", 1, Always>>, <<"overscan", 1, Is("overscan_present", 1)>>,
     <<"signal_type_present", 1, Always>>, <<"video_format", 3, Is("signal_type_present", 1)>>,
     <<"full_range", 1, Is("signal_type_present", 1)>>, <<"colour_present", 1, Is("signal_type_present", 1)>>,
     <<"primaries", 8, Is("colour_present", 1)>>, <<"transfer", 8, Is("colour_present", 1)>>,
     <<"matrix", 8, Is("colour_present", 1)>>, <<"chroma_loc_present", 1, Always>>,
     <<"chroma_loc_top", UE, Is("chroma_loc_present", 1)>>,
     <<"chroma_loc_bottom", UE, Is("chroma_loc_present", 1)>>, <<"neutral_chroma", 1, Always>>,
     <<"field_seq", 1, Always>>, <<"frame_field_info", 1, Always>>, <<"default_window", 1, Always>>,
     <<"timing_present", 1, Always>>, <<"units_in_tick", 32, Is("timing_present", 1)>>,
     <<"time_scale", 32, Is("timing_present", 1)>>, <<"poc_timing", 1, Is("timing_present", 1)>>,
     <<"hrd", 1, Is("timing_present", 1)>>, <<"restriction", 1, Always>>, <<"extension_present", 1, Always>> >>
  \o [i \in 1..3 |-> <<"extension_flags", 1, Is("extension_present", 1)>>]
  \o << <<"extension_5bits", 5, Is("extension_present", 1)>> >>
  \o [i \in 1..9 |-> <<"range_flags", 1, Is("extension_present", 1)>>]
PpsTable1 ==
  << <<"pps_id", UE, Always>>, <<"pps_sps_id", UE, Always>>, <<"dependent_slices", 1, Always>>,
     <<"output_flag_present", 1, Always>>, <<"extra_bits", 3, Always>>, <<"sign_hiding", 1, Always>>,
     <<"cabac_init_present", 1, Always>>, <<"num_l0_minus1", UE, Always>>, <<"num_l1_minus1", UE, Always>>,
     <<"init_qp", SE, Always>>, <<"constrained_intra", 1, Always>>, <<"transform_skip", 1, Always>>,
     <<"cu_qp_delta", 1, Always>>, <<"cu_qp_delta_depth", UE, Is("cu_qp_delta", 1)>>,
     <<"cb_offset", SE, Always>>, <<"cr_offset", SE, Always>>, <<"slice_chroma_offsets", 1, Always>>,
     <<"weighted_pred", 1, Always>>, <<"weighted_bipred", 1, Always>>, <<"transquant_bypass", 1, Always>>,
     <<"tiles", 1, Always>>, <<"sync", 1, Always>>, <<"columns_minus1", UE, Is("tiles", 1)>>,
     <<"rows_minus1", UE, Is("tiles", 1)>>, <<"uniform", 1, Is("tiles", 1)>> >>
PpsTable2 ==
  << <<"filter_across_tiles", 1, Is("tiles", 1)>>, <<"filter_across_slices", 1, Always>>,
     <<"deblocking_control", 1, Always>>, <<"deblocking_override", 1, Is("deblocking_control", 1)>>,
     <<"deblocking_disabled", 1, Is("deblocking_control", 1)>>, <<"beta_offset", SE, Is("deblocking_disabled", 0)>>,
     <<"tc_offset", SE, Is("deblocking_disabled", 0)>>, <<"pps_scaling_data", 1, Always>>,
     <<"lists_modification", 1, Always>>, <<"parallel_merge", UE, Always>>, <<"header_extension", 1, Always>>,
     <<"pps_extension", 1, Always>> >>

SpsTable == SpsTable1 \o << <<"scaling_lists", STRUCT, Is("scaling_data", 1)>> >> \o SpsTable2
PpsTable ==
  LET n(name) == IF Val(Pps, "uniform") = 1 THEN 0 ELSE Val(Pps, name)
  IN PpsTable1 \o Repeat(n("columns_minus1"), Plain("column_width", UE))
     \o Repeat(n("rows_minus1"), Plain("row_height", UE)) \o PpsTable2

(* scaling_list_data and clause 7.4.5                                      *)
ListTable(size) ==
  Plain("pred_mode_flag", 1) \o << <<"pred_matrix_id_delta", UE, Is("pred_mode_flag", 0)>> >>
  \o When(size >= 3, << <<"dc_coef_minus8", SE, Is("pred_mode_flag", 1)>> >>)
  \o [i \in 1..ListSize[size] |-> <<"delta_coef", SE, Is("pred_mode_flag", 1)>>]
RECURSIVE DecodedList(_, _, _)
DecodedList(lists, size, list) ==
  LET s     == lists[size][list]
      first == IF size >= 3 THEN Val(s, "dc_coef_minus8") + 8 ELSE 8
      deltas == All(s, "delta_coef")
      coef[i \in 0..ListSize[size]] == IF i = 0 THEN first ELSE (coef[i - 1] + deltas[i] + 256) % 256
      index == [p \in 1..ListSize[size] |-> CHOOSE i \in 1..ListSize[size] : ListScan(size)[i] = p]
      delta == Val(s, "pred_matrix_id_delta")
  IN IF Val(s, "pred_mode_flag") = 1
       THEN [coeffs |-> [p \in 1..ListSize[size] |-> coef[index[p]]], dc |-> first]
     ELSE IF delta = 0 THEN [coeffs |-> DefaultList(size, list), dc |-> 16]
     ELSE DecodedList(lists, size, list - delta)

(* slice_segment_header                                                    *)
SliceTable(s) ==
  LET has(name) == Val(Sps, name) = 1 \/ Val(Pps, name) = 1
      bits == CeilLog2(((Val(Sps, "pic_width") + 63) \div 64) * ((Val(Sps, "pic_height") + 63) \div 64))
      type == Val(s, "slice_type")
      listed(n, delta, used) == Repeat(Val(s, n), Plain(delta, UE) \o Plain(used, 1))
      body ==
        Plain("slice_type", UE)
        \o When(~IsIdr,
             Plain("poc_lsb", 5) \o Plain("rps_in_sps", 1) \o Plain("num_negative", UE) \o Plain("num_positive", UE)
             \o listed("num_negative", "delta_s0", "used_s0") \o listed("num_positive", "delta_s1", "used_s1")
             \o When(has("tmvp"), Plain("slice_tmvp", 1)))
        \o When(has("sao"), Plain("sao_luma", 1) \o When(Val(Sps, "chroma_format_idc") # 0, Plain("sao_chroma", 1)))
        \o When(type # 2,
             Plain("override", 1) \o << <<"slice_l0_minus1", UE, Is("override", 1)>> >>
             \o When(type = 0, << <<"slice_l1_minus1", UE, Is("override", 1)>> >> \o Plain("mvd_l1_zero", 1))
             \o When(Val(s, "slice_tmvp") = 1,
                  When(type = 0, Plain("collocated_from_l0", 1))
                  \o When(Val(s, "slice_l0_minus1") > 0, Plain("collocated_idx", UE)))
             \o Plain("merge_cands", UE))
        \o Plain("slice_qp", SE)
  IN Plain("first_segment", 1) \o When(frame.pictype \in 16..23, Plain("no_output_of_prior", 1))
     \o Plain("slice_pps_id", UE)
     \o When(has("dependent_slices"), << <<"dependent", 1, Is("first_segment", 0)>> >>)
     \o << <<"segment_address", bits, Is("first_segment", 0)>> >>
     \o When(Val(s, "dependent") = 0, body)
     \o When(has("tiles") \/ has("sync"),
          Plain("num_entry_points", UE)
          \o When(Val(s, "num_entry_points") > 0, Plain("offset_len_minus1", UE))
          \o Repeat(Val(s, "num_entry_points"), Plain("entry_point", Val(s, "offset_len_minus1") + 1)))
DistancesIn(s, name) ==
  LET deltas == All(s, name) IN [i \in 1..Len(deltas) |-> i + Total(SubSeq(deltas, 1, i))]

-----------------------------------------------------------------------------
(* Properties.                                                             *)

(* A list is predicted from one that agrees with it in eight coefficients; *)
(* the decoder gets what is meant only if all of it agrees.                *)
PredictionsExact ==
  enc.scaling = "custom" =>
    \A size \in 1..4 : \A list \in 1..ListNum[size] :
      LET p == PredList(size, list)
          own == enc.lists[size][list]
      IN /\ p \in 1..(list - 1) => enc.lists[size][p].coeffs = own.coeffs
         /\ p = list => own.coeffs = DefaultList(size, list) /\ (size >= 3 => own.dc = 16)

SetsDecode ==
  LET sizes(n, name, lcus) ==
        IF Val(Pps, "uniform") = 1
          THEN [i \in 1..(n + 1) |-> (i * lcus) \div (n + 1) - ((i - 1) * lcus) \div (n + 1)]
        ELSE Append([i \in 1..n |-> All(Pps, name)[i] + 1], lcus - n - Total(All(Pps, name)))
      factor(size, list, x, y) ==
        IF Val(Sps, "scaling_enabled") = 0 THEN 16
        ELSE LET l == IF Val(Sps, "scaling_data") = 0 THEN [coeffs |-> DefaultList(size, list), dc |-> 16]
                      ELSE DecodedList(All(Sps, "scaling_lists")[1], size, list)
             IN Factor(size, l.coeffs, l.dc, x, y)
  IN /\ Reads(Vps, VpsTable) /\ Reads(Sps, SpsTable) /\ Reads(Pps, PpsTable)
     /\ enc.csp = "420" =>
          /\ Val(Sps, "pic_width") - 2 * (Val(Sps, "window_left") + Val(Sps, "window_right")) = enc.realWidth
          /\ Val(Sps, "pic_height") - 2 * (Val(Sps, "window_top") + Val(Sps, "window_bottom")) = enc.realHeight
     /\ PredictionsExact => \A size \in 1..4 : \A list \in 1..ListNum[size] :
          /\ enc.scaling = "custom" => Reads(ScalingLists[size][list], ListTable(size))
          /\ \A x, y \in {0, 1, 3, 2 * 2^size - 1} : factor(size, list, x, y) = EncoderFactor(size, list, x, y)
     /\ Tiles => /\ sizes(Val(Pps, "columns_minus1"), "column_width", enc.lcuCols) = ColWidths
                 /\ sizes(Val(Pps, "rows_minus1"), "row_height", enc.lcuRows) = RowHeights

SegmentDecodes(segment) ==
  LET s    == SliceHeader(segment)
      refs == DistancesIn(s, "delta_s0") \o DistancesIn(s, "delta_s1")
  IN /\ Reads(s, SliceTable(s))
     /\ Tiles \/ enc.wpp =>
          [i \in 1..Len(All(s, "entry_point")) |-> All(s, "entry_point")[i] + 1] = Front(segment.lengths)
     /\ Val(s, "segment_address") = segment.address
     /\ segment.independent =>
          /\ 26 + Val(Pps, "init_qp") + Val(s, "slice_qp") = frame.qp
          /\ ~IsIdr => DistancesIn(s, "delta_s0") = frame.neg /\ DistancesIn(s, "delta_s1") = frame.pos
          /\ frame.slice # "I" /\ frame.refLX[1] > 0 =>
               SubSeq(refs, 1, Val(s, "slice_l0_minus1") + 1) = SubSeq(frame.neg \o frame.pos, 1, frame.refLX[1])
          /\ Len(refs) <= Val(Sps, "max_dec_pic_buffering_minus1")

(* A decoder that reads the parameter sets, the SEI messages and the slice *)
(* headers by the tables of the standard finds every element where it is   *)
(* written, and derives from them what the encoder works with: the size of *)
(* the picture, the scaling factors of all blocks, the grid of tiles, the  *)
(* reference pictures, the QP of the slice and the lengths of substreams.  *)
HeadersDecode ==
  LET payload(sei) == SubSeq(sei, 3, Len(sei))
      bits(list)   == FoldLeft(LAMBDA sum, e : sum + e[2], 0, list)
      sized(sei)   == bits(payload(sei)) = 8 * sei[2][3]
  IN frame # <<>> =>
       /\ frame.irap => SetsDecode
       /\ enc.interlaced => sized(PicTiming)
       /\ enc.hash # "none" => sized(HashSei)
       /\ \A segment \in frame.segments : SegmentDecodes(segment)
=============================================================================
