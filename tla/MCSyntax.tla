------------------------------- MODULE MCSyntax -------------------------------
(***************************************************************************)
(* The four layers of the bitstream, checked side by side: the bytes of a  *)
(* slice, the syntax of coding trees, of coefficients, and the headers.    *)
(* They share no state, so that a behaviour is one of a single layer,      *)
(* chosen by layer; the others stay in an initial state.  MCHandover checks*)
(* them together with what the frames keep.                                *)
(***************************************************************************)
EXTENDS EntropyCoding, CodingTree, CoeffCoding, ParameterSets

VARIABLE layer
syntaxVars == <<entropyVars, treeVars, coeffVars, headerVars, layer>>

-----------------------------------------------------------------------------
(* The bytes of a slice.                                                   *)
MCFields ==
  {[kind |-> "u", value |-> 0, n |-> 17], [kind |-> "ue", value |-> 6, n |-> 0],
   [kind |-> "se", value |-> -4, n |-> 0]}
MCSymbols ==
  {[kind |-> "bin", ctx |-> c, value |-> v] : c \in {1, 2}, v \in {0, 1}}
  \cup {[kind |-> "ep", value |-> v, n |-> 24] : v \in {0, 4210752, 2^24 - 1}}
  \cup {[kind |-> "trm", value |-> 0],
        [kind |-> "unary", ctx |-> 1, rest |-> 2, value |-> 3, n |-> 3],
        [kind |-> "unaryEp", value |-> 2, n |-> 4], [kind |-> "golomb", value |-> 13, n |-> 1],
        [kind |-> "remain", value |-> 5, n |-> 0], [kind |-> "remain", value |-> 5, n |-> 2]}
(* The second value of 24 bins ends in bins of 1 that a carry goes through.*)
MCModels == {<<0, 25>>, <<125, 1>>}

-----------------------------------------------------------------------------
(* Coding trees.                                                           *)
MCPic(w, h, slice) ==
  [width |-> w, height |-> h, slice |-> slice, chroma |-> TRUE, lossless |-> FALSE,
   amp |-> FALSE, trDepthIntra |-> 0, qpDelta |-> FALSE, refs |-> <<1, 1>>]

MCPictureConfigs ==
  {[MCPic(16, 16, "B") EXCEPT !.amp = TRUE, !.refs = <<2, 1>>],
   [MCPic(8, 8, "P") EXCEPT !.refs = <<2, 0>>],
   [MCPic(8, 8, "B") EXCEPT !.lossless = TRUE, !.refs = <<1, 3>>],
   [MCPic(16, 16, "I") EXCEPT !.trDepthIntra = 1],
   [MCPic(8, 8, "I") EXCEPT !.trDepthIntra = 1],
   [MCPic(8, 24, "I") EXCEPT !.chroma = FALSE],
   [MCPic(24, 16, "P") EXCEPT !.qpDelta = TRUE]}

MCCu(type, part) ==
  [type |-> type, skipped |-> FALSE, part |-> part, modes |-> <<>>, chromaMode |-> 0,
   pus |-> <<>>, coded |-> {}, trDepth |-> 0]
MCPu(dir, ref, mvd, cand) ==
  [merged |-> FALSE, dir |-> dir,
   ref |-> [l \in 1..2 |-> IF dir = 3 - l THEN 0 ELSE ref[l]],
   mvd |-> [l \in 1..2 |-> IF dir = 3 - l THEN <<0, 0>> ELSE mvd[l]],
   cand |-> [l \in 1..2 |-> IF dir = 3 - l THEN 0 ELSE cand]]

(* Coefficients in some of the blocks of a transform tree.                 *)
MCCoded(p, depth, trDepth) ==
  LET w == CuWidth(trDepth)
      n == CuWidth(depth) \div w
      last == (n - 1) * w
      c == IF w = 4 THEN last - 4 ELSE last
      chroma(sets) == IF p.chroma THEN sets ELSE {}
  IN {{}, {<<0, 0, "y">>}, {<<last, last, "y">>}}
     \cup chroma({{<<c, c, "u">>}, {<<0, 0, "v">>, <<last, 0, "y">>}})

MCIntra(p, depth) ==
  {[MCCu("intra", "2Nx2N") EXCEPT !.modes = <<m>>, !.chromaMode = IF p.chroma THEN k ELSE 0,
                                 !.trDepth = t, !.coded = b] :
     m \in {0, 1, 26, 27}, k \in {1, 26, 34, 27}, t \in depth..(depth + p.trDepthIntra),
     b \in UNION {MCCoded(p, depth, u) : u \in depth..(depth + p.trDepthIntra)}}
MCNxN(p) ==
  {[MCCu("intra", "NxN") EXCEPT !.modes = m, !.chromaMode = IF p.chroma THEN m[1] ELSE 0,
                               !.trDepth = MAX_DEPTH + 1, !.coded = b] :
     m \in {<<26, 26, 2, 34>>, <<1, 0, 1, 9>>}, b \in MCCoded(p, MAX_DEPTH, MAX_DEPTH + 1)}
MCSkip == {[MCCu("inter", "2Nx2N") EXCEPT !.skipped = TRUE, !.pus = <<Merged(i)>>] : i \in {0, 4}}
MCDirs(p, depth, part) ==
  IF p.slice = "P" THEN {1} ELSE IF depth = MAX_DEPTH /\ part # "2Nx2N" THEN {1, 2} ELSE 1..3
MCPus(p, depth, part) ==
  {Merged(1)} \cup
    {MCPu(dir, <<p.refs[1] - 1, IF p.refs[2] > 0 THEN p.refs[2] - 1 ELSE 0>>, <<m, <<0, -1>>>>, 1) :
       dir \in MCDirs(p, depth, part), m \in {<<0, 3>>, <<-1, 1>>}}
MCInter(p, depth, parts) ==
  UNION {{[MCCu("inter", part) EXCEPT !.pus = [i \in 1..Len(Offsets(part)) |-> u],
             !.trDepth = IF part # "2Nx2N" \/ depth = 0 THEN depth + 1 ELSE depth, !.coded = b] :
            b \in MCCoded(p, depth, depth) \cup MCCoded(p, depth, depth + 1),
            u \in MCPus(p, depth, part)} : part \in parts}

(* Coefficients are in blocks of the transform tree.                       *)
MCTree(c) ==
  \A t \in c.coded :
    LET w == IF t[3] = "y" \/ c.trDepth <= MAX_DEPTH THEN CuWidth(c.trDepth) ELSE 8
    IN t[1] % w = 0 /\ t[2] % w = 0
MCWellFormed(p, c) ==
  /\ MCTree(c)
  /\ c.type = "intra" /\ c.chromaMode = 34 => c.modes[1] \in {0, 1, 10, 26}
  /\ c.type = "intra" /\ p.chroma => c.chromaMode \in {0, 1, 10, 26, 34} \cup {c.modes[1]}
  /\ c.type = "inter" /\ c.part = "2Nx2N" /\ ~c.skipped /\ c.pus[1].merged => c.coded # {}

MCFew(p, depth) ==
  {[MCCu("intra", "2Nx2N") EXCEPT !.modes = <<10>>, !.chromaMode = 10, !.coded = b,
      !.trDepth = IF depth = 0 THEN 1 ELSE depth] : b \in {{}, {<<0, 0, "u">>}}}
  \cup IF p.slice = "I" THEN {} ELSE {c \in MCSkip : c.pus[1].idx = 0}
MCModes ==
  {[MCCu("intra", "2Nx2N") EXCEPT !.modes = <<m>>, !.trDepth = MAX_DEPTH] : m \in {0, 1, 26, 27}}
MCParts(p, depth) ==
  {"2Nx2N", "2NxN", "Nx2N"} \cup
  IF depth < MAX_DEPTH /\ p.amp THEN {"2NxnU", "2NxnD", "nLx2N", "nRx2N"} ELSE {}
MCAll(p, depth) ==
  {c \in MCIntra(p, depth) : depth = 0 => c.trDepth > 0}
  \cup (IF depth = MAX_DEPTH THEN MCNxN(p) ELSE {})
  \cup (IF p.slice = "I" THEN {} ELSE MCSkip \cup MCInter(p, depth, MCParts(p, depth)))

(* Pictures of several CUs have few kinds of them, or only their modes     *)
(* differ; pictures of one CU, and CUs of depth 0, have all of them.       *)
MCCus(p, depth) ==
  IF p.qpDelta \/ (p.width = 16 /\ depth = MAX_DEPTH) THEN MCFew(p, depth)
  ELSE IF p.height = 24
    THEN IF depth = MAX_DEPTH THEN MCModes \cup {c \in MCNxN(p) : c.coded = {}} ELSE {}
  ELSE {c \in MCAll(p, depth) : MCWellFormed(p, c)}

-----------------------------------------------------------------------------
(* Transform blocks.                                                       *)
MCBlock(color, depth, mode, coefs) ==
  [color |-> color, type |-> "intra", mode |-> mode, depth |-> depth, coefs |-> coefs,
   rdoq |-> FALSE, slice |-> "I", trskip |-> FALSE, signhide |-> TRUE, lossless |-> FALSE]
MCAt(p, q, r, x, y, z) == [s \in {p, q, r} |-> IF s = p THEN x ELSE IF s = q THEN y ELSE z]
(* Coefficients around the limits of rounding, with any signs.             *)
MCSigned(n) == {n, -n}
MCTriples(p, q, r) ==
  {MCAt(p, q, r, x, y, z) : x \in {-12, 7, 17}, y \in {-5, 11}, z \in {8, -9, 20}}
(* More coefficients than there are flags, and large ones.                 *)
MCDense(n, v) ==
  [s \in {<<x, y>> : x \in 0..3, y \in 0..3} |->
     IF s[1] + s[2] <= n THEN (IF (s[1] + s[2]) % 2 = 0 THEN v ELSE -9) ELSE IF s = <<3, 3>> THEN 40 ELSE 0]

MCBlocks ==
  {MCBlock("y", 4, m, c) : m \in {1, 10, 26}, c \in MCTriples(<<0, 0>>, <<1, 2>>, <<3, 1>>)}
  \cup {[MCBlock("y", 4, 1, c) EXCEPT !.rdoq = TRUE, !.trskip = TRUE] :
          c \in {MCAt(<<0, 0>>, <<1, 2>>, <<3, 1>>, x, -17, z) : x \in MCSigned(9), z \in MCSigned(12)}}
  \cup {[MCBlock("y", 3, m, c) EXCEPT !.rdoq = r] : m \in {9, 25, 34}, r \in {FALSE, TRUE},
          c \in {MCAt(<<1, 0>>, <<0, 6>>, <<6, 6>>, x, 13, z) : x \in {-9, 17}, z \in {11, -20}}}
  \cup {[MCBlock("c", d, 10, MCTriples(<<0, 1>>, <<3, 3>>, <<2, 0>>)) EXCEPT !.coefs = c] : d \in {3, 4},
          c \in {MCAt(<<0, 1>>, <<3, 3>>, <<2, 0>>, -9, 17, 30)}}
  \cup {[MCBlock("c", 2, 10, c) EXCEPT !.type = t] : t \in {"intra", "inter"},
          c \in {MCAt(<<0, 5>>, <<7, 3>>, <<2, 0>>, -9, 17, 30)}}
  \cup {[MCBlock("y", 4, 1, MCDense(n, v)) EXCEPT !.signhide = h, !.lossless = l] :
          n \in {2, 3, 5}, v \in {9, 18, 200}, h \in {FALSE, TRUE}, l \in {FALSE, TRUE}}
  \cup {[MCBlock("y", 2, 1, c) EXCEPT !.slice = "P"] :
          c \in {MCAt(<<1, 1>>, <<13, 6>>, <<4, 9>>, 17, x, -26) : x \in {7, -9, 27}}}

-----------------------------------------------------------------------------
(* Headers.                                                                *)
MCVui == [sar |-> <<0, 0>>, overscan |-> 0, format |-> 5, fullRange |-> 0, colour |-> <<2, 2, 2>>, chromaLoc |-> 0]
MCList(size, list) == [coeffs |-> DefaultList(size, list), dc |-> 16]
MCDefaults == [size \in 1..4 |-> [list \in 1..ListNum[size] |-> MCList(size, list)]]
(* Custom lists: one that differs early, one equal to it, and a large step.*)
MCCustom ==
  [MCDefaults EXCEPT
     ![1][2].coeffs[3] = 200, ![1][5].coeffs = [MCList(1, 5).coeffs EXCEPT ![3] = 200],
     ![2][1].coeffs = [i \in 1..64 |-> IF i % 3 = 0 THEN 250 ELSE 2],
     ![2][3].coeffs = [i \in 1..64 |-> IF i % 3 = 0 THEN 250 ELSE 2],
     ![3][2] = [coeffs |-> [i \in 1..64 |-> i], dc |-> 3],
     ![3][6] = [coeffs |-> [i \in 1..64 |-> i], dc |-> 3],
     ![4][2] = [coeffs |-> [i \in 1..64 |-> 65 - i], dc |-> 255]]

MCEnc ==
  [highTier |-> FALSE, bitdepth |-> 8, interlaced |-> FALSE, level |-> 31, csp |-> "420",
   width |-> 264, realWidth |-> 258, height |-> 136, realHeight |-> 130, lowDelay |-> FALSE, refFrames |-> 3,
   gopLen |-> 8, trDepthInter |-> 0, trDepthIntra |-> 0, scaling |-> "off", lists |-> MCDefaults,
   amp |-> TRUE, sao |-> TRUE, tmvp |-> TRUE, vui |-> MCVui, framerate |-> <<25, 1>>,
   implicitRdpcm |-> FALSE, lossless |-> FALSE, slices |-> "none", signhide |-> TRUE, qp |-> 22,
   trskip |-> FALSE, maxQpDeltaDepth |-> -1, wpp |-> TRUE, deblock |-> [enable |-> TRUE, beta |-> -1, tc |-> 2],
   tileCols |-> 1, tileRows |-> 1, colSplit |-> <<>>, rowSplit |-> <<>>, lcuCols |-> 5, lcuRows |-> 3,
   hash |-> "checksum"]
MCEncs ==
  {MCEnc,
   [MCEnc EXCEPT !.slices = "wpp", !.scaling = "custom", !.lists = MCCustom, !.hash = "md5"],
   [MCEnc EXCEPT !.slices = "tiles", !.wpp = FALSE, !.tileCols = 2, !.tileRows = 2, !.scaling = "default",
                 !.maxQpDeltaDepth = 0, !.gopLen = 0, !.tmvp = FALSE],
   [MCEnc EXCEPT !.tileCols = 3, !.colSplit = <<64, 192>>, !.wpp = FALSE, !.gopLen = 4, !.lowDelay = TRUE,
                 !.csp = "400", !.interlaced = TRUE, !.realWidth = 264, !.realHeight = 136],
   [MCEnc EXCEPT !.lossless = TRUE, !.implicitRdpcm = TRUE, !.deblock.enable = FALSE, !.sao = FALSE,
                 !.framerate = <<0, 0>>, !.csp = "444", !.realWidth = 264, !.realHeight = 136, !.wpp = FALSE],
   [MCEnc EXCEPT !.vui = [sar |-> <<40, 33>>, overscan |-> 2, format |-> 5, fullRange |-> 0,
                         colour |-> <<2, 1, 2>>, chromaLoc |-> 3]],
   [MCEnc EXCEPT !.vui = [sar |-> <<7, 5>>, overscan |-> 1, format |-> 0, fullRange |-> 1,
                         colour |-> <<2, 2, 2>>, chromaLoc |-> 0], !.lowDelay = TRUE]}

MCSegments(e) ==
  {[address |-> 0, independent |-> TRUE, lengths |-> l] :
     l \in IF e.wpp /\ e.slices # "wpp" THEN {<<255, 3, 900>>, <<1, 1, 1>>} ELSE {<<17>>}}
  \cup {[address |-> 5, independent |-> e.slices # "wpp", lengths |-> <<256>>]}
MCRefs(e) ==
  IF e.gopLen = 0 THEN {<< <<1>>, <<>> >>, << <<1, 2, 3>>, <<>> >>}
  ELSE IF e.lowDelay THEN {<< <<1, 4, 8>>, <<>> >>}
  ELSE {<< <<2, 4>>, <<2, 6>> >>, << <<1>>, <<1>> >>}
MCHeaderFrames(e) ==
  {[pictype |-> t, slice |-> s, poc |-> 37, neg |-> r[1], pos |-> r[2], irap |-> t = 21, num |-> n,
    refLX |-> <<Len(r[1]), IF r[2] = <<>> THEN Len(r[1]) ELSE Len(r[2])>>, qp |-> 22 + n,
    interlacing |-> IF e.interlaced THEN 2 ELSE 0, hash |-> <<1, 2, 3>>, segments |-> MCSegments(e)] :
     t \in {1, 21}, s \in {"P", "B"}, r \in MCRefs(e), n \in 0..1}
  \cup {[pictype |-> 19, slice |-> "I", poc |-> 0, neg |-> <<>>, pos |-> <<>>, irap |-> TRUE, num |-> 0,
         refLX |-> <<0, 0>>, qp |-> 25, interlacing |-> IF e.interlaced THEN 1 ELSE 0, hash |-> <<1, 2, 3>>,
         segments |-> MCSegments(e)]}

-----------------------------------------------------------------------------

SyntaxInit ==
  /\ layer \in {"bytes", "tree", "coeffs", "headers"}
  /\ EntropyInit /\ (layer # "bytes" => models = CHOOSE m \in MCModels : TRUE)
  /\ TreeInit /\ (layer # "tree" => pic = CHOOSE p \in MCPictureConfigs : TRUE)
  /\ CoeffInit /\ (layer # "coeffs" => block = CHOOSE b \in MCBlocks : TRUE)
  /\ HeadersInit /\ (layer # "headers" => enc = MCEnc)

SyntaxNext ==
  /\ \/ layer = "bytes" /\ EntropyNext /\ UNCHANGED <<treeVars, coeffVars, headerVars>>
     \/ layer = "tree" /\ TreeNext /\ UNCHANGED <<entropyVars, coeffVars, headerVars>>
     \/ layer = "coeffs" /\ CoeffNext /\ UNCHANGED <<entropyVars, treeVars, headerVars>>
     \/ layer = "headers" /\ HeadersNext /\ UNCHANGED <<entropyVars, treeVars, coeffVars>>
  /\ UNCHANGED layer
=============================================================================
