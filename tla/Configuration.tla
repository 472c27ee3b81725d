---------------------------- MODULE Configuration ----------------------------
(***************************************************************************)
(* From the command line to an open encoder: the options in the order they *)
(* are given (cmdline_opts_parse, kvz_config_parse), the checks of         *)
(* kvz_config_validate, and kvz_encoder_control_init, which derives what   *)
(* the encoder works with and may still fail.                              *)
(*                                                                         *)
(* An option is a record of its name and its value, already a number, a    *)
(* Boolean or a list; strings that are no value of their option are left   *)
(* out, they end the program.  Options of which only the value is kept and *)
(* that no other option or check looks at are left out too.                *)
(* Operators named Wrong... are plausible mistakes in the definition that  *)
(* follows them and are not part of the specification.                     *)
(***************************************************************************)
EXTENDS FiniteSetsExt, TileGrid, GopStructure

CONSTANTS
  CommandLines,  (* the sequences of options that are given                *)
  Cpus,          (* cfg_num_threads                                        *)
  ErpDelta(_),   (* init_erp_aqp_roi: delta QP of a row of LCUs            *)
  MaxOwf         (* bound: frames in flight                                *)

VARIABLES
  line,   (* the options that are still to be parsed                       *)
  files,  (* the files that were named: input, output, debug               *)
  cfg,    (* kvz_config                                                    *)
  phase,  (* parsing, validating, opening, or how it ended                 *)
  enc,    (* what the encoder works with: encoder_control_t                *)
  freed   (* arrays of cfg that encoder_control_free has freed             *)
configVars == <<line, files, cfg, phase, enc, freed>>

Auto == -1

(* kvz_config_init *)
Default ==
  [width |-> 0, height |-> 0, qp |-> 22, period |-> 64, vpsPeriod |-> 0, ref |-> 1, bipred |-> FALSE,
   gop |-> [len |-> 4, lowdelay |-> TRUE, d |-> 3, t |-> 1],
   deblock |-> TRUE, sao |-> TRUE, signhide |-> TRUE, trskip |-> FALSE, lossless |-> FALSE,
   rdpcm |-> FALSE, rd |-> 1, tmvp |-> TRUE, wpp |-> TRUE, owf |-> Auto, threads |-> Auto,
   tileCols |-> 1, tileRows |-> 1, colSplit |-> <<>>, rowSplit |-> <<>>, slices |-> {},
   puInter |-> <<2, 3>>, puIntra |-> <<2, 3>>, interlaced |-> FALSE,
   roi |-> <<>>, erpAqp |-> FALSE, qpInCu |-> FALSE, key |-> <<>>,
   scaling |-> "off", cqmfile |-> "none", bitrate |-> 0,
   level |-> 62, forceLevel |-> TRUE, highTier |-> FALSE]

-----------------------------------------------------------------------------
(* Parsing: kvz_config_parse.                                              *)

(* Tiles turn off WPP, whatever their number, and TMVP, if there are       *)
(* several; WPP can be turned on again after them, TMVP cannot.            *)
Tiled(c, several) == [c EXCEPT !.tmvp = @ /\ ~several, !.wpp = FALSE]
WrongParseTmvp(c, on) == [c EXCEPT !.tmvp = on]
ParseTmvp(c, on) == [c EXCEPT !.tmvp = on /\ c.tileCols = 1 /\ c.tileRows = 1]
ParseTiles(c, cols, rows) ==
  Tiled([c EXCEPT !.tileCols = cols, !.tileRows = rows, !.colSplit = <<>>, !.rowSplit = <<>>], TRUE)
(* A number of columns, or the positions between them.                     *)
ParseColumns(c, uniform, split) ==
  Tiled([c EXCEPT !.tileCols = IF split = <<>> THEN uniform ELSE Len(split) + 1, !.colSplit = split], TRUE)
ParseRows(c, uniform, split) ==
  Tiled([c EXCEPT !.tileRows = IF split = <<>> THEN uniform ELSE Len(split) + 1, !.rowSplit = split], TRUE)
ParseLevel(c, level, force) == [c EXCEPT !.level = level, !.forceLevel = force]
ParseCqm(c, file) == [c EXCEPT !.cqmfile = file, !.scaling = "custom"]

(* What the presets that differ in the options of the model stand for.     *)
FastPreset ==
  [puIntra |-> <<2, 3>>, puInter |-> <<2, 3>>, gop |-> [len |-> 4, lowdelay |-> TRUE, d |-> 4, t |-> 1],
   ref |-> 1, bipred |-> FALSE, signhide |-> FALSE, sao |-> FALSE, deblock |-> TRUE, rd |-> 0, trskip |-> FALSE]
SlowPreset ==
  [puIntra |-> <<1, 4>>, puInter |-> <<0, 3>>, gop |-> [len |-> 8, lowdelay |-> FALSE, d |-> 3, t |-> 1],
   ref |-> 4, bipred |-> TRUE, signhide |-> TRUE, sao |-> TRUE, deblock |-> TRUE, rd |-> 2, trskip |-> FALSE]

(* --gop=8 and --gop=0 leave alone, and reset, the depth of low delay ones.*)
ParseGop(c, o) ==
  [c EXCEPT !.gop = IF o.len = 8 /\ ~o.lowdelay THEN [@ EXCEPT !.len = 8, !.lowdelay = FALSE]
                    ELSE [len |-> o.len, lowdelay |-> o.lowdelay, d |-> o.d, t |-> o.t]]

Parsed(c, o) ==
  CASE o.name = "tiles"  -> ParseTiles(c, o.cols, o.rows)
    [] o.name = "tiles-width-split"  -> ParseColumns(c, o.uniform, o.split)
    [] o.name = "tiles-height-split" -> ParseRows(c, o.uniform, o.split)
    [] o.name = "tmvp"   -> ParseTmvp(c, o.value)
    [] o.name = "gop"    -> ParseGop(c, o.value)
    [] o.name = "level"  -> ParseLevel(c, o.value, o.force)
    [] o.name = "cqmfile" -> ParseCqm(c, o.value)
    [] o.name = "preset" ->
         LET p == o.value IN [ParseGop(c, p.gop) EXCEPT
           !.puIntra = p.puIntra, !.puInter = p.puInter, !.ref = p.ref, !.bipred = p.bipred, !.rd = p.rd,
           !.signhide = p.signhide, !.sao = p.sao, !.deblock = p.deblock, !.trskip = p.trskip]
    [] OTHER -> [c EXCEPT ![o.name] = o.value]

(* 2 to 47 columns or rows, and 1 to 47 with --tiles.                      *)
MaxTiles == 48
ValueOk(o) ==
  CASE o.name = "tiles" -> {o.cols, o.rows} \subseteq 1..(MaxTiles - 1)
    [] o.name \in {"tiles-width-split", "tiles-height-split"} ->
         o.split = <<>> => o.uniform \in 2..(MaxTiles - 1)
    [] o.name = "gop" ->
         IF o.value.lowdelay THEN o.value.len \in 1..32 /\ o.value.d \in 1..8 /\ o.value.t \in 1..15
         ELSE o.value.len \in {0, 8}
    [] o.name = "level" -> o.value \in 10..62
    [] OTHER -> TRUE

-----------------------------------------------------------------------------
(* kvz_config_validate.                                                    *)

(* A split rises, lies between LCUs, and ends within the picture.          *)
SplitOk(split, size) ==
  \A i \in 1..Len(split) :
    split[i] > (IF i = 1 THEN 0 ELSE split[i - 1]) /\ split[i] % 64 = 0 /\ split[i] < size
PuDepthsOk(pu, max) == {pu[1], pu[2]} \subseteq 0..max /\ pu[1] <= pu[2]

(* validate_hevc_level: sizes and bit rates of the levels of the model.    *)
Levels == (10 :> [size |-> 36864, rate |-> 128]) @@ (20 :> [size |-> 122880, rate |-> 1500])
          @@ (41 :> [size |-> 2228224, rate |-> 20000]) @@ (62 :> [size |-> 35651584, rate |-> 240000])
LevelOk(c) ==
  /\ c.level \in DOMAIN Levels
  /\ c.highTier => c.level >= 40
  /\ c.forceLevel \/ LET l == Levels[c.level] IN
       /\ c.highTier \/ c.bitrate <= l.rate * 1000
       /\ c.width * c.width <= 8 * l.size /\ c.height * c.height <= 8 * l.size
       /\ c.width * c.height <= l.size

Valid(c) ==
  /\ c.width > 0 /\ c.height > 0 /\ c.width % 2 = 0 /\ c.height % 2 = 0
  /\ c.gop.len > 0 /\ c.period > 1 /\ ~c.gop.lowdelay => c.period % c.gop.len = 0
  /\ c.ref \in 1..15 /\ c.rd \in 0..3 /\ c.owf >= Auto /\ c.qp \in 0..51 /\ c.bitrate >= 0
  /\ PuDepthsOk(c.puInter, 3) /\ PuDepthsOk(c.puIntra, 4)
  /\ SplitOk(c.colSplit, c.width) /\ SplitOk(c.rowSplit, c.height)
  /\ c.rdpcm => c.lossless
  /\ "wpp" \in c.slices => c.wpp
  /\ c.scaling = "custom" => c.cqmfile # "none"
  /\ LevelOk(c)

-----------------------------------------------------------------------------
(* kvz_encoder_control_init.                                               *)

CeilDiv(a, b) == (a + b - 1) \div b
Smaller(a, b) == IF a < b THEN a ELSE b
Larger(a, b)  == IF a > b THEN a ELSE b
Clipped(low, high, x) == Larger(low, Smaller(high, x))

(* The size of a picture or field, in pixels and in LCUs: whole CUs of 8.  *)
CodedWidth(c)  == 8 * CeilDiv(c.width, 8)
FieldHeight(c) == IF c.interlaced THEN c.height \div 2 ELSE c.height
CodedHeight(c) == 8 * CeilDiv(FieldHeight(c), 8)
LcuColumns(c)  == CeilDiv(c.width, 64)
LcuRows(c)     == CeilDiv(FieldHeight(c), 64)

(* get_max_parallelism: the LCUs that can be encoded at once.  Frame k of  *)
(* those in flight is on another diagonal.                                 *)
Diagonal(c, k) ==
  LET middle == CeilDiv((LcuColumns(c) - 1) + (CeilDiv(c.height, 64) - 1) * 2, 2)
  IN IF k % 2 = 0 THEN middle + (k \div 2) * 4 ELSE middle - ((k + 1) \div 2) * 4
OnDiagonal(c, d) ==
  LET w == LcuColumns(c)  h == CeilDiv(c.height, 64)
  IN IF d < Smaller(2 * h, w) THEN 1 + d \div 2
     ELSE Smaller(Smaller(h, CeilDiv(w, 2)), h + CeilDiv(w, 2) - 1 - CeilDiv(d, 2))
Parallelism(c, owf) ==
  LET w == LcuColumns(c)  h == CeilDiv(c.height, 64)
      last   == (w - 1) + (h - 1) * 2
      reached(k) == \A j \in 0..k : Diagonal(c, j) \in 0..last
  IN IF c.period = 1
       THEN ((owf + 1) * (IF c.wpp THEN Smaller(h, CeilDiv(w, 2)) ELSE c.tileCols * c.tileRows)) \div 2
     ELSE IF c.wpp
       THEN MapThenSumSet(LAMBDA k : OnDiagonal(c, Diagonal(c, k)), {k \in 0..owf : reached(k)})
     ELSE c.tileCols * c.tileRows

MaxThreads(c) == Larger(1, IF c.threads < 0 THEN Cpus ELSE c.threads)
(* owf is raised while that adds parallelism and there are threads for it. *)
AutoOwf(c) ==
  LET gains(n) == Parallelism(c, n) > (IF n = 0 THEN 0 ELSE Parallelism(c, n - 1))
      stop == Min({n \in 0..MaxOwf : ~gains(n) \/ Parallelism(c, n) >= MaxThreads(c)})
  IN (IF gains(stop) THEN stop ELSE stop - 1) + 2
Owf(c) ==
  LET owf == IF c.owf < 0 THEN AutoOwf(c) ELSE c.owf
  IN IF c.interlaced /\ owf % 2 = 1 THEN owf + 1 ELSE owf
Threads(c) ==
  IF c.threads >= 0 THEN c.threads
  ELSE Smaller(MaxThreads(c), Parallelism(c, IF c.owf < 0 THEN AutoOwf(c) ELSE c.owf))

(* Layers of a group: only 4 have weights for rate control.                *)
NumLayers(c) ==
  IF c.gop.len = 0 THEN 0
  ELSE IF c.gop.lowdelay THEN Max({Layer(c.gop.len, c.gop.d, p) : p \in 1..c.gop.len})
  ELSE 4

(* The delta QPs of a picture: those of the ROI file, of the projection of *)
(* the sphere, and of the QP, if that is coded in CUs.                     *)
WithErp(c) ==
  IF ~c.erpAqp THEN c.roi
  ELSE LET rows == LcuRows(c) IN
       [y \in 1..rows |->
          IF c.roi = <<>> THEN <<ErpDelta(y)>>
          ELSE LET from == c.roi[(((y - 1) * Len(c.roi)) \div rows) + 1]
               IN [x \in DOMAIN from |-> Clipped(-51, 51, from[x] + ErpDelta(y))]]
DeltaQps(c) ==
  IF ~c.qpInCu THEN WithErp(c)
  ELSE LET roi == IF WithErp(c) = <<>> THEN << <<0>> >> ELSE WithErp(c)
       IN [y \in DOMAIN roi |-> [x \in DOMAIN roi[y] |-> Clipped(-51, 51, roi[y][x] + c.qp - 26)]]

(* What fails after the checks, in this order; at each of these moments    *)
(* some arrays are still those of cfg, of which the fields were copied.    *)
Failure(c) ==
  CASE c.scaling = "custom" /\ c.cqmfile = "missing" -> "scaling"
    [] OTHER ->
       IF NumLayers(c) > 4 THEN "layers"
       ELSE IF c.tileCols > LcuColumns(c) \/ c.tileRows > LcuRows(c) THEN "tiles"
       ELSE "none"
StillShared(c, failure) ==
  {a \in {"roi", "key"} :
     /\ c[a] # <<>>
     /\ a = "roi" => failure # "tiles"}

Control(c) ==
  [cols |-> TileSizes(c.tileCols, c.colSplit, LcuColumns(c)),
   rows |-> TileSizes(c.tileRows, c.rowSplit, LcuRows(c)),
   owf |-> Owf(c), threads |-> Threads(c),
   qp |-> IF c.qpInCu THEN 26 ELSE c.qp, dqps |-> DeltaQps(c),
   qpDelta |-> c.bitrate > 0 \/ DeltaQps(c) # <<>>,
   deblock |-> c.deblock /\ ~c.lossless, sao |-> c.sao /\ ~c.lossless,
   signhide |-> c.signhide /\ ~c.lossless, trskip |-> c.trskip /\ ~c.lossless,
   vpsPeriod |-> IF c.vpsPeriod >= 0 THEN c.vpsPeriod * c.period ELSE -1]
NoControl == [cols |-> <<>>]

-----------------------------------------------------------------------------
(* cmdline_opts_parse, and the calls of main after it.                     *)

ConfigInit ==
  /\ line \in CommandLines
  /\ files = {} /\ cfg = Default /\ phase = "parsing" /\ enc = NoControl /\ freed = {}

ParseOption ==
  /\ phase = "parsing" /\ line # <<>>
  /\ LET o == Head(line) IN
     \/ /\ o.name \in {"input", "output", "debug"}
        /\ files' = files \cup {o}
        /\ phase' = IF \E f \in files : f.name = o.name THEN "refused" ELSE phase
        /\ UNCHANGED cfg
     \/ /\ o.name \in {"version", "help"} /\ phase' = "printed"
        /\ UNCHANGED <<files, cfg>>
     \/ /\ o.name \notin {"input", "output", "debug", "version", "help"}
        /\ IF ValueOk(o) THEN cfg' = Parsed(cfg, o) /\ UNCHANGED phase
           ELSE phase' = "refused" /\ UNCHANGED cfg
        /\ UNCHANGED files
  /\ line' = Tail(line)
  /\ UNCHANGED <<enc, freed>>

(* The name of the input may tell the resolution.                          *)
EndOfLine ==
  /\ phase = "parsing" /\ line = <<>>
  /\ IF {"input", "output"} \subseteq {f.name : f \in files} /\ cfg.vpsPeriod >= 0
       THEN \E f \in files : f.name = "input" /\
              IF cfg.width # 0 \/ cfg.height # 0 THEN phase' = "validating" /\ UNCHANGED cfg
              ELSE IF f.size = <<>> THEN phase' = "refused" /\ UNCHANGED cfg
              ELSE /\ cfg' = [cfg EXCEPT !.width = f.size[1], !.height = f.size[2]]
                   /\ phase' = "validating"
       ELSE phase' = "refused" /\ UNCHANGED cfg
  /\ UNCHANGED <<line, files, enc, freed>>

Validate ==
  /\ phase = "validating"
  /\ phase' = IF Valid(cfg) THEN "opening" ELSE "refused"
  /\ UNCHANGED <<line, files, cfg, enc, freed>>

OpenControl ==
  /\ phase = "opening"
  /\ IF Failure(cfg) = "none"
       THEN phase' = "open" /\ enc' = Control(cfg) /\ UNCHANGED freed
       ELSE phase' = "refused" /\ freed' = StillShared(cfg, Failure(cfg)) /\ UNCHANGED enc
  /\ UNCHANGED <<line, files, cfg>>

ConfigDone == phase \in {"open", "refused", "printed"} /\ UNCHANGED configVars
ConfigNext == ParseOption \/ EndOfLine \/ Validate \/ OpenControl \/ ConfigDone
ConfigSpec == ConfigInit /\ [][ConfigNext]_configVars

-----------------------------------------------------------------------------
(* Properties.                                                             *)

(* The QP of an LCU of a picture of QP qp: kvz_set_lcu_lambda_and_qp.      *)
LcuQps(qp, dqps) ==
  IF dqps = <<>> THEN { <<1, 1, qp>> }
  ELSE {<<y, x, Clipped(0, 51, qp + dqps[y][x])>> : y \in 1..Len(dqps), x \in 1..Len(dqps[1])}

(* An encoder that was opened can work, whatever the order of the options: *)
(* each column and row of tiles has an LCU and together they make up the   *)
(* picture, motion is not predicted from other frames if there are tiles,  *)
(* rows are slices only with WPP; with fields the ring of owf + 1 states   *)
(* is odd, so that both fields of a picture come out together              *)
(* (src/src/encoder.c:285); all frames in flight have threads; the QPs are *)
(* the same whether they are coded in slices or in CUs.                    *)
OpenedIsSound ==
  phase = "open" =>
    /\ \A i \in DOMAIN enc.cols : enc.cols[i] >= 1
    /\ (cfg.interlaced => cfg.rowSplit = <<>>) => \A j \in DOMAIN enc.rows : enc.rows[j] >= 1
    /\ Total(enc.cols) = CeilDiv(CodedWidth(cfg), 64) /\ Total(enc.rows) = CeilDiv(CodedHeight(cfg), 64)
    /\ Len(enc.cols) * Len(enc.rows) > 1 => ~cfg.tmvp
    /\ "wpp" \in cfg.slices => cfg.wpp
    /\ enc.owf >= 0 /\ enc.threads >= 0
    /\ cfg.interlaced => enc.owf % 2 = 0
    /\ cfg.owf = Auto /\ cfg.threads = Auto =>
         enc.threads <= Cpus /\ (enc.threads < Cpus =>
           \A more \in 1..MaxOwf : Parallelism(cfg, enc.owf + more) <= Parallelism(cfg, enc.owf) \/ cfg.period = 1)
    /\ LcuQps(enc.qp, enc.dqps) = LcuQps(cfg.qp, WithErp(cfg))
    /\ enc.dqps # <<>> => enc.qpDelta
    /\ cfg.lossless => ~(enc.deblock \/ enc.sao \/ enc.signhide \/ enc.trskip)

(* "Set fields that are not copied to NULL" (src/src/encoder.c:226): an    *)
(* encoder control that could not be opened leaves the arrays of the       *)
(* configuration to their owner.                                           *)
ConfigArraysKept == freed = {}
=============================================================================
