# Verification of kvazaar

TLA+ models of the HEVC encoder kvazaar: its threads and queues, the order in which pictures are coded and
returned, the ownership of pictures, the dependencies between the jobs that encode several frames at once, the filters
inside a frame, rate control, the division into tiles, slices and rows, the searches and predictions, the
configuration, and the syntax that is written, against a decoder. Left out are the values of pixels and the costs by which
decisions are made: where the code compares costs the models allow either result. Each model is
checked with TLC on small instances; central safety properties are proved with TLAPS for all sizes.

`src/` below is the root of the repository; its C sources are in `src/src/`.

## Inventory

| Component | Source | State | Operations | Modules |
|---|---|---|---|---|
| Thread queue | `threadqueue.c`, `threads.h` | list of ready jobs, thread count, stop flag; per job: state, lock, count of dependencies, reverse dependencies, reference count | init, job create / dep_add / submit / waitfor / copy_ref / free, stop, free; the worker loop | `ThreadQueue`, `JobScheduler` |
| Command line program | `encmain.c` | `input_handler_args`, two semaphores, `recon_buffer`, the open files | input thread, encoding loop, `output_recon_pictures`, clean-up | `EncMain` |
| Input frame buffer | `input_frame_buffer.c` | ring of pictures and presentation times, counters, `gop_skipped`, `delay` | `kvz_encoder_feed_frame` with a picture or NULL | `InputFrameBuffer`, `PictureReorder` |
| Picture order and references | `encoderstate.c`, slice header in `encoder_state-bitstream.c`, GOP tables in `cfg.c` | `num`, `poc`, `irap_poc`, `pictype`, list of references | `kvz_encoder_prepare`, `encoder_state_init_new_frame`, `encoder_state_remove_refs`, slice header | `PictureOrder`, `GopStructure` |
| Frame pipeline | `kvazaar.c`, `kvz_encode_one_frame` | ring of `owf + 1` encoder states, `cur_state_num`, `out_state_num`, `frames_started`, `frames_done`, the jobs of each state | `kvazaar_encode`, `kvazaar_field_encoding_adapter` | `FramePipeline` |
| LCU job dependencies | `encoder_state_encode_leaf`, `fracmv_within_tile` | the jobs of LCUs of all frames in flight | create the jobs of a frame, run a job | `Wavefront` |
| Opening and closing | `kvazaar.c`, `encoder.c` | allocation of the states | `kvazaar_open`, `kvazaar_close` | `Configuration`, `EncoderTree`, `PictureOwnership` |
| Picture ownership | `image.c`, `imagelist.c`, `cu.c`, `videoframe.c` | reference counts, lists copied from state to state | alloc, copy_ref, make_subimage, free; add, remove, copy contents | `PictureOwnership` |
| LCU jobs | `encoderstate.c`, `filter.c`, `sao.c` | reconstruction, pixels saved before deblocking and before SAO | search, deblock vertical / rightmost / horizontal, save, SAO | `LcuFilters` |
| Rate control | `rate_control.c` | bits of the group and in total, handed from frame to frame; lambda and bits of LCUs | `kvz_set_picture_lambda_and_qp`, `gop_allocate_bits`, `update_parameters`, `kvz_set_lcu_lambda_and_qp` | `RateControl` |
| Tree of encoder states | `encoder_state-ctors_dtors.c`, `encoder_state-geometry.c`, `encoderstate.c` | tiles, slices, rows, leaves | init of the tree, encode a leaf, write the bitstream of the tree | `EncoderTree`, `TileGrid` |
| Configuration | `cfg.c`, `cli.c`, `encoder.c` | `kvz_config`, `encoder_control_t` | parse an option, validate, open the control, free it | `Configuration`, `GopStructure`, `TileGrid` |
| Bitstream, CABAC | `bitstream.c`, `cabac.c`, `nal.c` | bytes, count of zeros; low, range, buffered and outstanding bytes | put bits, Exp-Golomb, NAL unit, encode a bin, flush, move a substream | `EntropyCoding` |
| Coding tree and residuals | `encode_coding_tree.c`, `context.c`, `rdo.c`, `quant-generic.c` | coding units, QP that is predicted, levels | encode a CTU, quantise, hide a sign, encode levels | `CodingTree`, `CoeffCoding` |
| Headers | `encoder_state-bitstream.c`, `scalinglist.c` | none | VPS, SPS, PPS, SEI, slice header | `ParameterSets` |
| Prediction of motion | `inter.c`, `search_inter.c` | candidates of a unit | AMVP, merge, temporal candidates, search of a unit | `MotionCandidates` |
| Search of motion vectors | `search_inter.c` | best vector, pattern, points compared | hexagon, diamond, TZ, full search, early termination | `MotionSearch` |
| Interpolation | `ipol-generic.c`, `search_inter.c`, `inter.c` | filtered rows, best of each step | steps of `search_frac`, prediction from one or two pictures | `Interpolation` |
| Search of the coding tree | `search.c` | one copy of the LCU for each depth | `search_cu`, copies up and down | `SearchTree` |
| Pixel decisions, strategies | `search_intra.c`, `intra.c`, `transform.c`, `strategies/` | pixels and coefficients | sequential computation in one job | not modelled |

How they interact. The input thread of `encmain.c` hands pictures to the main thread through two semaphores. The
main thread calls `kvazaar_encode` once per picture, then with NULL until nothing comes out. `kvazaar_encode`
prepares an encoder state, passes the picture through the input frame buffer, which returns another (or none) in
coding order, gives it an order count and a list of references, creates one job per LCU and one for the bitstream,
and waits for the bitstream of the oldest frame when the ring of states is full. Workers of the thread queue run
the jobs; jobs of different frames depend on each other.

What is hard in it:

* interleavings of worker threads and the main thread over two kinds of locks, two conditions and reference counts
  without locks (`threadqueue.c`);
* a picture's pixels are read by other frames' jobs while it is still being encoded; only dependency edges keep a
  job from reading what is not final (`encoder_state_encode_leaf`);
* three numberings of pictures (arrival, coding order, order count) restarted at different places for each kind of
  group of pictures, computed independently in `input_frame_buffer.c` and `encoderstate.c`;
* a filter needs pixels that the next LCU has not written yet, so each job leaves a margin to others and keeps copies
  of what they need unfiltered (`filter.c`, `sao.c`, `search.c`);
* encoder and decoder derive the same thing twice, from different data structures: contexts, candidates, predicted
  QPs, hidden signs, addresses of segments. An error shows as noise, or not before a decoder by someone else;
* options change one another, in the order in which they are given;
* ends: the last, incomplete group, the emptying of the ring, the end of the input thread;
* failure paths of `encmain.c` and of `kvz_threadqueue_init`.

The full list, each at its line, is under `hazards` in `PROJECT.json`.

## Modules and how they correspond to the code

`PROJECT.json` maps every definition to the lines that it models. In every module an operator named `Wrong...` is
not the code: it is the definition that follows it with one plausible mistake. Replacing the one by the other makes
a run report the violation of the property, which shows that the property depends on that line.

**`JobScheduler`** is the promise of the thread queue to its users: a job goes through *none, created, submitted,
running, done* once and does not run before its dependencies are done. **`ThreadQueue`** is the code. A step is one
critical section, or the part of one up to the next lock. The control points of a worker (`wpc`) and of the main
thread (`mpc`) are the places between. `qlock` and `jlock` hold locks only while they are kept over several
steps; `waitset` is the condition `job_available`; `handles` are the references the encoder keeps; `deps` is a
history variable. The refinement maps the states of jobs and `deps` to `JobScheduler`.

**`EncMain`** has the input thread (`rpc`) and the main thread (`mpc`) with a step per access to shared data. The
encoder is external: it keeps at most `Latency` pictures and gives one back within the reordering of
`PictureReorder`. Files are numbered by how often the input has been opened (`rfile`, `opened`).

**`PictureReorder`** is the promise of the input frame buffer: pictures overtake at most `Window` others and at
most `Capacity` are kept. **`InputFrameBuffer`** is `kvz_encoder_feed_frame` line by line, for every configuration
in `Configs`, with presentation times that may jump. It implements `PictureReorder`; the same module stands
for the encoder in `EncMain`, which joins the two.

**`GopStructure`** has the tables of `--gop=8` and the low delay tables computed by `kvz_config_process_lp_gop`.
**`PictureOrder`** extends `InputFrameBuffer` (owf 0) by `kvz_encoder_prepare` and `encoder_state_init_new_frame`:
order count, type of picture, references kept. A decoder (external: `dpb`, `cvs`, `tid0Poc`, `coded`) is run on
the headers that are written, only 5 bits of the order count and the differences in the reference picture set, and
notes in `mismatch` what it cannot find.

**`Wavefront`** has the LCU jobs of all frames. `StartFrame` creates the jobs of a frame that waits for one earlier
frame and refers to any frames that it waits for in any number of steps (`awaited`); `EncodeLcu` is a job that
runs. `Reach` is what `fracmv_within_tile` allows motion vectors to read. **`FramePipeline`** extends `PictureOrder`
and `Wavefront` by the ring of states and the calls of the API; the property `WaitsForReferences` says that it
respects the guard of `StartFrame`. The thread queue appears in it only as what `JobScheduler` promises.

**`PictureOwnership`** has every reference count of pictures and cu arrays. Objects are numbered by picture; the lists
of the states, sub-images of tiles, the input buffer and the caller hold references, and `used` is what the jobs of a
frame were given. Which pictures leave a list is left open (`kept`), so that it holds for every group. `CloseStops`
and `CloseFrees` are `kvazaar_close` between any two calls.

**`LcuFilters`** is the job of one LCU in steps: search, save for intra prediction, deblock vertical edges, the
rightmost ones of the LCU before, horizontal edges, save for SAO, SAO. A pixel is `<<plane, x, y>>`; its value is
abstracted to the filters that have changed it, edges to those of the 8 x 8 grid, all of them taken to be boundaries of
blocks, which is when most pixels change. The width of an LCU is a parameter: the code has 64, and smaller ones, with
the same margins, let more LCUs be in progress at once. Jobs depend on each other as in `Wavefront`.

**`RateControl`** has numbers of bits as they are counted by the jobs and handed from frame to frame, and, for the
floating point parameters, from which frame or LCU they come. The formulas are left out.

**`TileGrid`**, **`EncoderTree`**: the grid of tiles and its scan, the tree that `kvz_encoder_state_init` builds
(a node follows from its type, slice, tile and row), its leaves, the jobs of the leaves, and the access unit that is
joined from their streams. The decoder's side is stated on the sequence of LCUs, bits after them and slice headers.

**`Configuration`**: an option at a time, as they change `kvz_config`, then `kvz_config_validate`, then
`kvz_encoder_control_init`. Values are numbers already; options that are only stored are left out.

**`EntropyCoding`**, **`CodingTree`**, **`CoeffCoding`**, **`ParameterSets`** are the four layers of the syntax. Each
has the encoder's functions as operators, followed by a decoder written after the standard (external). Bytes: the
arithmetic coder with its 32 bit registers, cut to 2^32, against the arithmetic decoder. Syntax elements are
`<<name, context, value>>` and read back by `SyntaxReader`. In `CodingTree` the depth of the tree is a parameter, so
that one LCU of a small picture has CUs of all depths.

**`MotionCandidates`**: the neighbours of a unit and their motion in, its candidates out, for the encoder and, in the
operators `Std...`, for the decoder; the actions are the search of a unit with those candidates. **`MotionSearch`**:
which vectors the searches compare. **`Interpolation`**: a sample is the place it stands for, so that a filter is
right if the places of its taps are those of the sample it makes; blocks are filtered, shared and copied as in
`ipol-generic.c`. A block of 4 x 2 has all borders that a larger one has. **`SearchTree`**: the recursion of `search_cu`
as a stack, the copies of the LCU for each depth, and the mode that each cell's information, pixels and coefficients
are from.

`MC...` modules define the configurations for TLC. `MCHandover`, which takes in `MCSyntax`, and `MCDecisions` put
modules side by side that share no variable: a behaviour is one of a single subject, which the first state chooses, so
that one run checks what separate ones would.

## Runs

| Run | Question | Bounds |
|---|---|---|
| `tq_safety` | all safety of the thread queue, and that it implements `JobScheduler` | 3 jobs, 0 to 2 workers, 2 dependencies at once, 2 handles per job, thread creation may fail; symmetric in jobs and workers |
| `tq_live` | every submitted job runs, every wait and close returns | 2 jobs, 2 workers |
| `main` | the two threads of `encmain.c`: exclusion, nothing lost, nothing left, failures reported, always ends | files of 0 to 6 pictures, from any place in them (`--seek`), looped or not, any failure |
| `order` | no picture lost in the buffer, decoding times, refinement of `PictureReorder`; the stream can be decoded from its headers, in display order, from every intra picture | sequences up to 41 pictures, a jump in time after the first or around the eighth, `--gop=8` open and closed, `--gop=0`, 96 low delay groups |
| `order_temporal4` | *violation*: `--gop=lp-g8d4t4` cannot write its header | 30 pictures |
| `order_closed_period` | *violation*: "Every Nth picture is intra" with closed groups | 30 pictures, periods 8, 16, 24, 32 |
| `pipeline` | frames come back in order, no LCU is encoded before what it may refer to, no bitstream lost | up to 18 pictures of 2 x 3 LCUs, 21 configurations, owf 0 to 8 |
| `pipeline_open_gop` | *violation*: open groups with intra periods and `--owf` | 18 pictures |
| `handover` | pictures stay alive while they are used and counts are exact; rate control adds up bits of the same frames; filters read pixels in the state they need, and motion vectors reach only final ones; a decoder gets back the bytes, the coding units, the levels and the headers | rings of 1 to 3 states, 3 or 4 pictures, 1 or 2 tiles; 7 frames of 2 LCUs, 7 kinds of groups; frames of up to 3 x 2 or 5 x 3 LCUs, filters on or off; slices of 2 substreams and 2 symbols from 13; pictures of up to four CUs; 4 x 4 to 32 x 32 blocks; every branch of the headers |
| `decisions` | tiles, slices and rows are decodable and wait for what they need; an encoder that opens can work; candidates are the decoder's; the searches are thorough and consistent; predictions are exact | 13 divisions (two of them refused), parameter sets sent once, again or never, 2 frames in flight; all pairs of 39 options, triples of 11; all CUs of a tile of 152 x 120; three depths of CUs; ranges of vectors of 5 x 6; blocks of 4 x 2 in a picture of 32 x 20 |
| `slices_tiles_wpp` | *violation*: segments of rows in tiles with `--slices=tiles+wpp` | 4 x 4 LCUs, 2 x 2 tiles |
| `config_arrays` | *violation*: arrays of the configuration are freed twice when opening fails | pairs of options |

Why the bounds are enough. In the thread queue two workers and the main thread already contend for each pair of
locks in every order; three jobs give a chain, a fan-out, a fan-in, and a doubled dependency; more handles only
repeat counting. In `EncMain` there is one slot, so that six pictures exceed the encoder's delay, the reordering
and the buffer. The buffer and the order of pictures depend on positions modulo the group length and the period:
41 pictures cover five groups of eight, a full wrap of the 5 bits of the order count, and every length of the
last group; every accepted period up to there is included but 1 (see *Defects*). `Reach` and the dependencies only look one LCU down and
to the right, so that 2 x 3 LCUs have first, last and middle columns; `ReferencesFinal` is also proved for all sizes.
A state of the ring is used again after `owf + 1` pictures, so that 4 pictures with owf 2 use the first again.
Filters reach at most into the next LCU: three columns and two rows have a first, a middle and a last one, and
partial LCUs of 8 pixels are narrower than the margin. A carry needs bytes of 0xff behind the one that is kept back: 24 bypass
bins of ones make them with two symbols. Candidates depend on the place of a unit in its LCU and on the borders: the
tile has two and a half LCUs in a row and nearly two in a column. Options act on one another in pairs; the eleven that act on
the same fields are tried in triples. Steps of a pattern search repeat after the second: 5 x 6 vectors let a hexagon
move twice in each direction. `search_cu` looks at its own level and the one below, which three levels already stack.

Deadlock is checked in every run but `tq_safety`: there `pthread_create` may fail, and the program then hangs (see
below).

### Defects

Shown by runs:

* `order_temporal4`: with `--gop=lp-g8d4t4` picture 8 refers to picture 4, which is marked as a reference (`cfg.c:1292`),
  but picture 7, coded between them, names only pictures 6 and 0 or older ones. `encoder_state_remove_refs` (`encoderstate.c:1103`)
  drops what the picture at hand does not name, so that picture 4 is gone when picture 8 is coded.
* `order_closed_period`: with closed groups the intra pictures are `--period` + 1 pictures apart, because
  `encoderstate.c:1199` does not count the extra picture. The help says "Every Nth picture is intra."
* `pipeline_open_gop`: an I frame waits for no frame before it, and the frame after it only for the I frame. With
  an open group the latter refers to frames before the I frame, which other threads may still be encoding.
* `slices_tiles_wpp`: the address of a row's segment is computed with the width of the tile.
* `config_arrays`: the arrays `roi.dqps` and `optional_key` still belong to the configuration when a half opened
  encoder control is freed.

Found while modelling; the models do what the code does, and the properties leave these cases out by name:

* `threadqueue.c:385`: when `pthread_create` fails, `kvz_threadqueue_init` keeps the lock of the queue while it calls
  `kvz_threadqueue_free`, which locks it again, and does not return (`InitFailed`, excepted in `NoLockCycle`).
* `encmain.c:209`: with `--loop-input` the input thread closes the `FILE` that main opened and main closes it once
  more, while the one that is open stays open. `encmain.c:651`: when encoding or writing fails, main destroys the
  semaphores without joining the input thread (`AllWritten` is about successful ends, and files that are not repeated).
* `encoderstate.c:1238`: with `--gop=8 -p1`, which `tests/test_gop.sh` runs, pictures are reordered but each is an IDR
  picture, so that they are displayed in coding order (period 1 is not among the configurations of `order`).
* `cfg.c:1390`: the check that a period is whole groups lets a period of 1 pass. With `--gop=8 -p1 --no-open-gop` the
  input buffer then alternates between intra pictures and the first position of a group, so that pictures are asked
  for twice: with four pictures, 0, 2 and 1 are returned and then the assertion `next_pic != NULL` fails
  (`GroupsWhole` excludes it).
* `kvazaar.c:352`: interlaced with `--gop=8` the input buffer can start with a second field, so that the first of the
  two calls returns nothing and the adapter drops what the second returns (the interlaced configurations of
  `pipeline` have no groups).
* `encoderstate.h:317` compares the number of the picture in coding order with a multiple of the intra period. In open
  groups that are coded out of order an intra picture has another number, so that the parameter sets sent again are
  never where decoding can start; `README.md:113` says "Send VPS with every Nth intra frame" (`EncoderTree` sends them
  by number, and says nothing of where decoding can start).
* `search_inter.c:879`: the diamond search leaves out a point "where we came from so it's checked already"
  (`search_inter.c:863`). The number of the point is computed for another order of the points, and is never that of
  the point it came from: after a step up it is the left one, after one to the right the one below, after one down the
  right one, after one to the left the upper one (`SearchIsThorough` leaves that one point out, and no other).
* `search_inter.c:901` compares the extra vector, cut to pixels, with the candidates rounded to pixels, whose windows
  are around them cut to pixels. An extra vector that is no candidate may have no window: with the candidate (3,0) and
  the extra vector (4,0), in quarters of a pixel, none is around (1,0) (`SearchIsThorough` excepts extra vectors that
  a rounded candidate equals).
* `encoder_state-bitstream.c`: with `--slices=wpp` and several tiles the rows of later tiles have no segment of their own or
  another's address; addresses of custom slices that are not at the start of a row, with WPP, give a negative number
  of LCUs; two custom slices of several tiles signal the end of the slice only in the last tile. The geometries of
  `decisions` leave these combinations out, and the last two cannot be given on the command line. The assertion of
  `encoder_state-ctors_dtors.c:517` only fails for layouts of which an earlier part is refused.
* `encoderstate.c:915`: with tiles and WPP (experimental, `cli.c:504`) a tile of one row of LCUs is encoded in the
  thread of the caller without waiting for its references.
* With `--slices=wpp` the header of the first segment announces the entry points of all rows, although the others are
  segments of their own (part of `SegmentsDecode` as the code has it).
* The VPS announces one picture and no reordering, the SPS more. The conformance window of 4:0:0 is halved although its
  unit is one pixel. Interlaced pictures whose height is two more than a multiple of four are accepted, but cropped
  wrong by a line.
* `scalinglist.c`: whether a list can be predicted is decided by its first eight coefficients, and its DC is compared
  with itself. `HeadersDecode` is about lists for which that makes no difference (`PredictionsExact`).
* `cabac.c`: `kvz_cabac_write_coeff_remain_encry` writes a suffix twice for one Rice parameter and base level
  (`WrittenTwice`).
* `rate_control.c:81`: `gop_offset - owf` is negative for the first pictures of a group, and so is its remainder: the
  bits of a partial group are then subtracted from pictures that are not counted (`BudgetExact` leaves groups that are
  not low delay out).
* `cfg.c:1515`: separations of tiles are checked against the height of the picture, also when fields are coded.
* `cli.c`: the help names defaults (`--gop=8`, 4 references) that `kvz_config_init` does not have; `--no-high-tier`
  sets the high tier; `--tiles=1x1` turns WPP off.
* `search_inter.c`: the counter of rounds and the best distance of the TZ search are not reset between grids; the
  hexagon that has used up its steps looks around its old centre; the bit cost of a second vector is that of another
  candidate. These only cost compression, and `SearchIsThorough` says what holds nevertheless.

## Fairness

`ThreadQueue!FairSpec` has strong fairness of every worker and of the main thread inside a call: a thread that can
go on again and again does, and a lock that is given back again and again is granted to each thread that waits for
it. A scheduler that runs every runnable thread and mutexes without starvation justify it; weak fairness would let a
lock be taken away before every attempt for ever. The main thread is not assumed to make any call, only to finish the
calls it begins. `EncMain!Spec`: both threads run, and each read, write and call of the encoder ends.
`InputFrameBuffer!Spec` for `AllComeOut`: the caller goes on calling without a picture, as the loop of `encmain.c`
does; `PictureOrder!OSpec`, under which `order` checks it, adds that a call that has begun ends. The other
specifications state safety only: their steps are jobs that the thread queue runs, or calls the caller may stop making.

## Proofs

| Theorem | States | Argument |
|---|---|---|
| `ThreadQueueProofs!TypeCorrect` | `Spec => []TypeOK` for any finite sets of jobs and workers | `TypeOK` is inductive: it relates control points to `wjob`, `mjob` and `mdep`, and `served` to the length of `rdepends` |
| `ThreadQueueProofs!QueueInvariant` | `Spec => []QueueInv`, the inductive invariant of the thread queue | see below |
| `ThreadQueueProofs!ReferencesCorrect`, `AssertsHoldCorrect`, `NoLockCycleCorrect` | `[]References`, `[]AssertsHold`, `[]NoLockCycle` for any numbers of jobs, dependencies and threads | `QueueInv` implies each, the assertions with one more part (`ReadyInv`) |
| `ThreadQueueProofs!NoSleepingOnWorkCorrect` | `[]NoSleepingOnWork` for any number of threads, with spurious wakeups | `WakeInv`: every job in the queue has a worker that is awake and about to look, or has been pushed by the owner of the lock, who will signal |
| `ThreadQueueProofs!QueueIsScheduler` | `Spec => Implements`: the queue implements `JobScheduler` | one lemma per step of a thread: it is an operation of the scheduler or a stutter |
| `ThreadQueueProofs!QueueRunsInOrder` | a job that is executed by a worker or by its submitter has only finished dependencies | in `JobScheduler` dependencies are added only before submission, so that the phase of a dependency can only move on; `QueueIsScheduler` carries this over to the queue |
| `EncMainProofs!HandoverIsSafe` | `Spec => []ArgsExclusive` (with `NoPictureOverwritten`, one of its parts) for every input, delay and failure | one token: `avail + filled +` (input thread between wait and post) `= 1` exactly while main waits, and `img_in` is empty without it |
| `EncMainProofs!TypeCorrect`, `AllWrittenCorrect` | `[]TypeOK` and `[]AllWritten` for every length of input, delay, reordering within `Reorder` and failure | see below |
| `InputFrameBufferProofs!NoPictureLostCorrect` | `Spec => []NoPictureLost` for groups of every length and order, open and closed, sequences of every length | see below |
| `InputFrameBufferProofs!DecodingTimesCorrect` | `Spec => DecodingTimes`, an action property, wherever the presentation times jump | see below |
| `InputFrameBufferProofs!BufferReorders` | `Spec => Implements`: the buffer implements `PictureReorder` | each call is a `Call` of it; with the window of a group (`Returned`) and less than a group kept at the start (`Kept`) |
| `PictureOrderProofs!DisplayOrderCorrect`, `RandomAccessCorrect` | `OSpec => []DisplayOrder` and `[]RandomAccess` for groups of every kind and table, sequences of every length, and every intra period that `PeriodsFit` allows, which leaves out period 1 with `--gop=8`, where `DisplayOrder` is false. `RandomAccess` says nothing of how far apart intra pictures are if groups are closed | see below |
| `PictureOrderProofs!DecoderAgreesCorrect` | `OSpec => []DecoderAgrees`, the part of `RefsDecodable` that holds whatever the table: the decoder finds each order count and each reference; for the same periods | see below |
| `PictureOrderProofs!PlainDecodable` | with `--gop=0`, all of `RefsDecodable` | the list holds the last pictures, so that the first entry is always kept |
| `HandoverProofs!BudgetExactCorrect` | `RateSpec => []BudgetExact` for every `owf`, number of LCUs and order of the jobs | see below |
| `HandoverProofs!StatsOfOneFrameCorrect` | `RateSpec => []StatsOfOneFrame` for every `owf`, number of LCUs and order of the jobs | see below |
| `HandoverProofs!ReferredPixelsFinalCorrect` | `FilterSpec => []ReferredPixelsFinal` for frames and LCUs of every size, each combination of filters, every order of the jobs | see below |
| `HandoverProofs!FiltersInOrderCorrect` | `FilterSpec => []FiltersInOrder` for frames and LCUs of every size, each combination of filters, every order of the jobs | see below |
| `FramePipelineProofs!ReferencesAreFinal` | `WfSpec => []ReferencesFinal` for frames of every size, any number of them, any order of jobs | see below |
| `FramePipelineProofs!RingIsReady` | `PSpec => []RingReady` for every `owf`, every configuration, every sequence of calls and order of jobs | see below |
| `FramePipelineProofs!PipelineIsWavefront`, `PipelineReferencesFinal` | `PSpec /\ WaitsForReferences => WfSpec`, and so `=> []ReferencesFinal` | every call that starts a frame is `StartFrame`, every other step is one of a job or none of `Wavefront`'s |
| `FramePipelineProofs!StreamsInOrderCorrect` | `PSpec => []StreamsInOrder`, if fields are coded without reordering (`FieldsDirect`) | see below |
| `MotionProofs!PredictionIsExactCorrect` | `FracSpec => []PredictionIsExact` for units and pictures of every size, all vectors, tiles and levels of `--subme` | see below |
| `SearchTreeProofs!SearchIsConsistentCorrect` | `SearchSpec => []SearchIsConsistent` for LCUs and pictures of every size, every range of depths, whatever costs | see below |
| `MotionProofs!SearchIsThoroughCorrect` | `MeSpec => []SearchIsThorough` for every set of permitted vectors, candidates and range: the hexagon and the diamond (but for one point) without early termination and limit of steps, the TZ search without early termination, the windows of the full search but that around an extra vector which equals a rounded candidate | see below |

The invariant of the thread queue, `QueueInv`, has a control and a counting part. The control part says who owns each
lock (`LocksOwned`), in what state the job of a worker is (`WorkersOnJobs`), that the queue holds ready jobs
once and nobody works on them (`QueueReady`), what the arguments of the main thread's call are (`MainOnJobs`) and how far
closing has come (`Closing`). The counting part says that `ndepends[j]` is the number of unserved entries for `j` in all
`rdepends`, and `refcount[j]` that of handles, entries, places in the queue and workers that have `j`. None of
it holds alone: references can be counted only if entries are known to be for jobs that still wait (`Entries`); entries
are known only if the job that has them is not freed and used again; and that is so because its
references are counted. That nothing is left at the end (`NoLeak`) needs the dependencies to be acyclic (`Acyclic`), as they
are because one is only added to a job that is not submitted yet, and of a job that is. All of it was first model-checked on the 811925 states of
`MCThreadQueue`. In the refinement a job is *running* from `WStart` to `WFinish`; that its dependencies are done
when it starts follows from `Entries` and `DepsKept`: a dependency that is not done has an entry for the job, and a job with
an entry is not ready.

The invariant of `EncMain`, `PictureInv`, follows the pictures: (1) what the input thread has read is what was given to the
encoder and the at most two pictures on the way (`CountInv`); (2) given pictures are written, in the reorder buffer, inside the
encoder or coming out of it, each in one place only (`OrderInv`); (3) the buffer holds no picture more than
`Reorder` past the next one to write, so that with `ReorderFits` (`Reorder < ReconSize`) there is always room;
(4) which pictures are alive and which files open is decided by the two control points (`LiveInv`, `FilesInv`). `ReorderFits` is the
code's `KVZ_MAX_GOP_LENGTH`, which is both the size of the buffer and the longest group, whose pictures
are reordered within it. When the encoder has nothing left, the pictures given are an initial segment that is
written and buffered, and the one that `nextPts` waits for, if any, is in neither: so there is none.

The invariant of rate control says that of the last `owf + 1` frames each has its own encoder state (`ModDistinct`,
`ModPeriod`: frames `n` and `m` share one only if they are `owf + 1` apart), so that what an LCU job writes into the state
of its frame is not seen by another frame, and that a frame whose bitstream is written has all its LCUs. A
state is used again only when its frame has been returned, so its statistics are complete. For the budget
(`BudgetInv`) the total of a state is that of the last frame *written* from it, also when the next frame that uses the
state has been started and not been written (`Totals`): a total is added to that of the frame before, whose state may be
in use again by then. A state that was not used has a total of zero, which is that of the zero pictures that
are counted for the first frames. The target of a group is handed on from state to state (`Targets`).

The invariant of the filters, `JobsInv`, says that how far the jobs of the LCUs have come determines what has been
reconstructed, deblocked and written by SAO (`DoneByJobs`), and that a job has only begun when those of all LCUs *behind*
it are done: not further down, and not beyond its anti-diagonal (`BehindDone`; the two neighbours that a
job waits for are enough because each such LCU is behind one of them). The rest is geometry, with lemmas about
division for frames that are not whole LCUs (`PartOf`, `SaoPartOf`): which LCU filters a segment (`InsideHas`; `RightmostHas` for
the last four columns, which the next LCU filters), which one's SAO writes a pixel (`SaoWritesIt`), and that it is not
further than the margin of `fracmv_within_tile` from the pixel (`NearVer`, `NearHor`).

For the order of the filters `BuffersInv` adds what the buffers hold: from its search on, the last row and column
of an LCU are in the buffers of search as they were before any filter (`SearchSaved`), and from its save on, the row
and column at the end of its SAO area are in the other two, deblocked (`SaoSaved`). Both are facts about the moment of
saving: no job of another LCU may have reached those pixels yet with a filter (`LastUnfiltered`), and the jobs that
should have deblocked them must have come (`SavedDeblocked`). Both follow from `JobsInv`, by saying which LCUs may have
filtered an edge so far (`HorFilteredLater`, `VerFilteredLater`) and which must have (`HorFilteredAlready`,
`VerFilteredAlready`). Then a pixel around the SAO area of an LCU (`SaoInputIn`) is in the picture, or in the
column that the LCU on the left or diagonally above has saved (`ColumnSaved`), or in the row of the LCU
above or diagonally above (`RowSaved`).

The invariant of the input buffer (`BufferInv`) describes what has been returned. `GopStart` is the last
picture of the groups before, and positions go round from `GopOffset` 0 to `gopLen - 1`; all pictures up to `GopStart`
are returned, and of the current group those whose positions have been passed and which exist (`Groups`). Pictures that
are left are in the slots of their indices (`Stored`); they are of the current group and the next one (`Spanned`), less
than the three groups that the ring has room for, so an arriving one finds its slot free. A search for a picture can
fail only if all pictures of the group up to the newest are returned, and then as many are returned as have come,
and there is nothing to ask for (`GroupGoesOn`); by counting, too, a group whose last position has been passed is
complete (`GroupIsFull`), also if positions were skipped because the sequence ended: `numOut` pictures without
repetition below `numOut` are all of them. Arithmetic of closed groups, where an intra picture stands between groups, is in
`ClosedOffsetIs` and `ClosedNext`, which need whole groups between intra pictures (`GroupsWhole`). For the decoding times
(`DtsInv`), the last DTS is that of picture `numOut - 1` moved back by the delay, or the presentation time `gopLen - 2`
pictures back; that it is not later than the picture's own time needs the last picture of a group not to be
its first to be shown (`LastIsLater`), as in the table of `--gop=8`, the only group that is not low delay.

The invariant of the order of pictures, `OrderInv`, continues `BufferInv` and `DtsInv` with what `encoderstate.c` adds, and was
model-checked on the configurations of `order` and `order_temporal4` first. `Numbers` ties `num` to the pictures that the buffer
has returned. `Pictures` says of each coded picture which one it is: the code numbers pictures in coding order
(`num`, `gop_offset`), while the buffer chooses them by position, so that `c.pic = FirstOf(c.seq) + c.poc` is where the two
numberings meet; `FirstOf` is the picture at which the order count last began again. With it `DisplayOrder` is
arithmetic; each way of numbering has a lemma (`NewDirect`, `NewClosed`, `NewOpen`). `OpenAccess` is about
open groups, where an intra picture is coded before others that are shown before it: what follows it in
both orders has lost every older reference, because `encoder_state_remove_refs` drops those before `irap_poc`. `Near` bounds the distance
of an order count from that of the last picture of the lowest layer by the length of a group on either side; as a group
has at most 8 pictures (`PeriodsFit`) this is less than the half of 32 that 5 bits can tell apart. `Refers` says that
the list names pictures of this sequence that the decoder holds, each once: the decoder removes what a header does not
name, and a header names what was kept. None is inductive alone: the decoder holds a reference only if it took the earlier order
counts for what they were (`Near`), and these are of the same sequence only by `Pictures`.

`StreamsInOrderCorrect` adds to `RingInv` that the bitstreams written are those of the first frames, in order
(`StreamInv`), and, for fields, that an even number of frames is in flight when the first field of a picture is
given to the encoder, so that both fields come out in one call or none does (`PairInv`). With `--gop=8` and `--interlace` this is not so: the
input buffer may start with a second field, and `kvazaar.c:352` drops its bitstream (see *Defects*). `FieldsDirect` excludes exactly that: a configuration with fields has no
group of pictures or a low delay one.

The invariant of `Wavefront` (`WfInv`) says of every LCU that is encoded (1) everything behind it in its own
frame, that is all LCUs not further down and not beyond its anti-diagonal, is encoded; (2) every frame its frame
waits for, directly or through others, has encoded everything that the LCU may reach. Neither
is inductive alone: a frame may refer to one that it awaits only through another, so (2) is needed of that
one. The geometry is in two lemmas. `BehindNeighbours`: what is behind an LCU is behind its left or upper right
neighbour. `ReachCovered`: what an LCU may reach is behind the LCU it waits for, except in the last row, where
there is no row below and that LCU is only one column to the right; there the neighbour above has already waited
for the rest. The theorem assumes that each frame waits for its references (`Covered`), which `WaitsForReferences`
checks of the pipeline, and which `pipeline_open_gop` shows to fail for open groups.

The invariant of `FramePipeline` (`RingInv`) says that (1) the number of frames in flight decides where the two ends
of the ring are: `curState` is as far ahead of `outState` as there are frames in flight, or equal to it when there are
none or one for every state, and between calls there is a free state (`Filling`); (2) the states in flight hold
the frames from `framesDone` on, in order, and every other state holds an older frame and is not busy
(`SlotsExact`); (3) `num` is the next frame exactly between `kvz_encoder_prepare` and the start of a frame
(`Numbering`). `RingReady` alone does not say where in the ring a frame is, so it does not survive the return of
one. That the pipeline implements `Wavefront` needs (2) as well, so that the frame which is waited for has
been started, and the fact that the position in a low delay group is within its table (`LowDelayOffset`).

The invariant of `Interpolation` (`FracInv`) says what the rows that are kept from one step to the next
hold: row `y`, column `x` of the rows filtered at an offset is the sample there, for the rows that the step before has
filtered (`RowsFiltered`), and the rest of the buffer is stale. A block of a later step reads these rows shifted by up
to one row and one column, so that each step has a lemma (`HalfHorVerBlocks`, `HalfDiagBlocks`, `QuarterHorVerBlocks`,
`QuarterDiagBlocks`) that says it reads none that is stale, and that the sample it gets is that of its vector.
`VectorsFollow` relates the vector, its unit (whole pixels, halves or quarters) and the best index in each step.
For `PredictedExact` the reference picture is extended by its border: `AlwaysExtended` shows that a block which needs
samples outside the picture gets a copy with them.

The invariant of `MotionSearch` (`MeInv`) says of the hexagon that all its points and its centre have been compared and
the best vector is the centre or the point of the hexagon to move to (`HexagonChecked`). Only three points are compared after a
move; `HexagonsOverlap` shows that any other point of the new hexagon is the old centre or a point of the old hexagon,
for each of the six directions and the two numbers that name one twice. Of the diamond it says that its centre is the best
(`DiamondCentred`): at the end only the point left out last has not been compared (`DiamondDone`). Of the TZ search it says that in the star all smaller
distances were compared around the centre, and that a best distance of zero means that the centre is still the best
(`PatternsChecked`); distances double, so that none is between one and the next (`NextDistance`). Of the full search it says
that the window of the extra vector, if it is looked at, and all windows of candidates before the current one were compared, so that leaving out their vectors leaves out nothing
(`WindowsChecked`).

The invariant of `SearchTree` (`SearchInv`) speaks of each call on the stack. In the level of its CU and all below, what
comes before the CU is final, with the pixels of its mode; one level further down so are the quarters that it has searched, whose CUs
also have their coefficients there and lie in them as a whole (`LevelsOf`); and its own level holds the mode it keeps
in mind. `Finished` is what a call leaves behind: its CU is final in its own level and in those below, where the next
quarters will be searched, unless it is the whole LCU. Callees change nothing else (`Changed`, `OthersKept`): they work in the
quarter that the caller has come to (`Nested`), in the caller's next level and below. That is why partitions, quarters and the pixels
without coefficients can all be tried in the level below. `CopyDown` leaves the coefficients of the lower levels stale, which
does no harm: those of a decided CU are only copied up, from the level of the call that decided it.
The geometry is in lemmas: quarters cover a CU and do not overlap (`QuartersCover`, `QuarterIn`), and what comes before a
quarter in the order of coding is what comes before the CU and the quarters before it (`BeforeQuarter`). That
nothing is searched below the last level needs `DeepestHasModes`: a CU inside the picture, at a depth that no range
exceeds, ends a range or is a quarter of a CU in which the picture ends, and so has a mode.

Assumptions of the theorems are the `ASSUME`s of the modules that declare the constants: sets of jobs and
workers finite and disjoint from the special values, sizes natural numbers, at least two rows (otherwise the code
creates no jobs of LCUs), and a reference for every picture of a low delay group (`LowDelayRefs`: the code reads
`ref_neg[0]` of it), `ReorderFits`, `FieldsDirect`, `GroupsWhole` and `LastIsLater` as above. `PeriodsFit`: a group that is
not low delay has at most 8 pictures (`cfg.c:949` refuses any other than that of `--gop=8`), and a period is whole
groups (`cfg.c:1389`; a period of 1 passes that check, `tests/test_gop.sh` runs it, and the theorems do not cover it with
`--gop=8`: `DisplayOrder` is false there, as *Defects* says). `RefsFit`: fewer than
`MAX_REF_PIC_COUNT` references (`cfg.c:1401`), which also bounds those of an entry of a table. Sizes of blocks and pictures, ranges of searches
and limits of steps are integers of the right sign, and vectors pairs of them (`BlockSize`, `PictureSize`, `RangeNat`, `StepsOfMethods`, `VectorsInPlane`,
`PermittedVectors`). `DepthFits`: at most the code's `MAX_DEPTH` of 3; `SearchesFit`: ranges of depths are not empty and end where
`cfg.c:1451` says.

Only model-checked: that headers can always be written with a group (below), ownership, encoder
states, syntax, candidates for merging, configuration, and all of liveness. Out of reach
of the prover: liveness under fairness and `ENABLED`; what a recursive definition or a fold computes for every input (the
library's induction theorems take an operator as a parameter), and with it that a decoder gets back what was
written for sequences of every length. `PicturesAlive` compares reference counts with numbers of entries in lists, which
are such folds. `HeaderNeverFails`, and that a picture of a group has a reference left, are facts about
single tables: `order_temporal4` is a table for which the first is false, so that neither can be proved from
what all tables have in common.

## Not modelled, and why

* The values of pixels, transforms, SAO parameters, intra prediction and its search (`search_intra.c`), strategies of
  processors other than the generic ones: sequential arithmetic inside one job, whose correctness is one of numbers,
  not of states. What they read, and when, is in `LcuFilters` and `Wavefront`.
* Costs: every comparison of costs may have any result. Floating point formulas of rate control.
* The encryption of modes and signs, hashes of pictures, chunks of bitstreams: `EncryptionKeepsSyntax` covers levels.
* The text of options (`cfg.c`, `cli.c`): a value that cannot be parsed ends the program. CQM and ROI files.
* Allocation failures in the library: most end the process or are asserted away.
* The memory of encoder states that are partly initialised when opening fails (`kvazaar.c:132`): states fail to initialise
  only for layouts that `EncoderTree` refuses and without memory.
* The order within reference lists L0 and L1: only membership and positions matter for what is stated here.
* Reading and writing of raw pictures (`yuv_io.c`), checkpoints.

## Plan

1. *(done)* thread queue, command line program, input buffer, order of pictures, pipeline, wavefront.
2. *(done)* ownership, filters, rate control, tree of states, configuration, syntax, prediction, searches.
3. *(done)* theorems: the reference counts of the thread queue (`References`), the lock order (`NoLockCycle`), the
   refinement of `JobScheduler`; the order of the bitstreams (`StreamsInOrder`); `TypeOK` and `AllWritten` of `EncMain`;
   `StatsOfOneFrame`.
4. *(done)* theorems: `NoPictureLost`, `DecodingTimes` and the refinement of `PictureReorder` for any group that is a
   permutation; `BudgetExact`; `PredictionIsExact` and `SearchIsThorough`.
5. *(done)* theorems: `ReferredPixelsFinal`; `FiltersInOrder`, with what the four buffers hold added to `JobsInv`.
6. *(done)* theorems: `DisplayOrder`, `RandomAccess` and `DecoderAgrees`, from what the input buffer is proved to do;
   `QueueRunsInOrder`; `SearchIsConsistent`.
7. Next, theorems: `PicturesAlive`, with the reference counts stated as numbers of holders instead of folds; `JobsWait` of
   the tree of encoder states; `HeaderNeverFails` for the table of `--gop=8`.
