---------------------------- MODULE EntropyCoding ----------------------------
(***************************************************************************)
(* The bytes of a slice: src/src/bitstream.c, cabac.c and nal.c.  A NAL    *)
(* unit is a start code, a header of fixed length and Exp-Golomb fields    *)
(* and any number of substreams, each coded by CABAC into a stream of its  *)
(* own and moved to the stream of its parent when it is complete.          *)
(*                                                                         *)
(* What is coded is a sequence of symbols, records with a kind, a value    *)
(* and what the decoder knows of the symbol.  The second half of the       *)
(* module is the decoder of the standard, which is not part of the         *)
(* repository: it has to get back what was coded.                          *)
(* Operators named Wrong... are plausible mistakes in the definition that  *)
(* follows them and are not part of the specification.                     *)
(***************************************************************************)
EXTENDS Integers, Sequences, SequencesExt

CONSTANTS
  HeaderFields,   (* the fields that a header may start with               *)
  Symbols,        (* the symbols that may be coded                         *)
  MaxSymbols,     (* bound: symbols in a slice                             *)
  MaxSubstreams,  (* bound: substreams in a slice                          *)
  InitialModels   (* the states that the context models may start with     *)

VARIABLES
  stream,   (* the bitstream of the slice                                  *)
  cabac,    (* the coder of the current substream, and its stream          *)
  counter,  (* a coder that only counts, as the searches use it            *)
  header,   (* history: the fields that were written                       *)
  sent,     (* history: the symbols of each substream                      *)
  models    (* the initial states of the context models                    *)
entropyVars == <<stream, cabac, counter, header, sent, models>>

BitsOf(value, n) == [i \in 1..n |-> (value \div 2^(n - i)) % 2]
ValueOf(bits) == FoldLeft(LAMBDA v, b : 2 * v + b, 0, bits)
FloorLog2(n) == CHOOSE k \in 0..30 : 2^k <= n /\ n \div 2 < 2^k

-----------------------------------------------------------------------------
(* bitstream.c and nal.c                                                   *)

EmptyStream == [bytes |-> <<>>, data |-> 0, curBit |-> 0, zerocount |-> 0]

WriteByte(s, byte) == [s EXCEPT !.bytes = Append(@, byte)]

(* kvz_bitstream_put_byte                                                  *)
PutByte(s, byte) ==
  LET escaped == IF s.zerocount = 2 /\ byte < 4
                   THEN [WriteByte(s, 3) EXCEPT !.zerocount = 0] ELSE s
      next    == IF byte = 0 THEN escaped.zerocount + 1 ELSE 0
  IN [WriteByte(escaped, byte % 256) EXCEPT !.zerocount = next]

PutBit(s, bit) ==
  LET data == (2 * s.data + bit) % 256
  IN IF s.curBit = 7 THEN PutByte([s EXCEPT !.data = data, !.curBit = 0], data)
     ELSE [s EXCEPT !.data = data, !.curBit = @ + 1]
PutBits(s, value, n) == FoldLeft(PutBit, s, BitsOf(value, n))

PutUe(s, value) ==
  LET log2 == FloorLog2(value + 1)
  IN PutBits(s, value + 1, 2 * log2 + 1)
PutSe(s, value) == PutUe(s, IF value <= 0 THEN 2 * (-value) ELSE 2 * value - 1)

AlignZero(s) == IF s.curBit = 0 THEN s ELSE PutBits(s, 0, 8 - s.curBit)
TrailingBits(s) == AlignZero(PutBits(s, 1, 1))

(* kvz_bitstream_move: the stream that is moved continues the other one.   *)
Move(dst, src) == [src EXCEPT !.bytes = dst.bytes \o @]

NalWrite(s, type, temporalId) ==
  FoldLeft(WriteByte, s, <<0, 0, 1, 2 * type, (temporalId + 1) % 8>>)

-----------------------------------------------------------------------------
(* cabac.c: the states of the context models and the tables of the coder.  *)

LpsTable == <<
  <<128, 176, 208, 240>>, <<128, 167, 197, 227>>, <<128, 158, 187, 216>>, <<123, 150, 178, 205>>,
  <<116, 142, 169, 195>>, <<111, 135, 160, 185>>, <<105, 128, 152, 175>>, <<100, 122, 144, 166>>,
  << 95, 116, 137, 158>>, << 90, 110, 130, 150>>, << 85, 104, 123, 142>>, << 81,  99, 117, 135>>,
  << 77,  94, 111, 128>>, << 73,  89, 105, 122>>, << 69,  85, 100, 116>>, << 66,  80,  95, 110>>,
  << 62,  76,  90, 104>>, << 59,  72,  86,  99>>, << 56,  69,  81,  94>>, << 53,  65,  77,  89>>,
  << 51,  62,  73,  85>>, << 48,  59,  69,  80>>, << 46,  56,  66,  76>>, << 43,  53,  63,  72>>,
  << 41,  50,  59,  69>>, << 39,  48,  56,  65>>, << 37,  45,  54,  62>>, << 35,  43,  51,  59>>,
  << 33,  41,  48,  56>>, << 32,  39,  46,  53>>, << 30,  37,  43,  50>>, << 29,  35,  41,  48>>,
  << 27,  33,  39,  45>>, << 26,  31,  37,  43>>, << 24,  30,  35,  41>>, << 23,  28,  33,  39>>,
  << 22,  27,  32,  37>>, << 21,  26,  30,  35>>, << 20,  24,  29,  33>>, << 19,  23,  27,  31>>,
  << 18,  22,  26,  30>>, << 17,  21,  25,  28>>, << 16,  20,  23,  27>>, << 15,  19,  22,  25>>,
  << 14,  18,  21,  24>>, << 14,  17,  20,  23>>, << 13,  16,  19,  22>>, << 12,  15,  18,  21>>,
  << 12,  14,  17,  20>>, << 11,  14,  16,  19>>, << 11,  13,  15,  18>>, << 10,  12,  15,  17>>,
  << 10,  12,  14,  16>>, <<  9,  11,  13,  15>>, <<  9,  11,  12,  14>>, <<  8,  10,  12,  14>>,
  <<  8,   9,  11,  13>>, <<  7,   9,  11,  12>>, <<  7,   9,  10,  12>>, <<  7,   8,  10,  11>>,
  <<  6,   8,   9,  11>>, <<  6,   7,   9,  10>>, <<  6,   7,   8,   9>>, <<  2,   2,   2,   2>> >>

(* kvz_g_auc_next_state_lps, for a most probable symbol of 0; kvz_g_auc_...*)
(* _mps counts up to state 62.                                             *)
NextStateLps == <<
  1, 0, 2, 4, 4, 8, 8, 10, 12, 14, 16, 18, 18, 22, 22, 24, 26, 26, 30, 30, 32, 32, 36, 36,
  38, 38, 42, 42, 44, 44, 46, 48, 48, 50, 52, 52, 54, 54, 56, 58, 58, 60, 60, 60, 62, 64, 64, 66,
  66, 66, 68, 68, 70, 70, 70, 72, 72, 72, 74, 74, 74, 76, 76, 126 >>

Mps(state) == state % 2
Lps(state, range) == LpsTable[state \div 2 + 1][((range \div 64) % 4) + 1]
UpdateLps(state) ==
  LET next == NextStateLps[state \div 2 + 1]
  IN IF state = 1 THEN 0 ELSE next + (IF state = 0 THEN 0 ELSE Mps(state))
UpdateMps(state) == IF state < 124 THEN state + 2 ELSE state
RenormBits(lps) == IF lps < 8 THEN 6 ELSE 8 - FloorLog2(lps)

CabacStart(states, counting) ==
  [low |-> 0, range |-> 510, bitsLeft |-> 23, buffered |-> 0, byte |-> 255,
   counting |-> counting, states |-> states, stream |-> EmptyStream]

-----------------------------------------------------------------------------
(* kvz_cabac_write, _finish and the bins.                                  *)

PutBytes(s, n, byte) == FoldLeft(PutByte, s, [i \in 1..n |-> byte])

(* A byte is kept until it is known whether a carry will reach it, and so  *)
(* are the bytes 0xff after it.                                            *)
WrongPending(c, carry) ==
  PutBytes(PutByte(c.stream, c.byte + carry), c.buffered - 1, 255)
Pending(c, carry) ==
  PutBytes(PutByte(c.stream, c.byte + carry), c.buffered - 1, (255 + carry) % 256)

CabacWrite(c) ==
  LET lead == c.low \div 2^(24 - c.bitsLeft)
      left == c.bitsLeft + 8
      rest == [c EXCEPT !.bitsLeft = left, !.low = @ % 2^(32 - left)]
  IN IF c.counting \/ lead = 255 THEN [rest EXCEPT !.buffered = @ + 1]
     ELSE IF c.buffered = 0 THEN [rest EXCEPT !.buffered = 1, !.byte = lead]
     ELSE [rest EXCEPT !.stream = Pending(c, lead \div 256), !.buffered = 1, !.byte = lead % 256]

WriteIfFull(c) == IF c.bitsLeft < 12 THEN CabacWrite(c) ELSE c

CabacFinish(c) ==
  LET carry == c.low \div 2^(32 - c.bitsLeft)
      out   == IF c.buffered > 0 \/ carry = 1 THEN Pending(c, carry) ELSE c.stream
      low   == c.low - carry * 2^(32 - c.bitsLeft)
  IN PutBits(out, low \div 256, 24 - c.bitsLeft)

Renormalized(c) ==
  IF c.range >= 256 THEN c
  ELSE WriteIfFull([c EXCEPT !.low = 2 * @, !.range = 2 * @, !.bitsLeft = @ - 1])

EncodeBin(c, ctx, bin) ==
  LET state == c.states[ctx]
      lps   == Lps(state, c.range)
      range == c.range - lps
      n     == RenormBits(lps)
  IN IF bin # Mps(state)
       THEN WriteIfFull([c EXCEPT !.low = (@ + range) * 2^n, !.range = lps * 2^n,
                                  !.bitsLeft = @ - n, !.states[ctx] = UpdateLps(state)])
     ELSE Renormalized([c EXCEPT !.range = range, !.states[ctx] = UpdateMps(state)])

EncodeBinTrm(c, bin) ==
  LET range == c.range - 2
  IN IF bin = 1 THEN WriteIfFull([c EXCEPT !.low = (@ + range) * 2^7, !.range = 2 * 2^7,
                                           !.bitsLeft = @ - 7])
     ELSE Renormalized([c EXCEPT !.range = range])

EncodeGroupEp(c, group) ==
  LET n == Len(group)
  IN WriteIfFull([c EXCEPT !.low = @ * 2^n + c.range * ValueOf(group), !.bitsLeft = @ - n])
(* kvz_cabac_encode_bins_ep codes groups of 8 bins and then the rest, and  *)
(* kvz_cabac_encode_bin_ep a group of one.                                 *)
EncodeBinsEp(c, value, n) ==
  LET bins == BitsOf(value, n)
      full == IF n = 0 THEN 0 ELSE (n - 1) \div 8
  IN EncodeGroupEp(FoldLeft(EncodeGroupEp, c,
                            [i \in 1..full |-> SubSeq(bins, 8 * i - 7, 8 * i)]),
                   SubSeq(bins, 8 * full + 1, n))

(* get_coeff_cabac_cost: the bits of what has been coded so far.           *)
CountedBits(c) == 8 * c.buffered + 23 - c.bitsLeft

-----------------------------------------------------------------------------
(* The binarizations.                                                      *)

(* kvz_cabac_write_coeff_remain: how many bins of 1 there are before the 0,*)
(* and the suffix.                                                         *)
RemainCode(symbol, r) ==
  LET rest   == symbol - 3 * 2^r
      length == CHOOSE n \in r..30 : rest < 2^(n + 1) - 2^r /\ rest >= 2^n - 2^r
  IN IF rest < 0 THEN [ones |-> symbol \div 2^r, suffix |-> symbol % 2^r, bits |-> r]
     ELSE [ones |-> 3 + length - r, suffix |-> rest - (2^length - 2^r), bits |-> length]

(* kvz_cabac_write_coeff_remain_encry: the low bits of the suffix that are *)
(* encrypted are those that do not take the level over the limit where the *)
(* Rice parameter is incremented.                                          *)
WrongEncryptedBits(symbol, r, baseLevel) == RemainCode(symbol, r).bits
EncryptedBits(symbol, r, baseLevel) ==
  LET upper == symbol - 2 * 2^r
      fixed == CHOOSE k \in 1..r : /\ upper >= 2^r - 2^(r - k + 1)
                                  /\ k < r => upper < 2^r - 2^(r - k)
      last  == upper >= 2^r - 2
  IN IF symbol >= 3 * 2^r THEN RemainCode(symbol, r).bits
     ELSE IF baseLevel = 1 \/ upper < 0 \/ r = 0 THEN r
     ELSE IF last THEN (IF baseLevel = 2 THEN 0 ELSE 1)
     ELSE r - fixed
(* The key stream is any number.  The suffix is written twice when the Rice*)
(* parameter and the base level are 3.                                     *)
Encrypt(suffix, bits, key) == suffix - (suffix % 2^bits) + ((suffix + key) % 2^bits)
WrittenTwice(r, baseLevel) == r = 3 /\ baseLevel = 3

(* kvz_cabac_write_ep_ex_golomb                                            *)
GolombCode(symbol, count) ==
  LET length == CHOOSE n \in count..30 : /\ symbol < 2^(n + 1) - 2^count
                                         /\ symbol >= 2^n - 2^count
      n      == length - count
  IN [ones |-> n, suffix |-> symbol - (2^length - 2^count), bits |-> length]

PrefixedEp(c, code) ==
  EncodeBinsEp(EncodeBinsEp(c, 2^(code.ones + 1) - 2, code.ones + 1), code.suffix, code.bits)
GolombEp(c, code) ==
  EncodeBinsEp(c, (2^(code.ones + 1) - 2) * 2^code.bits + code.suffix, code.ones + 1 + code.bits)

(* kvz_cabac_write_unary_max_symbol and _ep                                *)
UnaryBins(symbol, max) ==
  [i \in 1..symbol |-> 1] \o (IF symbol < max THEN <<0>> ELSE <<>>)
EncodeUnary(c, ctx, rest, symbol, max) ==
  FoldLeft(LAMBDA acc, i : EncodeBin(acc, IF i = 1 THEN ctx ELSE rest, UnaryBins(symbol, max)[i]),
           c, [i \in 1..Len(UnaryBins(symbol, max)) |-> i])
(* The one with bypass bins writes a zero also if the maximum is zero.     *)
EncodeUnaryEp(c, symbol, max) ==
  FoldLeft(LAMBDA acc, bin : EncodeBinsEp(acc, bin, 1), c,
           IF symbol = 0 THEN <<0>> ELSE UnaryBins(symbol, max))

Encode(c, s) ==
  CASE s.kind = "bin"     -> EncodeBin(c, s.ctx, s.value)
    [] s.kind = "trm"     -> EncodeBinTrm(c, s.value)
    [] s.kind = "ep"      -> EncodeBinsEp(c, s.value, s.n)
    [] s.kind = "unary"   -> EncodeUnary(c, s.ctx, s.rest, s.value, s.n)
    [] s.kind = "unaryEp" -> EncodeUnaryEp(c, s.value, s.n)
    [] s.kind = "golomb"  -> GolombEp(c, GolombCode(s.value, s.n))
    [] s.kind = "remain"  -> PrefixedEp(c, RemainCode(s.value, s.n))

-----------------------------------------------------------------------------
(* The slice.                                                              *)
NoCoder == [states |-> <<>>]

EntropyInit ==
  /\ models \in InitialModels
  /\ stream = NalWrite(EmptyStream, 1, 0)
  /\ cabac = NoCoder /\ counter = NoCoder
  /\ header = <<>> /\ sent = <<>>

WriteField ==
  /\ sent = <<>> /\ header = <<>>
  /\ \E f \in HeaderFields :
       /\ header' = <<f>>
       /\ stream' = CASE f.kind = "u"  -> PutBits(stream, f.value, f.n)
                      [] f.kind = "ue" -> PutUe(stream, f.value)
                      [] f.kind = "se" -> PutSe(stream, f.value)
  /\ UNCHANGED <<cabac, counter, sent, models>>

(* encoder_state_write_slice_header ends the header, and kvz_cabac_start   *)
(* begins a substream.                                                     *)
StartSubstream ==
  /\ header # <<>> /\ cabac = NoCoder /\ Len(sent) < MaxSubstreams
  /\ stream' = IF sent = <<>> THEN TrailingBits(stream) ELSE stream
  /\ cabac' = CabacStart(models, FALSE) /\ counter' = CabacStart(models, TRUE)
  /\ sent' = Append(sent, <<>>)
  /\ UNCHANGED <<header, models>>

EncodeSymbol ==
  /\ cabac # NoCoder /\ Len(FlattenSeq(sent)) < MaxSymbols
  /\ \E s \in Symbols :
       /\ cabac' = Encode(cabac, s) /\ counter' = Encode(counter, s)
       /\ sent' = [sent EXCEPT ![Len(sent)] = Append(@, s)]
  /\ UNCHANGED <<stream, header, models>>

(* encoder_state_worker_encode_lcu at the end of a row or tile, and        *)
(* kvz_bitstream_move.                                                     *)
EndedSubstream == AlignZero(PutBits(CabacFinish(EncodeBinTrm(cabac, 1)), 1, 1))
EndSubstream ==
  /\ cabac # NoCoder
  /\ stream' = Move(stream, EndedSubstream)
  /\ cabac' = NoCoder /\ counter' = NoCoder
  /\ UNCHANGED <<header, sent, models>>

SliceDone ==
  cabac = NoCoder /\ Len(sent) = MaxSubstreams /\ UNCHANGED entropyVars

EntropyNext == WriteField \/ StartSubstream \/ EncodeSymbol \/ EndSubstream \/ SliceDone
EntropySpec == EntropyInit /\ [][EntropyNext]_entropyVars

-----------------------------------------------------------------------------
(* A decoder of the standard: the payload of a NAL unit, Exp-Golomb fields *)
(* and the arithmetic decoder (clauses 7.3.1, 9.2 and 9.3.4.3).            *)

Payload(bytes) ==
  FoldLeft(LAMBDA p, b : IF p.zeros >= 2 /\ b = 3 THEN [p EXCEPT !.zeros = 0]
                         ELSE [bytes |-> Append(p.bytes, b),
                               zeros |-> IF b = 0 THEN p.zeros + 1 ELSE 0],
           [bytes |-> <<>>, zeros |-> 0], bytes).bytes
(* A reader: the bytes and the number of bits that have been read.         *)
ReadBit(bytes, pos) ==
  IF pos \div 8 >= Len(bytes) THEN 0 ELSE (bytes[pos \div 8 + 1] \div 2^(7 - (pos % 8))) % 2
ReadBits(bytes, pos, n) == ValueOf([i \in 1..n |-> ReadBit(bytes, pos + i - 1)])
UeLength(bytes, pos) == CHOOSE n \in 0..30 :
  /\ ReadBit(bytes, pos + n) = 1
  /\ \A i \in 0..(n - 1) : ReadBit(bytes, pos + i) = 0
ReadUe(bytes, pos) == LET n == UeLength(bytes, pos) IN ReadBits(bytes, pos + n, n + 1) - 1
FieldEnd(bytes, f) == IF f.kind = "u" THEN f.n ELSE 2 * UeLength(bytes, 0) + 1
FieldOf(bytes, f) ==
  LET ue == ReadUe(bytes, 0)
  IN CASE f.kind = "u"  -> ReadBits(bytes, 0, f.n)
       [] f.kind = "ue" -> ue
       [] f.kind = "se" -> IF ue % 2 = 1 THEN (ue + 1) \div 2 ELSE -(ue \div 2)
(* byte_alignment(): a bit 1, and zeros up to the next byte.               *)
AfterAlignment(pos) == 8 * (pos \div 8 + 1)
IsAlignment(bytes, pos) ==
  ReadBits(bytes, pos, AfterAlignment(pos) - pos) = 2^(AfterAlignment(pos) - pos - 1)

Decoder(bytes, pos) ==
  [bytes |-> bytes, pos |-> pos + 9, range |-> 510, offset |-> ReadBits(bytes, pos, 9),
   states |-> models, bins |-> <<>>]
NextBit(d) ==
  [d EXCEPT !.offset = 2 * @ + ReadBit(d.bytes, d.pos), !.pos = @ + 1]
Scaled(d) ==
  LET n == 8 - FloorLog2(d.range)
  IN IF n <= 0 THEN d
     ELSE [FoldLeft(LAMBDA e, i : NextBit(e), d, [i \in 1..n |-> i]) EXCEPT !.range = @ * 2^n]
Result(d, bin) == [d EXCEPT !.bins = Append(@, bin)]

DecodeBin(d, ctx) ==
  LET state == d.states[ctx]
      lps   == Lps(state, d.range)
      range == d.range - lps
  IN IF d.offset >= range
       THEN Scaled(Result([d EXCEPT !.offset = @ - range, !.range = lps,
                                    !.states[ctx] = UpdateLps(state)], 1 - Mps(state)))
     ELSE Scaled(Result([d EXCEPT !.range = range, !.states[ctx] = UpdateMps(state)], Mps(state)))
DecodeEp(d) ==
  LET next == NextBit(d)
  IN IF next.offset >= d.range THEN Result([next EXCEPT !.offset = @ - d.range], 1)
     ELSE Result(next, 0)
DecodeTrm(d) ==
  LET range == d.range - 2
  IN IF d.offset >= range THEN Result(d, 1)     (* the end: no renormalisation *)
     ELSE Scaled(Result([d EXCEPT !.range = range], 0))
DecodeEps(d, n) == FoldLeft(LAMBDA e, i : DecodeEp(e), d, [i \in 1..n |-> i])

(* The value of a symbol from the bins that are read for it.               *)
RECURSIVE DecodeOnes(_, _, _)
DecodeOnes(d, first, max) ==      (* a unary number; bypass if first = 0   *)
  IF max = 0 THEN d
  ELSE LET e == IF first[1] = 0 THEN DecodeEp(d) ELSE DecodeBin(d, first[1])
       IN IF Last(e.bins) = 0 THEN e ELSE DecodeOnes(e, Tail(first), max - 1)
Ones(d) == Len(SelectSeq(d.bins, LAMBDA b : b = 1))
BypassBins(n) == [i \in 1..n |-> 0]
FirstBin(d)  == <<d, d.bins[1]>>
AllBins(d)   == <<d, ValueOf(d.bins)>>
CountOnes(d) == <<d, Ones(d)>>
AfterPrefix(d, suffixBits(_), value(_, _)) ==
  LET suffix == DecodeEps([d EXCEPT !.bins = <<>>], suffixBits(Ones(d)))
  IN <<suffix, value(Ones(d), ValueOf(suffix.bins))>>
DecodeGolomb(d, suffixBits(_), value(_, _)) ==
  AfterPrefix(DecodeOnes(d, BypassBins(32), 32), suffixBits, value)

(* What the decoder gets for symbol s, of which it uses all but the value. *)
DecodeSymbol(d0, s) ==
  LET d == [d0 EXCEPT !.bins = <<>>]
  IN CASE s.kind = "bin"     -> FirstBin(DecodeBin(d, s.ctx))
       [] s.kind = "trm"     -> FirstBin(DecodeTrm(d))
       [] s.kind = "ep"      -> AllBins(DecodeEps(d, s.n))
       [] s.kind = "unary"   -> CountOnes(DecodeOnes(d, <<s.ctx>> \o [i \in 1..s.n |-> s.rest], s.n))
       [] s.kind = "unaryEp" -> CountOnes(DecodeOnes(d, BypassBins(s.n), s.n))
       [] s.kind = "golomb"  ->
            DecodeGolomb(d, LAMBDA n : n + s.n, LAMBDA n, v : 2^(n + s.n) - 2^s.n + v)
       [] s.kind = "remain"  ->
            DecodeGolomb(d, LAMBDA n : IF n <= 3 THEN s.n ELSE n - 3 + s.n,
                         LAMBDA n, v : IF n <= 3 THEN n * 2^s.n + v
                                       ELSE (2^(n - 3) + 3 - 1) * 2^s.n + v)

(* A substream: the position after it, or -1 if it is not what was coded.  *)
(* The last bit that was read is the bit 1 of the alignment.               *)
Compared(result, s, same) == <<result[1], same /\ result[2] = s.value>>
AfterSubstream(bytes, end, same) ==
  IF same /\ Last(end.bins) = 1 /\ IsAlignment(bytes, end.pos - 1) THEN AfterAlignment(end.pos - 1) ELSE -1
AfterSymbols(bytes, all) == AfterSubstream(bytes, DecodeTrm(all[1]), all[2])
DecodeSubstream(bytes, pos, symbols) ==
  AfterSymbols(bytes, FoldLeft(LAMBDA acc, s : Compared(DecodeSymbol(acc[1], s), s, acc[2]),
                               <<Decoder(bytes, pos), TRUE>>, symbols))

-----------------------------------------------------------------------------
(* Properties.                                                             *)

Finished == IF cabac = NoCoder THEN stream ELSE Move(stream, EndedSubstream)

(* "emulation_prevention_three_byte" (src/src/bitstream.c:205): no start   *)
(* code appears in a NAL unit after its own, whatever is coded and however *)
(* the substreams are put together; and a decoder gets back the header and *)
(* every symbol of every substream, and finds the end of each of them:     *)
(* carries reach the bytes that are kept back, and the 0xff among them.    *)
NoStartCode(b) ==
  \A i \in 4..(Len(b) - 2) : ~(b[i] = 0 /\ b[i + 1] = 0 /\ b[i + 2] < 3)
PayloadDecodes(bytes, start) ==
  /\ FieldOf(bytes, header[1]) = header[1].value /\ IsAlignment(bytes, start)
  /\ FoldLeft(LAMBDA pos, symbols : IF pos < 0 THEN pos ELSE DecodeSubstream(bytes, pos, symbols),
              AfterAlignment(start), sent) = 8 * Len(bytes)
UnitDecodes(s) ==
  LET bytes == Payload(SubSeq(s.bytes, 6, Len(s.bytes)))
  IN /\ NoStartCode(s.bytes)
     /\ Last(s.bytes) # 0 /\ s.curBit = 0
     /\ PayloadDecodes(bytes, FieldEnd(bytes, header[1]))
SliceDecodes == sent # <<>> => UnitDecodes(Finished)

(* The searches take the cost of symbols from a coder that only counts, as *)
(* 8 * num_buffered_bytes + 23 - bits_left (src/src/rdo.c:185): it is the  *)
(* number of bits that the symbols take when they are coded.               *)
CountsBits ==
  cabac # NoCoder =>
    LET out == Move(EmptyStream, CabacFinish(cabac))
    IN CountedBits(counter) = 8 * Len(Payload(out.bytes)) + out.curBit - 1
SliceIsExact == SliceDecodes /\ CountsBits

(* Encryption of coefficients leaves the syntax as it is: the level that a *)
(* decoder without the key reads has a code of the same length and changes *)
(* the Rice parameter for the next level in the same way.                  *)
EncryptionKeepsSyntax ==
  sent = << <<>> >> =>
    \A r \in 0..4, baseLevel \in 1..3 : ~WrittenTwice(r, baseLevel) =>
      \A value \in 0..(4 * 2^r + 3), key \in 0..15 :
        LET code  == RemainCode(value, r)
            bits  == EncryptedBits(value, r, baseLevel)
            other == value - code.suffix + Encrypt(code.suffix, bits, key)
            grows(v) == v + baseLevel > 3 * 2^r
        IN /\ RemainCode(other, r).ones = code.ones
           /\ grows(other) = grows(value)
=============================================================================
