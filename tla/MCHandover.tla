------------------------------ MODULE MCHandover ------------------------------
(***************************************************************************)
(* What a frame in flight hands over, checked side by side: to a decoder   *)
(* its bitstream, to other frames its picture and reference lists, what    *)
(* rate control counts, and the pixels that the filters leave behind.  The *)
(* four share no state, so that a behaviour is one of a single subject;    *)
(* the others stay in an initial state.                                    *)
(***************************************************************************)
EXTENDS PictureOwnership, RateControl, LcuFilters, MCSyntax

MCConfig(owf, lossless, tiles, delay, pics) ==
  [owf |-> owf, lossless |-> lossless, tiles |-> tiles, delay |-> delay, pics |-> pics]

(* In a ring of owf + 1 states the first is used again after owf + 1       *)
(* pictures.                                                               *)
MCConfigs == {MCConfig(0, FALSE, 1, 1, 3), MCConfig(0, TRUE, 2, 0, 3),
              MCConfig(1, TRUE, 1, 0, 3), MCConfig(1, FALSE, 2, 1, 3),
              MCConfig(2, FALSE, 1, 0, 4)}

MCRate(owf, gopLen, lowDelay, period) ==
  [owf |-> owf, gopLen |-> gopLen, lowDelay |-> lowDelay, period |-> period]

(* No groups, and low delay groups shorter and longer than the frames in   *)
(* flight.                                                                 *)
MCRateConfigs ==
  {MCRate(0, 0, FALSE, 0), MCRate(1, 0, FALSE, 0), MCRate(2, 0, FALSE, 0),
   MCRate(0, 2, TRUE, 0), MCRate(1, 2, TRUE, 0), MCRate(2, 3, TRUE, 0), MCRate(1, 3, TRUE, 4)}
MCBits == {1, 2}

MCFrame(l, w, h, deblock, sao) ==
  [L |-> l, W |-> w, H |-> h, deblock |-> deblock, sao |-> sao]

(* Whole LCUs and columns and rows of 8 pixels at the end; LCUs of 64      *)
(* pixels, and smaller ones, of which more are encoded at once.            *)
MCFrames ==
  {MCFrame(16, 48, 32, TRUE, TRUE),
   MCFrame(32, 72, 40, TRUE, TRUE), MCFrame(64, 136, 72, TRUE, TRUE),
   MCFrame(16, 72, 48, TRUE, TRUE), MCFrame(16, 40, 24, TRUE, FALSE),
   MCFrame(16, 40, 24, FALSE, TRUE), MCFrame(16, 40, 24, FALSE, FALSE)}

-----------------------------------------------------------------------------

VARIABLE subject
handoverVars == <<ownVars, rateVars, filterVars, syntaxVars, subject>>

HandoverInit ==
  /\ subject \in {"pictures", "rate", "pixels", "syntax"}
  /\ OwnInit /\ (subject # "pictures" => cfg = CHOOSE c \in MCConfigs : TRUE)
  /\ RateInit /\ (subject # "rate" => rc = CHOOSE r \in MCRateConfigs : TRUE)
  /\ FilterInit /\ (subject # "pixels" => fr = MCFrame(16, 40, 24, FALSE, FALSE))
  /\ SyntaxInit /\ (subject # "syntax" => layer = "headers" /\ enc = MCEnc)

HandoverNext ==
  /\ \/ subject = "pictures" /\ OwnNext /\ UNCHANGED <<rateVars, filterVars, syntaxVars>>
     \/ subject = "rate" /\ RateNext /\ UNCHANGED <<ownVars, filterVars, syntaxVars>>
     \/ subject = "pixels" /\ FilterNext /\ UNCHANGED <<ownVars, rateVars, syntaxVars>>
     \/ subject = "syntax" /\ SyntaxNext /\ UNCHANGED <<ownVars, rateVars, filterVars>>
  /\ UNCHANGED subject

HandoverSpec == HandoverInit /\ [][HandoverNext]_handoverVars
=============================================================================
