----------------------------- MODULE MCDecisions -----------------------------
(***************************************************************************)
(* What an encoder decides before and while it codes a frame, checked side *)
(* by side: its configuration, the tree of its states, the candidates of a *)
(* motion vector, the searches for vectors of whole pixels and of          *)
(* fractions, and the search of the coding tree.  They share no state, so  *)
(* that a behaviour is one of a single subject; the others stay in an      *)
(* initial state.                                                          *)
(***************************************************************************)
EXTENDS MCEncoderTree, MCConfiguration, MCMotionCandidates, MCSearchTree, MCMotionSearch, MCInterpolation

VARIABLE subject
decisionVars == <<encoderVars, configVars, candVars, searchVars, meVars, fracVars, subject>>

DecisionsInit ==
  /\ subject \in {"states", "options", "candidates", "tree", "vectors", "fractions"}
  /\ EncoderInit /\ (subject # "states" => geo.w = 1)
  /\ ConfigInit  /\ (subject # "options" => line = <<Option("owf", 1)>> \o MCNamed)
  /\ SearchInit  /\ (subject # "tree" => search = CHOOSE s \in MCSearches : TRUE)
  /\ MeInit      /\ (subject # "vectors" => method = CHOOSE m \in MCMethods : TRUE)
  /\ CandInit /\ FracInit

DecisionsNext ==
  /\ \/ /\ subject = "states" /\ EncoderNext
        /\ UNCHANGED <<configVars, candVars, searchVars, meVars, fracVars>>
     \/ /\ subject = "options" /\ ConfigNext
        /\ UNCHANGED <<encoderVars, candVars, searchVars, meVars, fracVars>>
     \/ /\ subject = "candidates" /\ CandNext
        /\ UNCHANGED <<encoderVars, configVars, searchVars, meVars, fracVars>>
     \/ /\ subject = "tree" /\ SearchNext
        /\ UNCHANGED <<encoderVars, configVars, candVars, meVars, fracVars>>
     \/ /\ subject = "vectors" /\ MeNext
        /\ UNCHANGED <<encoderVars, configVars, candVars, searchVars, fracVars>>
     \/ /\ subject = "fractions" /\ FracNext
        /\ UNCHANGED <<encoderVars, configVars, candVars, searchVars, meVars>>
  /\ UNCHANGED subject

DecisionsSpec == DecisionsInit /\ [][DecisionsNext]_decisionVars
=============================================================================
