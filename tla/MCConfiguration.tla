--------------------------- MODULE MCConfiguration ---------------------------
EXTENDS Configuration

Option(name, value) == [name |-> name, value |-> value]
MCGop(len, lowdelay, d, t) == [name |-> "gop", value |-> [len |-> len, lowdelay |-> lowdelay, d |-> d, t |-> t]]
MCSplit(name, uniform, split) == [name |-> name, uniform |-> uniform, split |-> split]
MCInput(size) == [name |-> "input", size |-> size]

MCOptions ==
  {Option("period", 1), Option("period", 12), Option("ref", 16), Option("owf", 1),
   MCGop(8, FALSE, 0, 0), MCGop(8, TRUE, 5, 1), MCGop(0, FALSE, 0, 0), MCGop(33, TRUE, 1, 1),
   Option("wpp", TRUE), Option("wpp", FALSE), Option("tmvp", TRUE), Option("tmvp", FALSE),
   [name |-> "tiles", cols |-> 2, rows |-> 2], [name |-> "tiles", cols |-> 6, rows |-> 1],
   MCSplit("tiles-width-split", 0, <<64, 192>>), MCSplit("tiles-width-split", 3, <<>>),
   MCSplit("tiles-height-split", 0, <<100>>), MCSplit("tiles-height-split", 0, <<128>>),
   Option("slices", {"wpp"}), Option("interlaced", TRUE), Option("lossless", TRUE), Option("rdpcm", TRUE),
   Option("roi", << <<-51, 10>> >>), Option("qpInCu", TRUE), Option("erpAqp", TRUE), Option("qp", 51),
   Option("cqmfile", "missing"), Option("scaling", "custom"), Option("key", <<1>>),
   Option("vpsPeriod", -1), Option("vpsPeriod", 2), Option("preset", FastPreset), Option("preset", SlowPreset),
   [name |-> "level", value |-> 10, force |-> FALSE], Option("highTier", TRUE), Option("bitrate", 200000),
   MCInput(<<64, 64>>), [name |-> "help"], Option("threads", 3)}
MCFiles == {<<MCInput(<<320, 196>>), [name |-> "output"]>>, <<[name |-> "output"]>>,
            <<MCInput(<<>>), [name |-> "output"]>>}
MCTogether ==
  {Option("wpp", TRUE), Option("tmvp", TRUE), [name |-> "tiles", cols |-> 2, rows |-> 2],
   MCSplit("tiles-width-split", 3, <<>>), Option("slices", {"wpp"}), Option("interlaced", TRUE),
   Option("roi", << <<-51, 10>> >>), Option("qpInCu", TRUE), Option("erpAqp", TRUE), Option("qp", 51),
   Option("period", 1)}
MCNamed == <<MCInput(<<320, 196>>), [name |-> "output"]>>
MCLines ==
  {<<a, b>> \o MCNamed : a \in MCOptions, b \in MCOptions}
  \cup {<<a, b, c>> \o MCNamed : a \in MCTogether, b \in MCTogether, c \in MCTogether}
  \cup {<<a>> \o f : a \in MCOptions, f \in MCFiles}
MCErp(y) == IF y = 2 THEN 0 ELSE 4
=============================================================================
