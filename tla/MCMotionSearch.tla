---------------------------- MODULE MCMotionSearch ----------------------------
EXTENDS MotionSearch

MCMethod(search, merge) ==
  [search |-> search, merge |-> merge, extra |-> <<0, 0>>, early |-> "off", steps |-> -1]
MCMethods ==
  {MCMethod("hex", << <<-8, 8>> >>), [MCMethod("hex", <<>>) EXCEPT !.early = "on", !.steps = 1],
   [MCMethod("dia", << <<-9, 4>> >>) EXCEPT !.extra = <<4, 4>>, !.steps = 2],
   [MCMethod("dia", <<>>) EXCEPT !.early = "sensitive"], MCMethod("dia", << <<-9, 4>> >>),
   MCMethod("tz", << <<5, 0>> >>), [MCMethod("full", << <<-6, 3>>, <<8, 8>> >>) EXCEPT !.extra = <<4, 0>>]}
MCPermitted == (-2..2) \X (-3..2)
=============================================================================
