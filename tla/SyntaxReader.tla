----------------------------- MODULE SyntaxReader -----------------------------
(***************************************************************************)
(* How a decoder reads a sequence of syntax elements <<name, coding,       *)
(* value>>.  The coding is the context of an element that CABAC codes, or  *)
(* the descriptor of one in a header.  A reader is a record: in, the rest  *)
(* of the input; ok, whether every element so far was the one that the     *)
(* standard has there, coded in the way it says; v, the last value.        *)
(***************************************************************************)
EXTENDS Integers, Sequences

GetElemIf(cond, d, name, coding, inferred) ==
  IF ~cond THEN [d EXCEPT !.v = inferred]
  ELSE IF d.in # <<>> /\ Head(d.in)[1] = name /\ Head(d.in)[2] = coding
    THEN [d EXCEPT !.in = Tail(@), !.v = Head(d.in)[3]]
  ELSE [d EXCEPT !.ok = FALSE, !.v = inferred]
GetElem(d, name, coding) == GetElemIf(TRUE, d, name, coding, 0)

(* The next step of a reader or writer, from the result of the step before.*)
Then(d, next(_)) == next(d)
=============================================================================
