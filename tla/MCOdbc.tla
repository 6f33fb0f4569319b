--------------------------------- MODULE MCOdbc ---------------------------------
(* A name that fits, two of 20 characters or more that begin alike, a password of
   either kind. *)
EXTENDS Odbc, TLC

CONSTANTS min, longer, longest, beginning, pw, longpw, pwbeginning

MCStart == [t \in {longer, longest, longpw} |-> IF t = longpw THEN pwbeginning ELSE beginning]

\* The two long names differ in nothing but what is cut off.
MCSymmetry == Permutations({longer, longest})
=============================================================================
